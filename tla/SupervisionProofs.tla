-------------------------- MODULE SupervisionProofs --------------------------
(***************************************************************************)
(* RunTree implements Supervision, for any runs, names and bounds.  The     *)
(* mapping is the one of the property Supervised: what a run's parent can   *)
(* see of it.  Of the helpers a transaction is made of, the ones that move   *)
(* runs between live states are invisible; ending runs, inserting one and   *)
(* reading a report are steps of Supervision.  A transaction that does two  *)
(* of these (a completion with its follow-up) does them to different runs.  *)
(***************************************************************************)
EXTENDS RunTreeProofs

\* Life and Report, of any tables.
LifeOf(d, r) == IF d.status[r] \in Live THEN "live" ELSE d.status[r]

ReportOf(d, c) ==
    LET p == d.parent[c]
    IN  IF p = NoRun \/ d.status[c] \notin Ended THEN "none"
        ELSE IF c \in d.read THEN "read"
        ELSE IF d.status[p] \in Ended THEN "void"
        ELSE IF d.buffer[p][c] = 1 THEN "sent" ELSE "lost"

\* Nobody's parent can tell the tables e from d.
Alike(d, e) ==
    \A r \in Run : /\ e.parent[r] = d.parent[r]
                   /\ LifeOf(e, r) = LifeOf(d, r)
                   /\ ReportOf(e, r) = ReportOf(d, r)

\* The step of Supervision, between two tables.
EndsIn(d, e, r) == LifeOf(d, r) = "live" /\ LifeOf(e, r) # "live"

StepOf(d, e, r) ==
    LET p        == d.parent[r]
        orphaned == LifeOf(e, p) \in Ended
    IN  /\ \/ LifeOf(e, r) = LifeOf(d, r)
           \/ LifeOf(d, r) = "absent" /\ LifeOf(e, r) = "live"
           \/ LifeOf(d, r) = "live" /\ LifeOf(e, r) \in Ended
        /\ \/ e.parent[r] = p
           \/ /\ LifeOf(d, r) = "absent" /\ LifeOf(e, r) = "live"
              /\ e.parent[r] \in Run /\ LifeOf(d, e.parent[r]) = "live"
        /\ p = NoRun => ReportOf(e, r) = "none"
        /\ p # NoRun /\ EndsIn(d, e, r) =>
              ReportOf(e, r) = IF orphaned THEN "void" ELSE "sent"
        /\ p # NoRun /\ ~EndsIn(d, e, r) =>
              \/ ReportOf(e, r) = ReportOf(d, r)
                   /\ ~(ReportOf(d, r) = "sent" /\ orphaned)
              \/ ReportOf(d, r) = "sent" /\ ReportOf(e, r) = "read"
              \/ ReportOf(d, r) = "sent" /\ ReportOf(e, r) = "void" /\ orphaned

Supervises(d, e) == \A r \in Run : StepOf(d, e, r)

-----------------------------------------------------------------------------
\* A parent that is live or ended: what the invariant says of a report.
LEMMA ReportFacts ==
    ASSUME NEW d \in Tables, Inv(d), NEW c \in Run
    PROVE  /\ d.parent[c] \in Run \cup {NoRun}
           /\ d.parent[c] # NoRun =>
                /\ d.status[d.parent[c]] \in Live \cup Ended
                /\ d.status[c] \in Live \cup Ended
           /\ d.status[c] \notin Ended => ReportOf(d, c) = "none" /\ c \notin d.read
           /\ ReportOf(d, c) # "lost"
           /\ ReportOf(d, c) = "sent" <=>
                /\ d.parent[c] # NoRun /\ d.status[c] \in Ended
                /\ d.status[d.parent[c]] \in Live
                /\ c \notin d.read
<1>1. d.parent[c] \in Run \cup {NoRun} /\ d.status \in [Run -> Status]
  BY DEF Tables
<1>2. d.parent[c] # NoRun => /\ d.status[d.parent[c]] \in Live \cup Ended
                             /\ d.status[c] \in Live \cup Ended
  BY <1>1 DEF Inv, ParentsExist, Status
<1>3. d.status[c] \notin Ended => ReportOf(d, c) = "none" /\ c \notin d.read
  BY DEF ReportOf, Inv, ReportsAreReal
<1>4. ASSUME d.parent[c] # NoRun, d.status[c] \in Ended,
             d.status[d.parent[c]] \in Live, c \notin d.read
      PROVE  ReportOf(d, c) = "sent"
  <2>1. d.buffer[d.parent[c]][c] = 1
    BY <1>4 DEF Inv, ReportsOnce
  <2> QED BY <1>4, <2>1 DEF ReportOf, Live, Asleep, Ended
<1>5. ASSUME ~(/\ d.parent[c] # NoRun /\ d.status[c] \in Ended
               /\ d.status[d.parent[c]] \in Live /\ c \notin d.read)
      PROVE  ReportOf(d, c) \in {"none", "read", "void"}
  BY <1>2, <1>5 DEF ReportOf
<1> QED BY <1>1, <1>2, <1>3, <1>4, <1>5

\* Tables that differ in nothing but live states look alike.
LEMMA MovesAreAlike ==
    ASSUME NEW d \in Tables, NEW e,
           e.parent = d.parent, e.buffer = d.buffer, e.read = d.read,
           \A r \in Run : \/ e.status[r] = d.status[r]
                          \/ d.status[r] \in Live /\ e.status[r] \in Live
    PROVE  Alike(d, e)
<1>1. d.parent \in [Run -> Run \cup {NoRun}]
  BY DEF Tables
<1>2. ASSUME NEW r \in Run
      PROVE  /\ e.status[r] \in Live <=> d.status[r] \in Live
             /\ e.status[r] \in Ended <=> d.status[r] \in Ended
             /\ LifeOf(e, r) = LifeOf(d, r)
  BY DEF LifeOf, Live, Asleep, Ended
<1>3. ASSUME NEW r \in Run
      PROVE  ReportOf(e, r) = ReportOf(d, r)
  BY <1>1, <1>2 DEF ReportOf
<1> QED BY <1>2, <1>3 DEF Alike

\* Two invisible changes after one another are invisible.
LEMMA AlikeTransitive ==
    ASSUME NEW d, NEW e, NEW f, Alike(d, e), Alike(e, f)
    PROVE  Alike(d, f)
BY DEF Alike

\* A step of Supervision may be preceded and followed by invisible changes.
LEMMA StepBetweenAlikes ==
    ASSUME NEW d \in Tables, NEW d1 \in Tables, NEW e1 \in Tables, NEW e,
           Alike(d, d1), Supervises(d1, e1), Alike(e1, e)
    PROVE  Supervises(d, e)
<1> SUFFICES ASSUME NEW r \in Run
             PROVE  StepOf(d, e, r)
  BY DEF Supervises
<1>1. StepOf(d1, e1, r)
  BY DEF Supervises
<1>2. /\ d.parent[r] = d1.parent[r] /\ d1.parent[r] \in Run \cup {NoRun}
      /\ e.parent[r] = e1.parent[r]
  BY DEF Alike, Tables
<1>3. /\ LifeOf(d, r) = LifeOf(d1, r) /\ LifeOf(e, r) = LifeOf(e1, r)
      /\ ReportOf(d, r) = ReportOf(d1, r) /\ ReportOf(e, r) = ReportOf(e1, r)
      /\ \A x \in Run : LifeOf(d, x) = LifeOf(d1, x) /\ LifeOf(e, x) = LifeOf(e1, x)
  BY DEF Alike
<1> QED BY <1>1, <1>2, <1>3 DEF StepOf, EndsIn

\* Standing still is a step of Supervision: no report waits for a parent that has ended.
LEMMA StandingStill ==
    ASSUME NEW d \in Tables, Inv(d)
    PROVE  Supervises(d, d)
<1> SUFFICES ASSUME NEW r \in Run
             PROVE  StepOf(d, d, r)
  BY DEF Supervises
<1>1. /\ ReportOf(d, r) = "sent" => d.status[d.parent[r]] \in Live
      /\ d.parent[r] = NoRun => ReportOf(d, r) = "none"
  BY ReportFacts DEF ReportOf
<1> QED BY <1>1 DEF StepOf, EndsIn, LifeOf, Live, Asleep, Ended

\* So is an invisible change.
LEMMA AlikeIsStep ==
    ASSUME NEW d \in Tables, Inv(d), NEW e, Alike(d, e)
    PROVE  Supervises(d, e)
<1>1. Alike(d, d)
  BY DEF Alike
<1> QED BY <1>1, StandingStill, StepBetweenAlikes

-----------------------------------------------------------------------------
(* The helpers of a transaction.                                           *)

\* Waking runs is invisible.
LEMMA MakePendingAlike ==
    ASSUME NEW d \in Tables, NEW S \in SUBSET Run
    PROVE  Alike(d, MakePending(d, S))
<1> DEFINE e == MakePending(d, S)
<1>1. /\ e.parent = d.parent /\ e.buffer = d.buffer /\ e.read = d.read
      /\ \A r \in Run : e.status[r] = IF r \in S /\ d.status[r] = "suspended"
                                      THEN "pending" ELSE d.status[r]
  BY MakePendingFields
<1> HIDE DEF e
<1>2. Alike(d, e)
  BY <1>1, MovesAreAlike DEF Live, Asleep
<1> QED BY <1>2 DEF e

\* So is claiming runs and reclaiming them.
LEMMA ClaimAlike ==
    ASSUME NEW d \in Tables, NEW R, \A r \in R : d.status[r] \in Live
    PROVE  Alike(d, Claim(d, R)) /\ Alike(d, Reclaim(d, R))
<1>1. ASSUME NEW e, NEW to \in {"pending", "running"},
             e = [d EXCEPT !.status = [r \in Run |-> IF r \in R THEN to ELSE @[r]]]
      PROVE  Alike(d, e)
  <2>1. /\ e.parent = d.parent /\ e.buffer = d.buffer /\ e.read = d.read
        /\ \A r \in Run : e.status[r] = IF r \in R THEN to ELSE d.status[r]
    BY <1>1 DEF Tables
  <2> QED BY <2>1, MovesAreAlike DEF Live, Asleep
<1> QED BY <1>1 DEF Claim, Reclaim

\* So is asking running runs to stop.
LEMMA FlagRunningAlike ==
    ASSUME NEW d \in Tables, NEW R
    PROVE  Alike(d, FlagRunning(d, R))
<1> DEFINE e == FlagRunning(d, R)
<1>1. /\ e.status = d.status /\ e.parent = d.parent
      /\ e.buffer = d.buffer /\ e.read = d.read
  BY DEF FlagRunning, Tables
<1> HIDE DEF e
<1>2. Alike(d, e)
  BY <1>1, MovesAreAlike
<1> QED BY <1>2 DEF e

\* So is putting a live run to sleep.
LEMMA FallAsleepAlike ==
    ASSUME NEW d \in Tables, NEW r \in Run, d.status[r] \in Live, NEW names, NEW timed
    PROVE  Alike(d, FallAsleep(d, r, names, timed))
<1> DEFINE e == FallAsleep(d, r, names, timed)
<1>1. /\ e.parent = d.parent /\ e.buffer = d.buffer /\ e.read = d.read
      /\ \A x \in Run : e.status[x] = IF x = r THEN "suspended" ELSE d.status[x]
  BY DEF FallAsleep, Tables
<1> HIDE DEF e
<1>2. Alike(d, e)
  BY <1>1, MovesAreAlike DEF Live, Asleep
<1> QED BY <1>2 DEF e

\* So is a suspension, whether it is granted or not.
LEMMA SuspendAlike ==
    ASSUME NEW d \in Tables, NEW r \in Run, d.status[r] \in Live,
           NEW wakeup \in Wakeups(d, r)
    PROVE  Alike(d, Suspend(d, r, wakeup))
<1> DEFINE asleep == FallAsleep(d, r, wakeup.names, wakeup.timed)
<1>1. Alike(d, asleep)
  BY FallAsleepAlike
<1>2. asleep \in Tables
  BY WakeupType, FallAsleepType
<1>3. Alike(asleep, MakePending(asleep, {r}))
  BY <1>2, MakePendingAlike
<1>4. Alike(d, MakePending(asleep, {r}))
  BY <1>1, <1>3, AlikeTransitive
<1> QED BY <1>1, <1>4 DEF Suspend

\* So is a retry.
LEMMA RetryAlike ==
    ASSUME NEW d \in Tables, NEW r \in Run, d.status[r] \in Live,
           d.retries[r] < MaxRetries
    PROVE  Alike(d, Retry(d, r))
<1> DEFINE e == [d EXCEPT !.retries[r] = @ + 1]
<1>1. e \in Tables
  BY RetriesType
<1>2. e.status = d.status /\ e.parent = d.parent /\ e.buffer = d.buffer /\ e.read = d.read
  BY DEF Tables
<1> HIDE DEF e
<1>3. Alike(d, e)
  BY <1>2, MovesAreAlike
<1>4. Alike(e, FallAsleep(e, r, {}, TRUE))
  BY <1>1, <1>2, FallAsleepAlike
<1>5. Alike(d, FallAsleep(e, r, {}, TRUE))
  BY <1>3, <1>4, AlikeTransitive
<1> QED BY <1>5 DEF Retry, e

\* So is a signal that is nobody's report: reports are filed under run ids.
LEMMA SignalAlike ==
    ASSUME NEW d \in Tables, NEW r \in Run, NEW n \in Name
    PROVE  Alike(d, Signal(d, r, n))
<1> DEFINE kept == [d EXCEPT !.buffer[r][n] = @ + 1]
<1>1. n \in Signals /\ n \notin Run /\ Run \subseteq Signals
  BY IdAssumption DEF Signals
<1>2. kept \in Tables
  <2>1. d.buffer[r][n] + 1 \in Nat
    BY <1>1 DEF Tables
  <2> QED BY <1>1, <2>1, BufferType
<1>3. /\ kept.status = d.status /\ kept.parent = d.parent /\ kept.read = d.read
      /\ \A x \in Run, c \in Run : kept.buffer[x][c] = d.buffer[x][c]
  BY <1>1 DEF Tables
<1>4. d.parent \in [Run -> Run \cup {NoRun}]
  BY DEF Tables
<1> HIDE DEF kept
<1>5. Alike(d, kept)
  BY <1>3, <1>4 DEF Alike, LifeOf, ReportOf
<1>6. Alike(kept, MakePending(kept, {r}))
  BY <1>2, MakePendingAlike
<1>7. Alike(d, MakePending(kept, {r}))
  BY <1>5, <1>6, AlikeTransitive
<1>8. Alike(d, d)
  BY DEF Alike
<1> QED BY <1>5, <1>7, <1>8 DEF Signal, kept

\* Ending runs together is one step of Supervision: those whose parent lives report to
\* it, the others have nobody to report to, and what was sent to one of them is void.
LEMMA EndRunsStep ==
    ASSUME NEW d \in Tables, Inv(d),
           NEW gone \in SUBSET Run, NEW heads \in SUBSET gone, NEW outcome \in Ended,
           \A r \in gone : d.status[r] \in Live,
           NEW e, e = EndRuns(d, gone, heads, outcome)
    PROVE  Supervises(d, e)
<1>1. Ending(d, gone, heads, outcome, e)
  BY EndRunsFields
<1>2. /\ e.parent = d.parent /\ e.read = d.read
      /\ \A r \in Run :
           /\ r \in gone => e.status[r] \in Ended
           /\ r \notin gone => \/ e.status[r] = d.status[r]
                               \/ d.status[r] \in Live /\ e.status[r] \in Live
  BY <1>1 DEF Ending, Ended, Live, Asleep
<1>3. \A p \in Run, c \in Run :
          e.buffer[p][c] = IF p \in gone THEN 0
                           ELSE IF d.status[p] \in Live /\ c \in gone /\ d.parent[c] = p
                                THEN d.buffer[p][c] + 1 ELSE d.buffer[p][c]
  BY <1>1 DEF Ending, Signals
<1>4. \A r \in Run : /\ e.status[r] \in Live <=> r \notin gone /\ d.status[r] \in Live
                     /\ e.status[r] \in Ended <=> r \in gone \/ d.status[r] \in Ended
                     /\ r \notin gone => LifeOf(e, r) = LifeOf(d, r)
                     /\ r \in gone => LifeOf(d, r) = "live" /\ LifeOf(e, r) \in Ended
  BY <1>2 DEF LifeOf, Live, Asleep, Ended
<1>5. \A r \in Run : LifeOf(e, r) \in Ended <=> e.status[r] \in Ended
  BY DEF LifeOf, Live, Asleep, Ended
<1> SUFFICES ASSUME NEW r \in Run
             PROVE  StepOf(d, e, r)
  BY DEF Supervises
<1> DEFINE p == d.parent[r]
<1>6. /\ p \in Run \cup {NoRun} /\ NoRun \notin Run
      /\ p # NoRun => d.status[p] \in Live \cup Ended /\ d.status[r] \in Live \cup Ended
      /\ d.status[r] \notin Ended => ReportOf(d, r) = "none" /\ r \notin d.read
      /\ ReportOf(d, r) # "lost"
      /\ ReportOf(d, r) = "sent" <=> /\ p # NoRun /\ d.status[r] \in Ended
                                     /\ d.status[p] \in Live /\ r \notin d.read
  BY ReportFacts, IdAssumption
<1>7. CASE p = NoRun
  BY <1>2, <1>4, <1>7 DEF StepOf, ReportOf, EndsIn
<1>8. CASE p # NoRun /\ r \in gone
  <2>1. r \notin d.read /\ EndsIn(d, e, r) /\ p \in Run
    BY <1>2, <1>4, <1>6, <1>8 DEF EndsIn, Ended, Live, Asleep
  <2>2. d.buffer[p][r] = 0
    BY <1>8 DEF Inv, ReportsOnce
  <2>3. ReportOf(e, r) = IF e.status[p] \in Ended THEN "void" ELSE "sent"
    BY <1>2, <1>3, <1>4, <1>6, <1>8, <2>1, <2>2 DEF ReportOf
  <2> QED BY <1>2, <1>4, <1>5, <1>8, <2>1, <2>3 DEF StepOf
<1>9. CASE p # NoRun /\ r \notin gone
  <2>1. ~EndsIn(d, e, r) /\ LifeOf(e, r) = LifeOf(d, r) /\ p \in Run
    BY <1>4, <1>6, <1>9 DEF EndsIn
  <2>2. CASE ReportOf(d, r) = "sent"
    <3>1. ReportOf(e, r) = IF p \in gone THEN "void" ELSE "sent"
      <4>1. /\ e.parent[r] = p /\ e.status[r] \in Ended /\ r \notin e.read
            /\ e.status[p] \in Ended <=> p \in gone
        BY <1>2, <1>4, <1>6, <1>9, <2>1, <2>2 DEF Live, Asleep, Ended
      <4>2. p \notin gone => e.buffer[p][r] = 1
        <5>1. d.buffer[p][r] = 1
          BY <1>6, <2>2 DEF Inv, ReportsOnce
        <5> QED BY <1>3, <1>9, <2>1, <5>1
      <4> QED BY <1>9, <4>1, <4>2 DEF ReportOf
    <3>2. LifeOf(e, p) \in Ended <=> p \in gone
      BY <1>4, <1>5, <1>6, <2>1, <2>2 DEF Live, Asleep, Ended
    <3> QED BY <1>2, <1>9, <2>1, <2>2, <3>1, <3>2 DEF StepOf
  <2>3. CASE ReportOf(d, r) # "sent"
    <3>1. ReportOf(e, r) = ReportOf(d, r)
      BY <1>2, <1>4, <1>6, <1>9, <2>1, <2>3 DEF ReportOf
    <3> QED BY <1>2, <1>9, <2>1, <2>3, <3>1 DEF StepOf
  <2> QED BY <2>2, <2>3
<1> QED BY <1>7, <1>8, <1>9

\* So is ending runs with their sleeping descendants (_terminate): the flags it sets on
\* the running ones are invisible.
LEMMA TerminateStep ==
    ASSUME NEW d \in Tables, Inv(d), NEW R \in SUBSET Run,
           \A r \in R : d.status[r] \in Live, NEW outcome \in Ended
    PROVE  Supervises(d, Terminate(d, R, outcome))
<1>1. CASE outcome = "completed"
  <2>1. Supervises(d, EndRuns(d, R, R, outcome))
    BY EndRunsStep
  <2> QED BY <1>1, <2>1 DEF Terminate
<1>2. CASE outcome # "completed"
  <2> DEFINE gone == Closure(d, R, InState(d, Asleep))
             told == FlagRunning(d, Children(d, gone))
             e    == EndRuns(told, gone, R, outcome)
  <2>1. R \subseteq gone /\ gone \subseteq R \cup InState(d, Asleep)
    BY ClosureFacts DEF InState
  <2>2. told \in Tables /\ Inv(told) /\ Alike(d, told) /\ told.status = d.status
    BY FlagRunningType, FlagRunningInv, FlagRunningAlike, FlagRunningFields
  <2> HIDE DEF told, gone
  <2>3. gone \in SUBSET Run /\ \A r \in gone : told.status[r] \in Live
    BY <2>1, <2>2 DEF InState, Live
  <2>4. Supervises(told, e) /\ e \in Tables
    BY <2>1, <2>2, <2>3, EndRunsStep, EndRunsType
  <2>5. Alike(e, e)
    BY DEF Alike
  <2>6. Supervises(d, e)
    BY <2>2, <2>4, <2>5, StepBetweenAlikes
  <2> QED BY <1>2, <2>6 DEF Terminate, told, gone
<1> QED BY <1>1, <1>2

\* So is cancelling a subtree (request_cancel).
LEMMA CancelTreeStep ==
    ASSUME NEW d \in Tables, Inv(d), NEW r \in Run
    PROVE  Supervises(d, CancelTree(d, r))
<1> DEFINE tree == Closure(d, {r}, Run)
           told == FlagRunning(d, tree)
           gone == tree \cap InState(d, Asleep)
           e    == EndRuns(told, gone, {}, "cancelled")
<1>1. told \in Tables /\ Inv(told) /\ Alike(d, told) /\ told.status = d.status
  BY FlagRunningType, FlagRunningInv, FlagRunningAlike, FlagRunningFields
<1> HIDE DEF told, tree
<1>2. /\ gone \in SUBSET Run /\ {} \in SUBSET gone /\ {} \in SUBSET Run
      /\ "cancelled" \in Ended /\ \A x \in gone : told.status[x] \in Live
  BY <1>1 DEF Ended, InState, Live
<1> HIDE DEF gone
<1>3. Supervises(told, e) /\ e \in Tables
  BY <1>1, <1>2, EndRunsStep, EndRunsType
<1>4. Alike(e, e)
  BY DEF Alike
<1>5. Supervises(d, e)
  BY <1>1, <1>3, <1>4, StepBetweenAlikes
<1> QED BY <1>5 DEF CancelTree, told, tree, gone

\* Inserting a run under nobody or under a live run brings it to life and touches no
\* other; it may be the second half of a step that leaves it alone.
LEMMA InsertRunStep ==
    ASSUME NEW d \in Tables, Inv(d), NEW e \in Tables, Inv(e), Supervises(d, e),
           NEW n \in Run, d.status[n] = "absent", e.status[n] = "absent",
           NEW p \in Run \cup {NoRun}, p # NoRun => d.status[p] \in Live,
           NEW f, f = InsertRun(e, n, p)
    PROVE  Supervises(d, f)
<1>1. /\ f.buffer = e.buffer /\ f.read = e.read
      /\ \A r \in Run : /\ f.status[r] = IF r = n THEN "pending" ELSE e.status[r]
                        /\ f.parent[r] = IF r = n THEN p ELSE e.parent[r]
  BY DEF InsertRun, Tables
<1>2. /\ \A r \in Run : e.parent[r] \in Run \cup {NoRun} /\ d.parent[r] \in Run \cup {NoRun}
      /\ NoRun \notin Run
  BY IdAssumption DEF Tables
<1>3. /\ e.parent[n] = NoRun /\ \A c \in Run : e.parent[c] # n
      /\ d.parent[n] = NoRun /\ \A c \in Run : d.parent[c] # n
  BY <1>2 DEF Inv, ParentsExist
<1> SUFFICES ASSUME NEW r \in Run
             PROVE  StepOf(d, f, r)
  BY DEF Supervises
<1>4. CASE r = n
  <2>1. LifeOf(d, n) = "absent" /\ LifeOf(f, n) = "live" /\ ReportOf(f, n) = "none"
    BY <1>1 DEF LifeOf, ReportOf, Live, Asleep, Ended
  <2>2. p # NoRun => p \in Run /\ LifeOf(d, p) = "live"
    BY <1>2 DEF LifeOf
  <2>3. f.parent[n] = p
    BY <1>1
  <2> QED BY <1>3, <1>4, <2>1, <2>2, <2>3 DEF StepOf, EndsIn
<1>5. CASE r # n
  <2>1. /\ f.parent[r] = e.parent[r] /\ f.status[r] = e.status[r]
        /\ e.parent[r] # n /\ d.parent[r] # n
    BY <1>1, <1>3, <1>5
  <2>2. LifeOf(f, r) = LifeOf(e, r)
    BY <2>1 DEF LifeOf
  <2>3. e.parent[r] # NoRun => f.status[e.parent[r]] = e.status[e.parent[r]]
    BY <1>1, <1>2, <2>1
  <2>4. ReportOf(f, r) = ReportOf(e, r)
    BY <1>1, <2>1, <2>3 DEF ReportOf
  <2>5. d.parent[r] # NoRun => LifeOf(f, d.parent[r]) = LifeOf(e, d.parent[r])
    BY <1>1, <1>2, <2>1 DEF LifeOf
  <2>6. StepOf(d, e, r)
    BY DEF Supervises
  <2> QED BY <2>1, <2>2, <2>4, <2>5, <2>6 DEF StepOf, EndsIn
<1> QED BY <1>4, <1>5

\* Reading a report is a step of Supervision: a report that can be read was sent.
LEMMA ConsumeStep ==
    ASSUME db \in Tables, Inv(db), NEW r \in Run, NEW n \in Signals, Consume(r, n)
    PROVE  Supervises(db, db')
<1>1. /\ db'.status = db.status /\ db'.parent = db.parent
      /\ db'.read = db.read \cup ({n} \cap Run)
      /\ \A x \in Run, m \in Signals :
           db'.buffer[x][m] = IF x = r /\ m = n THEN db.buffer[x][m] - 1 ELSE db.buffer[x][m]
  BY DEF Consume, Tables
<1>2. Run \subseteq Signals /\ NoRun \notin Run /\ db.buffer[r][n] > 0
  BY IdAssumption DEF Signals, Consume
<1>3. Supervises(db, db)
  BY StandingStill
<1> SUFFICES ASSUME NEW c \in Run
             PROVE  StepOf(db, db', c)
  BY DEF Supervises
<1>4. /\ StepOf(db, db, c) /\ db.parent[c] \in Run \cup {NoRun}
  BY <1>3 DEF Supervises, Tables
<1>5. \A x : LifeOf(db', x) = LifeOf(db, x)
  BY <1>1 DEF LifeOf
<1>6. CASE c = n
  <2>1. db.parent[c] = r /\ db.status[c] \in Ended /\ db.buffer[r][c] # 0
    BY <1>2, <1>6 DEF Inv, ReportsAreReal
  <2>2. db.status[r] \in Live
    <3>1. db.status[r] \notin Ended
      BY <1>2, <1>6 DEF Inv, EndedAreDeaf
    <3> QED BY <1>2, <2>1, <3>1, ReportFacts
  <2>3. c \notin db.read
    BY <1>2, <2>1, <2>2 DEF Inv, ReportsOnce
  <2>4. ReportOf(db, c) = "sent"
    BY <1>2, <2>1, <2>2, <2>3, ReportFacts
  <2>5. ReportOf(db', c) = "read"
    BY <1>1, <1>2, <1>6, <2>1 DEF ReportOf
  <2> QED BY <1>1, <1>2, <1>4, <1>5, <2>1, <2>4, <2>5 DEF StepOf, EndsIn
<1>7. CASE c # n
  <2>1. db.parent[c] # NoRun => db'.buffer[db.parent[c]][c] = db.buffer[db.parent[c]][c]
    BY <1>1, <1>2, <1>4, <1>7
  <2>2. ReportOf(db', c) = ReportOf(db, c)
    BY <1>1, <1>7, <2>1 DEF ReportOf
  <2> QED BY <1>1, <1>4, <1>5, <2>2 DEF StepOf, EndsIn
<1> QED BY <1>6, <1>7

\* A whole poll of a worker is a step of Supervision: only its deadlines are visible.
LEMMA LeaseStep ==
    ASSUME db \in Tables, Inv(db), Lease
    PROVE  Supervises(db, db')
<1>1. PICK expired \in SUBSET InState(db, {"running"}),
           due \in SUBSET (db.timer \cap InState(db, {"suspended"})) :
        LET timed == MakePending(Reclaim(db, expired), due)
        IN  \E overdue \in SUBSET (Dated \cap InState(timed, Asleep)) :
              LET failed == Terminate(timed, overdue, "failed")
              IN  \E claimed \in SUBSET InState(failed, {"pending"}) :
                    db' = Claim(failed, claimed)
  BY DEF Lease
<1> DEFINE free  == Reclaim(db, expired)
           timed == MakePending(free, due)
<1>2. timed \in Tables /\ Inv(timed) /\ Alike(db, timed)
  <2>1. free \in Tables
    BY ClaimType
  <2>2. Inv(free) /\ Alike(db, free)
    BY ClaimInv, ClaimAlike DEF InState, Live
  <2>3. due \in SUBSET Run
    BY DEF InState
  <2> HIDE DEF free
  <2>4. Alike(free, timed)
    BY <2>1, <2>3, MakePendingAlike
  <2> QED BY <2>1, <2>2, <2>3, <2>4, MakePendingType, MakePendingInv, AlikeTransitive
<1>3. PICK overdue \in SUBSET (Dated \cap InState(timed, Asleep)) :
        LET failed == Terminate(timed, overdue, "failed")
        IN  \E claimed \in SUBSET InState(failed, {"pending"}) :
              db' = Claim(failed, claimed)
  BY <1>1
<1> HIDE DEF timed
<1> DEFINE failed == Terminate(timed, overdue, "failed")
<1>4. failed \in Tables /\ Supervises(timed, failed)
  <2>1. overdue \in SUBSET Run /\ "failed" \in Ended
    BY IdAssumption DEF Ended
  <2>2. \A r \in overdue : timed.status[r] \in Live
    BY DEF InState, Live
  <2> QED BY <1>2, <2>1, <2>2, TerminateType, TerminateStep
<1>5. PICK claimed \in SUBSET InState(failed, {"pending"}) : db' = Claim(failed, claimed)
  BY <1>3
<1>6. \A r \in claimed : failed.status[r] \in Live
  BY DEF InState, Live, Asleep
<1> HIDE DEF failed
<1>7. Alike(failed, db')
  BY <1>4, <1>5, <1>6, ClaimAlike
<1> QED BY <1>2, <1>4, <1>7, StepBetweenAlikes

-----------------------------------------------------------------------------
(* The refinement.                                                         *)

\* Every action of RunTree is a step of Supervision between the tables.
LEMMA NextStep ==
    ASSUME db \in Tables, Inv(db), Next
    PROVE  Supervises(db, db')
<1>1. CASE Lease
  BY <1>1, LeaseStep
<1>2. Supervises(db, db)
  BY StandingStill
<1>3. ASSUME NEW r \in Run, CreateRun(r)
      PROVE  Supervises(db, db')
  BY <1>2, <1>3, InsertRunStep DEF CreateRun
<1>4. ASSUME NEW r \in Run, WakeByDelivery(r)
      PROVE  Supervises(db, db')
  BY <1>4, MakePendingAlike, AlikeIsStep DEF WakeByDelivery
<1>5. \A r \in Run, outcome \in Ended :
          db.status[r] = "running" => Supervises(db, Terminate(db, {r}, outcome))
  BY TerminateStep DEF Live
<1>6. ASSUME NEW r \in Run, Complete(r) \/ Fail(r) \/ Cancel(r)
      PROVE  Supervises(db, db')
  BY <1>5, <1>6 DEF Complete, Fail, Cancel, Ended
<1>7. ASSUME NEW r \in Run, NEW n \in Run, CompleteAndFollowUp(r, n)
      PROVE  Supervises(db, db')
  <2> DEFINE e == Terminate(db, {r}, "completed")
  <2>1. e \in Tables /\ Inv(e) /\ Supervises(db, e)
    BY <1>5, <1>7, TerminateType, TerminateInv DEF CompleteAndFollowUp, Ended, Live
  <2>2. e.status[n] = "absent"
    <3>1. Ending(db, {r}, {r}, "completed", e)
      BY EndRunsFields DEF Ended, Terminate
    <3> QED BY <1>7, <3>1 DEF CompleteAndFollowUp, Ending
  <2> HIDE DEF e
  <2>3. Supervises(db, InsertRun(e, n, NoRun))
    BY <1>7, <2>1, <2>2, InsertRunStep DEF CompleteAndFollowUp
  <2> QED BY <1>7, <2>3 DEF CompleteAndFollowUp, e
<1>8. ASSUME NEW r \in Run, NEW wakeup \in Wakeups(db, r), GoToSleep(r, wakeup)
      PROVE  Supervises(db, db')
  <2>1. Supervises(db, Suspend(db, r, wakeup))
    BY <1>8, SuspendAlike, AlikeIsStep DEF GoToSleep, Live
  <2> QED BY <1>5, <1>8, <2>1 DEF GoToSleep, Ended
<1>9. ASSUME NEW r \in Run, RetryLater(r)
      PROVE  Supervises(db, db')
  <2>1. Supervises(db, Retry(db, r))
    BY <1>9, RetryAlike, AlikeIsStep DEF RetryLater, Live
  <2> QED BY <1>5, <1>9, <2>1 DEF RetryLater, Ended
<1>10. ASSUME NEW r \in Run, NEW c \in Run, Spawn(r, c)
       PROVE  Supervises(db, db')
  BY <1>2, <1>10, InsertRunStep DEF Spawn, Live
<1>11. ASSUME NEW r \in Run, NEW n \in Signals, Consume(r, n)
       PROVE  Supervises(db, db')
  BY <1>11, ConsumeStep
<1>12. ASSUME NEW r \in Run, NEW n \in Name, SendSignal(r, n)
       PROVE  Supervises(db, db')
  BY <1>12, SignalAlike, AlikeIsStep DEF SendSignal
<1>13. ASSUME NEW r \in Run, RequestCancel(r)
       PROVE  Supervises(db, db')
  BY <1>13, CancelTreeStep DEF RequestCancel
<1> QED BY <1>1, <1>3, <1>4, <1>6, <1>7, <1>8, <1>9, <1>10, <1>11, <1>12, <1>13
           DEF Next

\* A step between the tables is a step of Supervision's variables under the mapping.
LEMMA StepIsParentsNext ==
    ASSUME db \in Tables, Supervises(db, db'), db' \in Tables
    PROVE  Parents!Next
<1> SUFFICES ASSUME NEW r \in Run
             PROVE  /\ Parents!LifeGoesOn(r)
                    /\ Parents!ParentIsFixed(r)
                    /\ Parents!ReportGoesOn(r)
  BY DEF Parents!Next
<1> DEFINE p == db.parent[r]
<1>1. StepOf(db, db', r)
  BY DEF Supervises
<1>2. /\ \A x \in Run : /\ Life(x) = LifeOf(db, x) /\ Life(x)' = LifeOf(db', x)
                        /\ Report(x) = ReportOf(db, x) /\ Report(x)' = ReportOf(db', x)
      /\ p \in Run \cup {NoRun}
      /\ Parents!Outcome = Ended
  BY DEF Life, LifeOf, Report, ReportOf, Tables, Parents!Outcome, Ended
<1>3. Parents!LifeGoesOn(r)
  BY <1>1, <1>2 DEF Parents!LifeGoesOn, StepOf
<1>4. Parents!ParentIsFixed(r)
  BY <1>1, <1>2 DEF Parents!ParentIsFixed, StepOf
<1>5. Parents!Ends(r) <=> EndsIn(db, db', r)
  BY <1>2 DEF Parents!Ends, EndsIn
<1>6. Parents!ReportGoesOn(r)
  BY <1>1, <1>2, <1>5 DEF Parents!ReportGoesOn, StepOf
<1> QED BY <1>3, <1>4, <1>6

\* The empty database is the initial state of Supervision.
LEMMA InitIsParentsInit == Init => Parents!Init
BY DEF Init, Parents!Init, Life, Report, Live, Asleep

\* What the runtime promises to parents holds of the tables: whatever mix of commits,
\* polls, deadlines, cascades and cancel requests, a run lives and ends once, and its
\* report is sent in the step it ends in, read at most once, and void only when nobody
\* is left to read it.
THEOREM RuntimeSupervises == Spec => Supervised
<1>1. Init => Parents!Init
  BY InitIsParentsInit
<1>2. TypeOK /\ Inv(db) /\ TypeOK' /\ [Next]_db => [Parents!Next]_(Parents!vars)
  <2> SUFFICES ASSUME db \in Tables, Inv(db), db' \in Tables, [Next]_db
               PROVE  [Parents!Next]_(Parents!vars)
    BY DEF TypeOK
  <2>1. CASE Next
    BY <2>1, NextStep, StepIsParentsNext
  <2>2. CASE UNCHANGED db
    BY <2>2 DEF Parents!vars, Life, Report
  <2> QED BY <2>1, <2>2
<1> QED BY <1>1, <1>2, InvariantHolds, PTL DEF Spec, Supervised, Parents!Spec
=============================================================================
