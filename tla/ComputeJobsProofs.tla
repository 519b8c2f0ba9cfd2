-------------------------- MODULE ComputeJobsProofs --------------------------
(***************************************************************************)
(* What holds of ComputeJobs for any jobs, controllers and bounds: the     *)
(* queue keeps JobContract, and the limits of the resource hold.           *)
(***************************************************************************)
EXTENDS ComputeJobs, FiniteSetTheorems, TLAPS

-----------------------------------------------------------------------------
(* The inductive invariant.                                                *)
(*                                                                         *)
(* Updates of the job table name a job and nothing else, so the queue is   *)
(* safe because a job is in the hands of one party at a time: the thread   *)
(* that follows it, the list of threads that failed, or the update the     *)
(* controller has under way.                                               *)

Rows    == [state : Live \cup Terminal \cup {"absent"}, attempts : 0 .. MaxClaims,
            cancel : BOOLEAN]
Mains   == [op : {"idle", "promote", "tick", "reap", "cancel"},
            todo : SUBSET (Jobs \X (0 .. MaxClaims)), room : 0 .. Concurrency,
            write : (Jobs \X (Terminal \cup {"queued"})) \cup {Nothing}]
Threads == [by : Controllers, job : Jobs, attempt : 1 .. MaxClaims,
            at : {"start", "post", "poll", "finish", "write"},
            to : Terminal \cup {"queued", None}, retry : BOOLEAN]
Places  == [state : Terminal \cup {"running", None}, alive : BOOLEAN, old : 0 .. MaxClaims]

Shape ==
    /\ job \in [Jobs -> Rows]
    /\ resource \in {"ready", "unready", "stopped", "gone"}
    /\ lock \in Controllers \cup {None}
    /\ leads \subseteq Controllers /\ closing \subseteq Controllers
    /\ main \in [Controllers -> Mains]
    /\ exec \subseteq Threads
    /\ broken \in [Controllers -> SUBSET Jobs]
    /\ work \in [Jobs -> Places]
    /\ faults \in 0 .. MaxFaults

\* Whoever leads, works or follows holds the lock.
OneLeader ==
    /\ leads \subseteq {lock} /\ closing \subseteq leads
    /\ \A c \in Controllers :
         /\ main[c] # Idle => c = lock /\ c \notin closing
         /\ broken[c] # {} => c \in leads
    /\ \A e \in exec : e.by \in leads

\* A thread follows the attempt its job is at, and no other thread does.
Followed(j) == \E e \in exec : e.job = j

FollowersFit ==
    \A e \in exec :
      /\ job[e.job].state = "running" /\ job[e.job].attempts = e.attempt
      /\ \A f \in exec : f.job = e.job => f = e
      /\ e.at = "finish" => e.to \in Terminal /\ (e.retry => e.attempt < MaxAttempts)
      /\ e.at = "write" => e.to # None /\ (e.to = "queued" => e.attempt < MaxAttempts)

\* What a controller that does m under its lock, and whose threads failed for the jobs
\* b, can count on.  A tick claims what was queued when it began, for as many places as
\* were free; a promotion accounts for every running job; and an update under way is the
\* only hand on its job, which has not moved since the row was read.
Writes(m, j) == m.write # Nothing /\ m.write[1] = j

Fits(c, m, b) ==
    /\ m.op = "idle" => m = Idle
    /\ m.op = "promote" =>
         /\ c \notin leads
         /\ \A t \in m.todo : job[t[1]].state = "running" /\ job[t[1]].attempts = t[2]
         /\ \A j \in Jobs : job[j].state = "running" =>
                              (\E t \in m.todo : t[1] = j) \/ Writes(m, j)
    /\ m.op \in {"tick", "cancel", "reap"} => c \in leads
    /\ m.op = "tick" =>
         /\ \A t \in m.todo : job[t[1]].state = "queued" /\ t[2] = 0
         /\ Number(InState({"running"})) + m.room <= Concurrency
    /\ m.op = "reap" => m.todo = {}
    /\ \A j \in Jobs : Writes(m, j) =>
         /\ ~Followed(j) /\ j \notin b
         /\ m.op # "cancel" => \A t \in m.todo : t[1] # j
         /\ m.op \in {"tick", "cancel"} => job[j].state = "queued" /\ m.write[2] # "queued"
         /\ m.op \in {"reap", "promote"} => job[j].state = "running"
         /\ m.write[2] = "queued" => job[j].attempts < MaxAttempts
    /\ \A j \in b : job[j].state = "running" /\ ~Followed(j)
    /\ c \in leads \ closing =>
         \A j \in Jobs : job[j].state = "running" => Followed(j) \/ j \in b \/ Writes(m, j)

MainsFit == \A c \in Controllers : Fits(c, main[c], broken[c])

RowsFit ==
    \A j \in Jobs :
      /\ job[j].state = "absent" => job[j].attempts = 0
      /\ job[j].state = "queued" => job[j].attempts < MaxAttempts
      /\ job[j].attempts <= MaxAttempts

InBounds ==
    /\ IsFiniteSet(Pending) /\ Number(Pending) <= MaxQueue
    /\ Number(InState({"running"})) <= Concurrency
    /\ DetachedIsIdle

\* The worker has started a process at most once for an attempt.
Used(j) == work[j].old + (IF work[j].alive THEN 1 ELSE 0)

PlacesFit ==
    /\ \A j \in Jobs : Used(j) <= job[j].attempts
    /\ \A e \in exec : e.at \in {"start", "post"} => Used(e.job) < e.attempt

IInv == Shape /\ OneLeader /\ FollowersFit /\ MainsFit /\ RowsFit /\ InBounds /\ PlacesFit

-----------------------------------------------------------------------------
(* Facts used throughout.                                                  *)

\* The bounds are numbers.
LEMMA BoundFacts ==
    /\ MaxAttempts \in Nat \ {0} /\ MaxQueue \in Nat \ {0} /\ Concurrency \in Nat \ {0}
    /\ Slots \in Nat \ {0} /\ MaxClaims \in Nat \ {0} /\ MaxFaults \in Nat
    /\ None \notin Controllers
BY ComputeAssumption DEF None

\* The record of an update under way is not the one of none.
LEMMA PairFacts == \A j, s : <<j, s>> # Nothing /\ <<j, s>>[1] = j /\ <<j, s>>[2] = s
BY DEF Nothing

\* An idle controller does nothing.
LEMMA IdleFacts ==
    /\ Idle \in Mains /\ Idle.op = "idle" /\ Idle.todo = {} /\ Idle.room = 0
    /\ Idle.write = Nothing
BY BoundFacts DEF Idle, Mains, Nothing

\* The controller that works or leads holds the lock, and no other does anything.
LEMMA Alone ==
    ASSUME IInv, NEW c \in Controllers, c \in leads \/ main[c] # Idle
    PROVE  /\ lock = c /\ leads \subseteq {c} /\ closing \subseteq leads
           /\ \A d \in Controllers : d # c => /\ main[d] = Idle /\ broken[d] = {}
                                              /\ d \notin leads
           /\ \A e \in exec : e.by = c /\ c \in leads
BY DEF IInv, Shape, OneLeader

\* A controller that neither leads nor works asks for nothing.
LEMMA IdleFits == \A c \in Controllers : c \notin leads => Fits(c, Idle, {})
BY IdleFacts DEF Fits, Writes

\* The numbers of live and of running jobs are numbers.
LEMMA NumberFacts ==
    ASSUME InBounds
    PROVE  /\ IsFiniteSet(InState({"running"})) /\ InState({"running"}) \subseteq Pending
           /\ Number(InState({"running"})) \in Nat /\ Number(Pending) \in Nat
<1>1. InState({"running"}) \subseteq Pending
  BY DEF InState, Pending, Live
<1>2. IsFiniteSet(InState({"running"}))
  BY <1>1, FS_Subset DEF InBounds
<1> QED BY <1>1, <1>2, FS_CardinalityType DEF InBounds, Number

-----------------------------------------------------------------------------
(* Steps of a kind.                                                        *)

\* The rows may have been flagged, but no job has moved.
Steady ==
    /\ job' \in [Jobs -> Rows]
    /\ \A j \in Jobs : job'[j].state = job[j].state /\ job'[j].attempts = job[j].attempts

\* The worker may have stopped processes, but has started none.
Quiet == work' \in [Jobs -> Places] /\ \A j \in Jobs : Used(j)' <= Used(j)

\* A step that moves no job leaves the jobs that are in a state as they are.
LEMMA SteadyFacts ==
    ASSUME Steady
    PROVE  /\ \A S : InState(S)' = InState(S)
           /\ RowsFit => RowsFit'
           /\ Pending' = Pending
BY DEF Steady, InState, RowsFit, Pending

\* A step that moves no job keeps to the limits, unless it detaches a busy resource.
LEMMA SteadyBounds ==
    ASSUME InBounds, Steady, resource' = "gone" => resource = "gone" \/ Pending = {}
    PROVE  InBounds'
BY SteadyFacts DEF InBounds, DetachedIsIdle, Number

\* What a controller can count on depends on the jobs, the threads and who leads.
LEMMA SteadyFits ==
    ASSUME Steady, UNCHANGED <<leads, closing, exec>>,
           NEW c \in Controllers, NEW m \in Mains, NEW b \in SUBSET Jobs, Fits(c, m, b)
    PROVE  Fits(c, m, b)'
<1>1. \A t \in m.todo : t[1] \in Jobs
  BY DEF Mains
<1>2. InState({"running"})' = InState({"running"})
  BY SteadyFacts
<1>3. \A j \in Jobs : Followed(j)' = Followed(j)
  BY DEF Followed
<1> QED BY <1>1, <1>2, <1>3 DEF Fits, Writes, Steady, Number

\* A step of the lock's holder that moves no job and starts no process.
LEMMA MainMoves ==
    ASSUME IInv, NEW c \in Controllers, c \in leads \/ main[c] # Idle,
           NEW m \in Mains, NEW b \in SUBSET Jobs, Fits(c, m, b),
           main' = [main EXCEPT ![c] = m], m # Idle => c \notin closing,
           broken' \in [Controllers -> SUBSET Jobs], b # {} => c \in leads,
           broken'[c] = b, \A d \in Controllers : d # c => broken'[d] = broken[d],
           UNCHANGED <<control, exec, faults>>, Steady, Quiet,
           resource' \in {"ready", "unready", "stopped", "gone"},
           resource' = "gone" => resource = "gone" \/ Pending = {}
    PROVE  IInv'
<1>1. /\ main' \in [Controllers -> Mains] /\ main'[c] = m
      /\ \A d \in Controllers : d # c => main'[d] = main[d]
  BY DEF IInv, Shape
<1>2. Shape'
  BY <1>1 DEF IInv, Shape, control, Steady, Quiet
<1>3. OneLeader'
  BY <1>1, Alone DEF IInv, OneLeader, control
<1>4. \A e \in exec : e.job \in Jobs
  BY DEF IInv, Shape, Threads
<1>5. FollowersFit'
  BY <1>4 DEF IInv, FollowersFit, Steady
<1>6. MainsFit'
  <2>1. Fits(c, m, b)'
    BY SteadyFits DEF control
  <2>2. ASSUME NEW d \in Controllers, d # c PROVE Fits(d, main[d], broken[d])'
    <3>1. Fits(d, main[d], broken[d]) /\ main[d] \in Mains /\ broken[d] \in SUBSET Jobs
      BY DEF IInv, MainsFit, Shape
    <3>2. main'[d] = main[d] /\ broken'[d] = broken[d]
      BY <1>1, <2>2
    <3>3. PICK n \in Mains, a \in SUBSET Jobs : n = main[d] /\ a = broken[d]
      BY <3>1
    <3>4. Fits(d, n, a)'
      BY <3>1, <3>3, SteadyFits DEF control
    <3> QED BY <3>2, <3>3, <3>4
  <2>3. \A d \in Controllers : Fits(d, main[d], broken[d])'
    BY <1>1, <2>1, <2>2
  <2> QED BY <2>3 DEF MainsFit
<1>7. RowsFit' /\ InBounds'
  BY SteadyFacts, SteadyBounds DEF IInv
<1>8. PlacesFit'
  <2>1. \A j \in Jobs : Used(j) \in Int /\ Used(j)' \in Int /\ job[j].attempts \in Int
    BY DEF IInv, Shape, Places, Rows, Quiet, Used
  <2>2. \A e \in exec : e.attempt \in Int
    BY DEF IInv, Shape, Threads
  <2>3. \A j \in Jobs : Used(j)' <= job'[j].attempts
    BY <2>1 DEF IInv, PlacesFit, Quiet, Steady
  <2>4. \A e \in exec : e.at \in {"start", "post"} => Used(e.job)' < e.attempt
    BY <2>1, <2>2, <1>4 DEF IInv, PlacesFit, Quiet
  <2> QED BY <2>3, <2>4 DEF PlacesFit
<1> QED BY <1>2, <1>3, <1>5, <1>6, <1>7, <1>8 DEF IInv

\* A thread that goes from e to f, for the same attempt.
LEMMA ThreadMoves ==
    ASSUME IInv, NEW e \in exec, NEW f \in Threads,
           f.by = e.by, f.job = e.job, f.attempt = e.attempt,
           f.at = "finish" => f.to \in Terminal /\ (f.retry => f.attempt < MaxAttempts),
           f.at = "write" => f.to # None /\ (f.to = "queued" => f.attempt < MaxAttempts),
           exec' = (exec \ {e}) \cup {f}, work' \in [Jobs -> Places],
           \A j \in Jobs : Used(j)' <= Used(j) \/ (j = e.job /\ Used(j)' <= job[j].attempts),
           f.at \in {"start", "post"} => e.at \in {"start", "post"} /\ work' = work,
           UNCHANGED <<table, control, main, broken, faults>>
    PROVE  IInv'
<1>1. /\ e \in Threads /\ e.job \in Jobs /\ \A g \in exec : g \in Threads /\ g.job \in Jobs
      /\ job[e.job].state = "running" /\ job[e.job].attempts = e.attempt
      /\ \A g \in exec : g.job = e.job => g = e
  BY DEF IInv, Shape, Threads, FollowersFit
<1>2. Shape'
  BY DEF IInv, Shape, control, table
<1>3. OneLeader'
  BY DEF IInv, OneLeader, control
<1>4. FollowersFit'
  BY <1>1 DEF IInv, FollowersFit, table
<1>5. Steady /\ \A j \in Jobs : Followed(j)' = Followed(j)
  BY DEF IInv, Shape, Steady, table, Followed
<1>6. MainsFit'
  <2>1. InState({"running"})' = InState({"running"})
    BY <1>5, SteadyFacts
  <2>2. ASSUME NEW c \in Controllers PROVE Fits(c, main[c], broken[c])'
    <3>1. Fits(c, main[c], broken[c]) /\ broken[c] \subseteq Jobs /\ main[c] \in Mains
      BY DEF IInv, MainsFit, Shape
    <3> QED BY <2>1, <3>1, <1>5 DEF Fits, Writes, Number, table, control, Mains
  <2> QED BY <2>2 DEF MainsFit
<1>7. RowsFit' /\ InBounds'
  BY <1>5, SteadyFacts, SteadyBounds DEF IInv, table
<1>8. PlacesFit'
  <2>1. \A j \in Jobs : Used(j) \in Int /\ Used(j)' \in Int /\ job[j].attempts \in Int
    BY DEF IInv, Shape, Places, Rows, Used
  <2>2. \A g \in exec : g.attempt \in Int
    BY <1>1 DEF Threads
  <2>3. \A j \in Jobs : Used(j)' <= job'[j].attempts
    BY <2>1 DEF IInv, PlacesFit, table
  <2>4. ASSUME NEW g \in exec', g.at \in {"start", "post"} PROVE Used(g.job)' < g.attempt
    <3>1. CASE g = f
      BY <3>1, <2>1, <2>2, <2>4, <1>1 DEF IInv, PlacesFit, Used
    <3>2. CASE g # f
      BY <3>2, <2>1, <2>2, <2>4, <1>1 DEF IInv, PlacesFit
    <3> QED BY <3>1, <3>2
  <2> QED BY <2>3, <2>4 DEF PlacesFit
<1> QED BY <1>2, <1>3, <1>4, <1>6, <1>7, <1>8 DEF IInv

\* A thread that is dropped while its controller closes, or whose failure is put down.
LEMMA ThreadLeaves ==
    ASSUME IInv, NEW e \in exec, exec' = exec \ {e},
           \/ UNCHANGED broken /\ e.by \in closing
           \/ broken' = [broken EXCEPT ![e.by] = @ \cup {e.job}],
           UNCHANGED <<table, control, main, work>>, faults' \in 0 .. MaxFaults
    PROVE  IInv'
<1>1. /\ e \in Threads /\ e.job \in Jobs /\ \A g \in exec : g \in Threads /\ g.job \in Jobs
      /\ job[e.job].state = "running" /\ job[e.job].attempts = e.attempt
      /\ \A g \in exec : g.job = e.job => g = e
      /\ e.by \in Controllers /\ e.by \in leads
  BY DEF IInv, Shape, Threads, FollowersFit, OneLeader
<1>2. Shape'
  BY <1>1 DEF IInv, Shape, control, table
<1>3. OneLeader'
  BY <1>1, <1>2 DEF IInv, OneLeader, control, Shape
<1>4. FollowersFit'
  BY <1>1 DEF IInv, FollowersFit, table
<1>5. Steady /\ \A j \in Jobs : Followed(j)' = (Followed(j) /\ j # e.job)
  BY <1>1 DEF IInv, Shape, Steady, table, Followed
<1>6. MainsFit'
  <2>1. InState({"running"})' = InState({"running"})
    BY <1>5, SteadyFacts
  <2>2. ASSUME NEW c \in Controllers PROVE Fits(c, main[c], broken[c])'
    <3>1. Fits(c, main[c], broken[c]) /\ broken[c] \subseteq Jobs /\ main[c] \in Mains
      BY DEF IInv, MainsFit, Shape
    <3>2. Followed(e.job)
      BY DEF Followed
    <3>3. ~Writes(main[c], e.job)
      BY <3>1, <3>2, <1>1 DEF Fits
    <3>4. c # e.by => UNCHANGED broken[c] /\ c \notin leads
      BY <1>1 DEF IInv, OneLeader, Shape
    <3>5. c = e.by => broken'[c] = broken[c] \/ broken'[c] = broken[c] \cup {e.job}
      BY <1>1 DEF IInv, Shape
    <3>6. broken'[c] = broken[c] => c \notin leads \ closing \/ c # e.by \/ e.job \in broken[c]
      BY <1>1 DEF IInv, Shape
    <3>7. PICK m, b, d : m = main[c] /\ b = broken[c] /\ d = broken'[c]
      OBVIOUS
    <3>8. UNCHANGED <<job, leads, closing, main>>
      BY DEF table, control
    <3>9. Fits(c, m, b) /\ (d = b \/ d = b \cup {e.job}) /\ ~Writes(m, e.job)
      BY <3>1, <3>3, <3>4, <3>5, <3>7
    <3>10. \A j \in d : job[j].state = "running" /\ ~Followed(j)'
      <4>1. \A j \in b : j \in Jobs /\ job[j].state = "running" /\ ~Followed(j)
        BY <3>1, <3>7, <3>9 DEF Fits
      <4>2. \A j \in d : j \in Jobs /\ (j = e.job \/ j \in b)
        BY <1>1, <3>9, <4>1
      <4> QED BY <1>1, <1>5, <4>1, <4>2
    <3>11. ASSUME c \in leads \ closing, NEW j \in Jobs, job[j].state = "running"
           PROVE  Followed(j)' \/ j \in d \/ Writes(m, j)
      <4>1. Followed(j) \/ j \in b \/ Writes(m, j)
        BY <3>9, <3>11 DEF Fits
      <4>2. c = e.by
        BY <1>1, <3>11 DEF IInv, OneLeader
      <4>3. e.job \in d
        BY <3>6, <3>7, <3>9, <3>11, <4>2
      <4> QED BY <1>5, <3>9, <4>1, <4>3
    <3>12. ASSUME NEW j \in Jobs, Writes(m, j)
           PROVE  /\ ~Followed(j)' /\ j \notin d
                  /\ m.op # "cancel" => \A t \in m.todo : t[1] # j
                  /\ m.op \in {"tick", "cancel"} => job[j].state = "queued" /\ m.write[2] # "queued"
                  /\ m.op \in {"reap", "promote"} => job[j].state = "running"
                  /\ m.write[2] = "queued" => job[j].attempts < MaxAttempts
      BY <1>5, <3>9, <3>12 DEF Fits
    <3>13. /\ m.op = "idle" => m = Idle
           /\ m.op = "promote" =>
                /\ c \notin leads
                /\ \A t \in m.todo : job[t[1]].state = "running" /\ job[t[1]].attempts = t[2]
                /\ \A j \in Jobs : job[j].state = "running" =>
                                     (\E t \in m.todo : t[1] = j) \/ Writes(m, j)
           /\ m.op \in {"tick", "cancel", "reap"} => c \in leads
           /\ m.op = "tick" =>
                /\ \A t \in m.todo : job[t[1]].state = "queued" /\ t[2] = 0
                /\ Number(InState({"running"})) + m.room <= Concurrency
           /\ m.op = "reap" => m.todo = {}
      BY <3>9 DEF Fits
    <3> QED BY <2>1, <3>7, <3>8, <3>10, <3>11, <3>12, <3>13 DEF Fits, Writes, Number
  <2> QED BY <2>2 DEF MainsFit
<1>7. RowsFit' /\ InBounds'
  BY <1>5, SteadyFacts, SteadyBounds DEF IInv, table
<1>8. PlacesFit'
  BY DEF IInv, PlacesFit, table, Used
<1> QED BY <1>2, <1>3, <1>4, <1>6, <1>7, <1>8 DEF IInv

\* An update that ends a job or puts it back into the queue keeps to the limits: a retry
\* does not pass the check of submit again, but it takes no new place either.
LEMMA Settles ==
    ASSUME IInv, NEW j \in Jobs, NEW s \in Terminal \cup {"queued"}, job[j].state \in Live,
           s = "queued" => job[j].attempts < MaxAttempts,
           job' = Updated(<<j, s>>), UNCHANGED resource
    PROVE  /\ job' \in [Jobs -> Rows] /\ RowsFit' /\ InBounds'
           /\ Number(InState({"running"}))' <= Number(InState({"running"}))
           /\ Number(InState({"running"})) \in Nat /\ Number(InState({"running"}))' \in Nat
           /\ job'[j].state = s /\ \A k \in Jobs : job'[k].attempts = job[k].attempts
           /\ \A k \in Jobs : k # j => job'[k] = job[k]
<1>1. job' = [job EXCEPT ![j] = [job[j] EXCEPT !.state = s]] /\ job \in [Jobs -> Rows]
  BY PairFacts DEF Updated, IInv, Shape
<1>2. [job[j] EXCEPT !.state = s] \in Rows
  BY <1>1 DEF Rows, Live
<1>3. /\ job' \in [Jobs -> Rows] /\ job'[j].state = s
      /\ \A k \in Jobs : job'[k].attempts = job[k].attempts /\ (k # j => job'[k] = job[k])
  BY <1>1, <1>2 DEF Rows
<1>4. RowsFit'
  BY <1>3 DEF IInv, RowsFit, Terminal
<1>5. Pending' \subseteq Pending /\ InState({"running"})' \subseteq InState({"running"})
  BY <1>3 DEF Pending, InState, Terminal, Live
<1>6. /\ IsFiniteSet(Pending) /\ IsFiniteSet(InState({"running"})) /\ InBounds
      /\ Number(Pending) \in Nat /\ Number(InState({"running"})) \in Nat
  BY NumberFacts DEF IInv, InBounds
<1>7. /\ IsFiniteSet(Pending') /\ Cardinality(Pending') <= Cardinality(Pending)
      /\ Cardinality(InState({"running"})') <= Cardinality(InState({"running"}))
      /\ Cardinality(InState({"running"})') \in Nat /\ Cardinality(Pending') \in Nat
  BY <1>5, <1>6, FS_Subset, FS_CardinalityType
<1>8. InBounds'
  <2>1. DetachedIsIdle'
    BY <1>5, <1>6 DEF InBounds, DetachedIsIdle
  <2> QED BY <1>6, <1>7, <2>1, BoundFacts DEF InBounds, Number
<1> QED BY <1>3, <1>4, <1>6, <1>7, <1>8 DEF Number

-----------------------------------------------------------------------------
(* The job table's steps.                                                  *)

\* A job is accepted while the queue has room (submit).
LEMMA SubmitInv ==
    ASSUME IInv, NEW c \in Controllers, NEW j \in Jobs, Submit(c, j)
    PROVE  IInv'
<1> DEFINE r == [job[j] EXCEPT !.state = "queued"]
<1>1. /\ c \in leads /\ main[c] = Idle /\ job[j].state = "absent" /\ resource # "gone"
      /\ Number(Pending) < MaxQueue /\ job \in [Jobs -> Rows]
      /\ job' = [job EXCEPT ![j] = r] /\ job[j].attempts = 0
      /\ UNCHANGED <<resource, control, main, exec, broken, work, faults>>
  BY DEF Submit, Serving, IInv, Shape, RowsFit
<1>2. r \in Rows /\ r.state = "queued" /\ r.attempts = 0
  BY <1>1 DEF Rows, Live
<1> HIDE DEF r
<1>3. /\ job' \in [Jobs -> Rows] /\ job'[j] = r /\ \A k \in Jobs : k # j => job'[k] = job[k]
  BY <1>1, <1>2
<1>4. Shape'
  BY <1>1, <1>3 DEF IInv, Shape, control
<1>5. OneLeader'
  BY <1>1 DEF IInv, OneLeader, control
<1>6. \A e \in exec : e.job \in Jobs /\ e.job # j
  BY <1>1 DEF IInv, Shape, Threads, FollowersFit
<1>7. FollowersFit'
  BY <1>1, <1>3, <1>6 DEF IInv, FollowersFit
<1>8. \A S : "queued" \notin S /\ "absent" \notin S => InState(S)' = InState(S)
  BY <1>1, <1>2, <1>3 DEF InState
<1>9. MainsFit'
  <2>1. ASSUME NEW d \in Controllers PROVE Fits(d, main[d], broken[d])'
    <3>1. Fits(d, main[d], broken[d]) /\ broken[d] \subseteq Jobs
      BY DEF IInv, MainsFit, Shape
    <3>2. main[d] = Idle
      BY <1>1, Alone
    <3>3. main'[d] = Idle /\ broken'[d] = broken[d] /\ leads' = leads /\ closing' = closing
          /\ exec' = exec
      BY <1>1, <3>2 DEF control
    <3>4. \A k \in broken[d] : job'[k].state = "running" /\ ~Followed(k)
      BY <3>1, <1>1, <1>3 DEF Fits
    <3>5. d \in leads \ closing => \A k \in Jobs : job'[k].state = "running" =>
                                                   Followed(k) \/ k \in broken[d]
      BY <3>1, <3>2, <1>2, <1>3, IdleFacts DEF Fits, Writes
    <3> QED BY <3>3, <3>4, <3>5, IdleFacts DEF Fits, Writes, Followed
  <2> QED BY <2>1 DEF MainsFit
<1>10. RowsFit'
  BY <1>2, <1>3, BoundFacts DEF IInv, RowsFit
<1>11. InBounds'
  <2>1. InState({"running"})' = InState({"running"})
    BY <1>8
  <2>2. Pending' = Pending \cup {j} /\ j \notin Pending
    BY <1>1, <1>2, <1>3 DEF Pending, InState, Live
  <2>3. IsFiniteSet(Pending) /\ Number(Pending) \in Nat
    BY NumberFacts DEF IInv, InBounds
  <2>4. IsFiniteSet(Pending \cup {j})
        /\ Cardinality(Pending \cup {j}) = Cardinality(Pending) + 1
    BY <2>2, <2>3, FS_AddElement
  <2> QED BY <1>1, <2>1, <2>2, <2>3, <2>4, BoundFacts DEF IInv, InBounds, Number, DetachedIsIdle
<1>12. PlacesFit'
  <2>1. \A k \in Jobs : job'[k].attempts = job[k].attempts
    BY <1>1, <1>2, <1>3
  <2> QED BY <1>1, <2>1 DEF IInv, PlacesFit, Used
<1> QED BY <1>4, <1>5, <1>7, <1>9, <1>10, <1>11, <1>12 DEF IInv

\* The update the controller has under way is made (finish, second statement).
LEMMA WriteNextInv ==
    ASSUME IInv, NEW c \in Controllers, WriteNext(c)
    PROVE  IInv'
<1>1. PICK j \in Jobs, s \in Terminal \cup {"queued"} : main[c].write = <<j, s>>
  BY DEF WriteNext, IInv, Shape, Mains
<1>2. PICK m \in Mains : m = main[c]
  BY DEF IInv, Shape
<1> DEFINE n == [m EXCEPT !.write = Nothing]
<1>3. Writes(m, j) /\ m.write[2] = s /\ (\A k \in Jobs : Writes(m, k) => k = j)
  BY <1>1, <1>2, PairFacts DEF Writes
<1>4. /\ c \in leads \/ main[c] # Idle
      /\ m # Idle
  BY <1>1, <1>2, PairFacts, IdleFacts
<1>5. /\ Fits(c, m, broken[c]) /\ broken[c] \subseteq Jobs
      /\ ~Followed(j) /\ j \notin broken[c] /\ job[j].state \in Live
      /\ s = "queued" => job[j].attempts < MaxAttempts
      /\ m.op # "cancel" => \A t \in m.todo : t[1] # j
      /\ m.op \in {"tick", "cancel"} => s # "queued"
  <2>1. Fits(c, m, broken[c]) /\ broken[c] \subseteq Jobs
    BY <1>2 DEF IInv, MainsFit, Shape
  <2>2. m.op # "idle"
    BY <2>1, <1>4 DEF Fits
  <2>3. m.op \in {"tick", "cancel", "reap", "promote"}
    BY <2>2 DEF Mains
  <2> QED BY <1>3, <2>1, <2>3 DEF Fits, Live
<1>6. /\ job' = Updated(<<j, s>>) /\ main' = [main EXCEPT ![c] = n]
      /\ UNCHANGED <<resource, control, exec, broken, work, faults>>
  BY <1>1, <1>2 DEF WriteNext
<1>7. /\ n \in Mains /\ n.op = m.op /\ n.todo = m.todo /\ n.room = m.room
      /\ n.write = Nothing
  BY DEF Mains
<1> HIDE DEF n
<1>8. /\ job' \in [Jobs -> Rows] /\ RowsFit' /\ InBounds'
      /\ Number(InState({"running"}))' <= Number(InState({"running"}))
      /\ Number(InState({"running"})) \in Nat /\ Number(InState({"running"}))' \in Nat
      /\ job'[j].state = s /\ \A k \in Jobs : job'[k].attempts = job[k].attempts
      /\ \A k \in Jobs : k # j => job'[k] = job[k]
  BY <1>5, <1>6, Settles
<1>moved. /\ job'[j].state = s /\ s # "running" /\ s # "none"
          /\ \A k \in Jobs : k # j => job'[k].state = job[k].state
          /\ \A k \in Jobs : job'[k].attempts = job[k].attempts
  <2>1. s \in {"succeeded", "failed", "cancelled", "queued"}
    BY <1>1 DEF Terminal
  <2>2. /\ job'[j].state = s /\ \A k \in Jobs : job'[k].attempts = job[k].attempts
        /\ \A k \in Jobs : k # j => job'[k] = job[k]
    BY <1>8
  <2>3. s # "running" /\ s # "none"
    BY <2>1
  <2>4. \A k \in Jobs : k # j => job'[k].state = job[k].state
    BY <2>2
  <2> QED BY <2>2, <2>3, <2>4
<1>9. /\ main' \in [Controllers -> Mains] /\ main'[c] = n
      /\ \A d \in Controllers : d # c => main'[d] = main[d]
  BY <1>6, <1>7 DEF IInv, Shape
<1>10. Shape'
  BY <1>6, <1>8, <1>9 DEF IInv, Shape, control
<1>11. OneLeader'
  <2>1. c = lock /\ c \notin closing
    BY <1>2, <1>4 DEF IInv, OneLeader
  <2> QED BY <2>1, <1>6, <1>9 DEF IInv, OneLeader, control
<1>12. FollowersFit'
  <2>1. \A e \in exec : e.job \in Jobs /\ e.job # j
    BY <1>5 DEF IInv, Shape, Threads, Followed
  <2> QED BY <2>1, <1>6, <1>moved DEF IInv, FollowersFit
<1>13. Fits(c, main[c], broken[c])'
  <2>1. \A t \in m.todo : t[1] \in Jobs
    BY DEF Mains
  <2>2. n.op = "idle" => n = Idle
    BY <1>4, <1>5, <1>7 DEF Fits
  <2>3. \A k \in Jobs : ~Writes(n, k)
    BY <1>7 DEF Writes
  <2>4. n.op = "promote" =>
          /\ c \notin leads
          /\ \A t \in n.todo : job'[t[1]].state = "running" /\ job'[t[1]].attempts = t[2]
          /\ \A k \in Jobs : job'[k].state = "running" => (\E t \in n.todo : t[1] = k)
    BY <1>3, <1>5, <1>7, <1>moved, <2>1 DEF Fits
  <2>5. n.op = "tick" =>
          /\ \A t \in n.todo : job'[t[1]].state = "queued" /\ t[2] = 0
          /\ Number(InState({"running"}))' + n.room <= Concurrency
    <3>1. m.room \in Int /\ Concurrency \in Int
      BY BoundFacts DEF Mains
    <3>2. n.op = "tick" => Number(InState({"running"})) + m.room <= Concurrency
      BY <1>5, <1>7 DEF Fits
    <3>3. n.op = "tick" => Number(InState({"running"}))' + n.room <= Concurrency
      BY <3>1, <3>2, <1>7, <1>8
    <3>4. n.op = "tick" => \A t \in n.todo : job'[t[1]].state = "queued" /\ t[2] = 0
      BY <1>5, <1>7, <1>moved, <2>1 DEF Fits
    <3> QED BY <3>3, <3>4
  <2>6. \A k \in broken[c] : job'[k].state = "running" /\ ~Followed(k)
    BY <1>5, <1>moved DEF Fits
  <2>7. c \in leads \ closing => \A k \in Jobs : job'[k].state = "running" =>
                                                 Followed(k) \/ k \in broken[c]
    BY <1>3, <1>5, <1>moved DEF Fits
  <2>8. n.op = "reap" => n.todo = {}
    BY <1>5, <1>7 DEF Fits
  <2>9. n.op \in {"tick", "cancel", "reap"} => c \in leads
    BY <1>5, <1>7 DEF Fits
  <2> QED BY <1>6, <1>9, <2>2, <2>3, <2>4, <2>5, <2>6, <2>7, <2>8, <2>9
          DEF Fits, control, Followed, Writes
<1>14. MainsFit'
  <2>1. ASSUME NEW d \in Controllers, d # c PROVE Fits(d, main[d], broken[d])'
    <3>1. main'[d] = Idle /\ broken'[d] = {} /\ d \notin leads'
      BY <1>4, <1>6, <1>9, <2>1, Alone DEF control
    <3> QED BY <3>1, IdleFacts DEF Fits, Writes
  <2> QED BY <1>13, <2>1 DEF MainsFit
<1>15. PlacesFit'
  <2>1. \A k \in Jobs : Used(k)' = Used(k)
    BY <1>6 DEF Used
  <2>2. \A e \in exec : e.job \in Jobs
    BY DEF IInv, Shape, Threads
  <2>3. exec' = exec /\ \A k \in Jobs : job'[k].attempts = job[k].attempts
    BY <1>6, <1>moved
  <2> QED BY <2>1, <2>2, <2>3 DEF IInv, PlacesFit
<1> QED BY <1>8, <1>10, <1>11, <1>12, <1>14, <1>15 DEF IInv

\* The thread that follows a job writes how its attempt ended, and leaves.
LEMMA ExecUpdateInv ==
    ASSUME IInv, NEW e \in exec, ExecUpdate(e)
    PROVE  IInv'
<1>1. PICK j \in Jobs, s \in Terminal \cup {"queued"} :
          /\ e.job = j /\ e.to = s /\ job[j].state = "running" /\ Followed(j)
          /\ s = "queued" => job[j].attempts < MaxAttempts
          /\ \A g \in exec : g.job = j => g = e
  BY DEF ExecUpdate, IInv, Shape, Threads, FollowersFit, Followed
<1>2. /\ job' = Updated(<<j, s>>) /\ exec' = exec \ {e} /\ job[j].state \in Live
      /\ UNCHANGED <<resource, control, main, broken, work, faults>>
  BY <1>1 DEF ExecUpdate, Live
<1>3. /\ job' \in [Jobs -> Rows] /\ RowsFit' /\ InBounds'
      /\ Number(InState({"running"}))' <= Number(InState({"running"}))
      /\ Number(InState({"running"})) \in Nat /\ Number(InState({"running"}))' \in Nat
      /\ job'[j].state = s /\ \A k \in Jobs : job'[k].attempts = job[k].attempts
      /\ \A k \in Jobs : k # j => job'[k] = job[k]
  BY <1>1, <1>2, Settles
<1>4. /\ job'[j].state = s /\ s # "running"
      /\ \A k \in Jobs : k # j => job'[k].state = job[k].state
      /\ \A k \in Jobs : job'[k].attempts = job[k].attempts
  <2>1. s # "running"
    BY DEF Terminal
  <2>2. \A k \in Jobs : k # j => job'[k].state = job[k].state
    BY <1>3
  <2> QED BY <1>3, <2>1, <2>2
<1>5. Shape'
  BY <1>2, <1>3 DEF IInv, Shape, control
<1>6. OneLeader'
  BY <1>2 DEF IInv, OneLeader, control
<1>7. FollowersFit'
  <2>1. \A g \in exec' : g \in exec /\ g.job \in Jobs /\ g.job # j
    BY <1>1, <1>2 DEF IInv, Shape, Threads
  <2> QED BY <1>2, <1>4, <2>1 DEF IInv, FollowersFit
<1>8. \A k \in Jobs : k # j => Followed(k)' = Followed(k)
  BY <1>1, <1>2 DEF Followed
<1>9. MainsFit'
  <2>1. ASSUME NEW c \in Controllers PROVE Fits(c, main[c], broken[c])'
    <3>1. PICK m \in Mains, b \in SUBSET Jobs : m = main[c] /\ b = broken[c]
      BY DEF IInv, Shape
    <3>2. Fits(c, m, b) /\ main'[c] = m /\ broken'[c] = b
      BY <1>2, <3>1 DEF IInv, MainsFit
    <3>3. ~Writes(m, j) /\ j \notin b
      BY <1>1, <3>2 DEF Fits
    <3>4. m.op # "promote"
      BY <1>2, <3>1, <3>2, Alone, IdleFacts DEF Fits
    <3>5. \A t \in m.todo : t[1] \in Jobs
      BY DEF Mains
    <3>6. m.op = "tick" =>
            /\ \A t \in m.todo : job'[t[1]].state = "queued" /\ t[2] = 0
            /\ Number(InState({"running"}))' + m.room <= Concurrency
      <4>1. m.room \in Int /\ Concurrency \in Int
        BY BoundFacts DEF Mains
      <4>2. m.op = "tick" => Number(InState({"running"})) + m.room <= Concurrency
        BY <3>2 DEF Fits
      <4>3. m.op = "tick" => Number(InState({"running"}))' + m.room <= Concurrency
        BY <4>1, <4>2, <1>3
      <4>4. m.op = "tick" => \A t \in m.todo : job'[t[1]].state = "queued" /\ t[2] = 0
        BY <1>1, <1>4, <3>2, <3>5 DEF Fits
      <4> QED BY <4>3, <4>4
    <3>7. \A k \in Jobs : Writes(m, k) =>
            /\ ~(Followed(k)') /\ k \notin b
            /\ m.op # "cancel" => \A t \in m.todo : t[1] # k
            /\ m.op \in {"tick", "cancel"} => job'[k].state = "queued" /\ m.write[2] # "queued"
            /\ m.op \in {"reap", "promote"} => job'[k].state = "running"
            /\ m.write[2] = "queued" => job'[k].attempts < MaxAttempts
      BY <1>4, <1>8, <3>2, <3>3 DEF Fits
    <3>8. \A k \in b : job'[k].state = "running" /\ ~(Followed(k)')
      BY <1>4, <1>8, <3>2, <3>3 DEF Fits
    <3>9. c \in leads \ closing => \A k \in Jobs : job'[k].state = "running" =>
                                      Followed(k)' \/ k \in b \/ Writes(m, k)
      BY <1>4, <1>8, <3>2 DEF Fits
    <3>10. /\ m.op = "idle" => m = Idle
           /\ m.op \in {"tick", "cancel", "reap"} => c \in leads
           /\ m.op = "reap" => m.todo = {}
      BY <3>2 DEF Fits
    <3> QED BY <1>2, <3>2, <3>4, <3>6, <3>7, <3>8, <3>9, <3>10
            DEF Fits, Writes, control
  <2> QED BY <2>1 DEF MainsFit
<1>10. PlacesFit'
  <2>1. \A k \in Jobs : Used(k)' = Used(k)
    BY <1>2 DEF Used
  <2>2. \A g \in exec' : g \in exec /\ g.job \in Jobs
    BY <1>2 DEF IInv, Shape, Threads
  <2> QED BY <1>4, <2>1, <2>2 DEF IInv, PlacesFit
<1> QED BY <1>3, <1>5, <1>6, <1>7, <1>9, <1>10 DEF IInv

\* A job is claimed for one of the places that were free, and a thread follows it.
LEMMA TickClaimInv ==
    ASSUME IInv, NEW c \in Controllers, NEW j \in Jobs, TickClaim(c, j)
    PROVE  IInv'
<1>1. PICK m \in Mains, b \in SUBSET Jobs, n \in 0 .. MaxClaims :
          m = main[c] /\ b = broken[c] /\ n = job[j].attempts
  BY DEF IInv, Shape, Rows
<1> DEFINE r == [job[j] EXCEPT !.state = "running", !.attempts = n + 1]
           k == [m EXCEPT !.todo = m.todo \ {<<j, 0>>}, !.room = m.room - 1]
           e == [by |-> c, job |-> j, attempt |-> n + 1, at |-> "start", to |-> None,
                 retry |-> FALSE]
<1>2. /\ m.op = "tick" /\ m.write = Nothing /\ <<j, 0>> \in m.todo /\ resource = "ready"
      /\ m.room > 0 /\ job[j].state = "queued" /\ n < MaxClaims
      /\ job \in [Jobs -> Rows] /\ n < MaxAttempts
      /\ job' = [job EXCEPT ![j] = r] /\ exec' = exec \cup {e}
      /\ main' = [main EXCEPT ![c] = k]
      /\ UNCHANGED <<resource, control, broken, work, faults>>
  BY <1>1 DEF TickClaim, IInv, Shape, RowsFit
<1>3. Fits(c, m, b) /\ m # Idle
  BY <1>1, <1>2, IdleFacts DEF IInv, MainsFit
<1>4. /\ c \in leads /\ c = lock /\ c \notin closing
      /\ \A d \in Controllers : d # c => main[d] = Idle /\ broken[d] = {} /\ d \notin leads
  <2>1. c \in leads
    BY <1>2, <1>3 DEF Fits
  <2>2. c = lock /\ c \notin closing
    BY <1>1, <1>3 DEF IInv, OneLeader
  <2> QED BY <2>1, <2>2, Alone
<1>5. /\ r \in Rows /\ r.state = "running" /\ r.attempts = n + 1
      /\ k \in Mains /\ k.op = "tick" /\ k.write = Nothing /\ k.room = m.room - 1
      /\ k.todo = m.todo \ {<<j, 0>>}
      /\ e \in Threads /\ e.by = c /\ e.job = j /\ e.attempt = n + 1 /\ e.at = "start"
  <2>1. n + 1 \in 1 .. MaxClaims /\ n + 1 \in 0 .. MaxClaims /\ m.room - 1 \in 0 .. Concurrency
    BY <1>2, BoundFacts DEF Mains
  <2>2. e \in Threads
    BY <2>1 DEF Threads
  <2>3. k \in Mains
    BY <2>1 DEF Mains
  <2>4. r \in Rows
    BY <1>2, <2>1 DEF Rows, Live
  <2> QED BY <1>2, <2>2, <2>3, <2>4 DEF Mains, Rows
<1> HIDE DEF r, k, e
<1>6. /\ job' \in [Jobs -> Rows] /\ job'[j].state = "running" /\ job'[j].attempts = n + 1
      /\ \A i \in Jobs : i # j => job'[i] = job[i]
  BY <1>2, <1>5
<1>7. /\ main' \in [Controllers -> Mains] /\ main'[c] = k
      /\ \A d \in Controllers : d # c => main'[d] = main[d]
  BY <1>2, <1>5 DEF IInv, Shape
<1>8. \A i \in Jobs : i # j => job'[i].state = job[i].state /\ job'[i].attempts = job[i].attempts
  BY <1>6
<1>9. \A g \in exec : g \in Threads /\ g.job \in Jobs /\ g.job # j
  BY <1>2 DEF IInv, Shape, Threads, FollowersFit
<1>10. Shape'
  BY <1>2, <1>5, <1>6, <1>7 DEF IInv, Shape, control
<1>11. OneLeader'
  BY <1>2, <1>4, <1>5, <1>7 DEF IInv, OneLeader, control
<1>12. FollowersFit'
  <2>1. ASSUME NEW g \in exec' PROVE g = e \/ (g \in exec /\ g # e /\ g.job # j /\ g.job \in Jobs)
    BY <1>2, <1>5, <1>9
  <2> QED BY <1>2, <1>5, <1>6, <1>8, <2>1 DEF IInv, FollowersFit
<1>13. \A i \in Jobs : Followed(i)' = (Followed(i) \/ i = j)
  BY <1>2, <1>5 DEF Followed
<1>14. /\ InState({"running"})' = InState({"running"}) \cup {j} /\ j \notin InState({"running"})
       /\ Pending' = Pending
  BY <1>2, <1>6, <1>8 DEF InState, Pending, Live
<1>15. /\ IsFiniteSet(InState({"running"})) /\ Number(InState({"running"})) \in Nat
       /\ Number(InState({"running"}))' = Number(InState({"running"})) + 1
       /\ Number(InState({"running"})) + m.room <= Concurrency
       /\ Number(InState({"running"}))' + k.room <= Concurrency
       /\ Number(InState({"running"}))' <= Concurrency
  <2>1. IsFiniteSet(InState({"running"})) /\ Number(InState({"running"})) \in Nat
    BY NumberFacts DEF IInv
  <2>2. Number(InState({"running"}))' = Number(InState({"running"})) + 1
    BY <1>14, <2>1, FS_AddElement DEF Number
  <2>3. Number(InState({"running"})) + m.room <= Concurrency
    BY <1>2, <1>3 DEF Fits
  <2>4. m.room \in Int /\ Concurrency \in Int
    BY BoundFacts DEF Mains
  <2> QED BY <1>2, <1>5, <2>1, <2>2, <2>3, <2>4
<1>16. MainsFit'
  <2>1. \A t \in m.todo : t[1] \in Jobs
    BY DEF Mains
  <2>2. \A t \in k.todo : job'[t[1]].state = "queued" /\ t[2] = 0
    <3>1. ASSUME NEW t \in k.todo PROVE job'[t[1]].state = "queued" /\ t[2] = 0
      <4>1. t \in Jobs \X (0 .. MaxClaims) /\ t \in m.todo /\ t # <<j, 0>>
        BY <1>5 DEF Mains
      <4>2. job[t[1]].state = "queued" /\ t[2] = 0
        BY <1>2, <1>3, <4>1 DEF Fits
      <4>3. t[1] # j
        BY <4>1, <4>2
      <4> QED BY <1>8, <2>1, <4>1, <4>2, <4>3
    <3> QED BY <3>1
  <2>3. Fits(c, k, b)'
    <3>1. \A i \in Jobs : ~Writes(k, i)
      BY <1>5 DEF Writes
    <3>2. \A i \in b : job'[i].state = "running" /\ ~(Followed(i)')
      BY <1>2, <1>3, <1>8, <1>13 DEF Fits
    <3>3. \A i \in Jobs : job'[i].state = "running" => Followed(i)' \/ i \in b
      <4>1. \A i \in Jobs : ~Writes(m, i)
        BY <1>2 DEF Writes
      <4> QED BY <1>3, <1>4, <1>8, <1>13, <4>1 DEF Fits
    <3> QED BY <1>2, <1>4, <1>5, <1>15, <2>2, <3>1, <3>2, <3>3 DEF Fits, control
  <2>4. ASSUME NEW d \in Controllers PROVE Fits(d, main[d], broken[d])'
    <3>1. CASE d = c
      BY <3>1, <1>1, <1>2, <1>7, <2>3
    <3>2. CASE d # c
      <4>1. main'[d] = Idle /\ broken'[d] = {} /\ d \notin leads'
        BY <1>2, <1>4, <1>7, <3>2 DEF control
      <4> QED BY <4>1, IdleFacts DEF Fits, Writes
    <3> QED BY <3>1, <3>2
  <2> QED BY <2>4 DEF MainsFit
<1>17. RowsFit'
  <2>1. n + 1 <= MaxAttempts
    BY <1>2, BoundFacts
  <2> QED BY <1>6, <1>8, <2>1 DEF IInv, RowsFit
<1>18. InBounds'
  BY <1>2, <1>14, <1>15 DEF IInv, InBounds, DetachedIsIdle, Number
<1>19. PlacesFit'
  <2>1. Used(j) \in Int /\ Used(j) <= n /\ \A i \in Jobs : Used(i)' = Used(i)
    BY <1>1, <1>2 DEF IInv, Shape, Places, PlacesFit, Used
  <2>2. \A i \in Jobs : Used(i)' <= job'[i].attempts
    BY <1>6, <1>8, <2>1 DEF IInv, PlacesFit
  <2>3. \A g \in exec' : g.at \in {"start", "post"} => Used(g.job)' < g.attempt
    BY <1>2, <1>5, <1>9, <2>1 DEF IInv, PlacesFit
  <2> QED BY <2>2, <2>3 DEF PlacesFit
<1> QED BY <1>10, <1>11, <1>12, <1>16, <1>17, <1>18, <1>19 DEF IInv

-----------------------------------------------------------------------------
(* The other steps under the lock.                                         *)

\* What stays as it is does not move, and a cancel or a flag moves no job and starts
\* nothing.
LEMMA StillFacts ==
    ASSUME IInv
    PROVE  /\ UNCHANGED job => Steady
           /\ UNCHANGED work => Quiet
           /\ \A J : work' = Interrupted(J) => Quiet
           /\ \A j \in Jobs : job' = [job EXCEPT ![j].cancel = TRUE] => Steady
<1>1. job \in [Jobs -> Rows] /\ work \in [Jobs -> Places]
  BY DEF IInv, Shape
<1>2. \A j \in Jobs : Used(j) \in Int
  BY <1>1 DEF Places, Used
<1>3. UNCHANGED job => Steady
  BY <1>1 DEF Steady
<1>4. UNCHANGED work => Quiet
  BY <1>1, <1>2 DEF Quiet, Used
<1>5. ASSUME NEW J, work' = Interrupted(J) PROVE Quiet
  <2>1. work' = [j \in Jobs |-> IF j \in J /\ work[j].state = "running"
                                THEN [work[j] EXCEPT !.state = "cancelled"] ELSE work[j]]
    BY <1>5 DEF Interrupted
  <2>2. \A j \in Jobs : [work[j] EXCEPT !.state = "cancelled"] \in Places
    BY <1>1 DEF Places, Terminal
  <2>3. work' \in [Jobs -> Places]
    BY <1>1, <2>1, <2>2
  <2>4. \A j \in Jobs : work'[j].alive = work[j].alive /\ work'[j].old = work[j].old
    BY <1>1, <2>1 DEF Places
  <2> QED BY <1>2, <2>3, <2>4 DEF Quiet, Used
<1>6. ASSUME NEW j \in Jobs, job' = [job EXCEPT ![j].cancel = TRUE] PROVE Steady
  <2>1. job' = [job EXCEPT ![j] = [job[j] EXCEPT !.cancel = TRUE]]
    BY <1>6
  <2>2. [job[j] EXCEPT !.cancel = TRUE] \in Rows
    BY <1>1 DEF Rows
  <2>3. job' \in [Jobs -> Rows]
    BY <1>1, <2>1, <2>2
  <2>4. \A k \in Jobs : job'[k].state = job[k].state /\ job'[k].attempts = job[k].attempts
    BY <1>1, <2>1 DEF Rows
  <2> QED BY <2>3, <2>4 DEF Steady
<1> QED BY <1>3, <1>4, <1>5, <1>6

\* MainMoves, when no failed thread is dealt with.
LEMMA MainSets ==
    ASSUME IInv, NEW c \in Controllers, c \in leads \/ main[c] # Idle,
           NEW m \in Mains, Fits(c, m, broken[c]),
           main' = [main EXCEPT ![c] = m], m # Idle => c \notin closing,
           UNCHANGED <<control, exec, faults, broken>>, Steady, Quiet,
           resource' \in {"ready", "unready", "stopped", "gone"},
           resource' = "gone" => resource = "gone" \/ Pending = {}
    PROVE  IInv'
<1>1. PICK b \in SUBSET Jobs : b = broken[c]
  BY DEF IInv, Shape
<1>2. Fits(c, m, b) /\ (b # {} => c \in leads) /\ broken' \in [Controllers -> SUBSET Jobs]
      /\ broken'[c] = b /\ \A d \in Controllers : broken'[d] = broken[d]
  BY <1>1 DEF IInv, Shape, OneLeader
<1> QED BY <1>2, MainMoves

\* A resource is started or probed, or detached when nothing is pending on it.
LEMMA ResourceInv ==
    ASSUME IInv, NEW c \in Controllers, StartResource(c) \/ Probe(c) \/ DeleteResource(c)
    PROVE  IInv'
<1>1. /\ c \in leads /\ c \notin closing /\ resource' \in {"ready", "unready", "gone"}
      /\ resource' = "gone" => Pending = {}
      /\ UNCHANGED <<job, control, main, exec, broken, work, faults>>
  BY DEF StartResource, Probe, DeleteResource, Serving, control
<1>2. PICK m \in Mains : m = main[c]
  BY DEF IInv, Shape
<1>3. main' = [main EXCEPT ![c] = m] /\ Fits(c, m, broken[c])
  BY <1>1, <1>2 DEF IInv, Shape, MainsFit
<1> QED BY <1>1, <1>3, StillFacts, MainSets DEF control

\* A serving controller begins to cancel or to look at its queue, for jobs none of which
\* it has an update of.
LEMMA ServingFacts ==
    ASSUME IInv, NEW c \in Controllers, Serving(c)
    PROVE  /\ c \in leads /\ c \notin closing /\ main[c] = Idle /\ Fits(c, Idle, broken[c])
           /\ \A k \in Jobs : job[k].state = "running" => Followed(k) \/ k \in broken[c]
           /\ \A k \in broken[c] : job[k].state = "running" /\ ~Followed(k)
           /\ broken[c] \in SUBSET Jobs
<1>1. c \in leads /\ c \notin closing /\ main[c] = Idle /\ Fits(c, Idle, broken[c])
  BY DEF Serving, IInv, MainsFit
<1>2. \A k \in Jobs : ~Writes(Idle, k)
  BY IdleFacts DEF Writes
<1> QED BY <1>1, <1>2 DEF Fits, IInv, Shape

\* A job is flagged, or every job of the resource is going to be (cancel, stop).
LEMMA CancelJobInv ==
    ASSUME IInv, NEW c \in Controllers, NEW j \in Jobs, CancelJob(c, j)
    PROVE  IInv'
<1> DEFINE m == [Idle EXCEPT !.op = "cancel", !.todo = {<<j, 0>>}]
<1>1. /\ m \in Mains /\ m.op = "cancel" /\ m.write = Nothing
  <2>1. {<<j, 0>>} \subseteq Jobs \X (0 .. MaxClaims)
    BY BoundFacts
  <2> QED BY <2>1, IdleFacts DEF Mains
<1>2. /\ Serving(c) /\ main' = [main EXCEPT ![c] = m] /\ job' = [job EXCEPT ![j].cancel = TRUE]
      /\ UNCHANGED <<resource, control, exec, broken, work, faults>>
  BY DEF CancelJob
<1> HIDE DEF m
<1>3. Fits(c, m, broken[c])
  BY <1>1, <1>2, ServingFacts DEF Fits, Writes
<1>4. resource \in {"ready", "unready", "stopped", "gone"}
  BY DEF IInv, Shape
<1> QED BY <1>1, <1>2, <1>3, <1>4, ServingFacts, StillFacts, MainSets

\* Stopping the resource flags every job that has not ended, in one request.
LEMMA StopResourceInv ==
    ASSUME IInv, NEW c \in Controllers, StopResource(c)
    PROVE  IInv'
<1>1. PICK P \in SUBSET Jobs : P = Pending
  BY DEF Pending, InState
<1> DEFINE m == [Idle EXCEPT !.op = "cancel", !.todo = P \X {0}]
<1>2. /\ m \in Mains /\ m.op = "cancel" /\ m.write = Nothing
  <2>1. P \X {0} \subseteq Jobs \X (0 .. MaxClaims)
    BY BoundFacts
  <2> QED BY <2>1, IdleFacts DEF Mains
<1>3. /\ Serving(c) /\ main' = [main EXCEPT ![c] = m] /\ resource' = "stopped"
      /\ UNCHANGED <<job, control, exec, broken, work, faults>>
  BY <1>1 DEF StopResource
<1> HIDE DEF m
<1>4. Fits(c, m, broken[c])
  BY <1>2, <1>3, ServingFacts DEF Fits, Writes
<1> QED BY <1>2, <1>3, <1>4, ServingFacts, StillFacts, MainSets

\* What finish decides to write: an end, or the queue when it may be tried again.
LEMMA VerdictFacts ==
    ASSUME NEW j, NEW to \in Terminal, NEW retry \in BOOLEAN
    PROVE  /\ Verdict(j, to, retry) \in Terminal \cup {"queued"}
           /\ Verdict(j, to, retry) = "queued" => retry
BY DEF Verdict, Terminal

\* A job is taken from the list of a tick, a cancel or a promotion, with the update that
\* this asks for: no thread follows it, and it is on the list once.
LEMMA TakesNext ==
    ASSUME IInv, NEW c \in Controllers, NEW o \in Mains, o = main[c],
           o.op \in {"tick", "cancel", "promote"}, o.write = Nothing, NEW t \in o.todo,
           NEW w \in (Jobs \X (Terminal \cup {"queued"})) \cup {Nothing},
           w = Nothing => o.op # "promote",
           w # Nothing =>
             /\ w[1] = t[1]
             /\ o.op \in {"tick", "cancel"} => job[t[1]].state = "queued" /\ w[2] # "queued"
             /\ w[2] = "queued" => job[t[1]].attempts < MaxAttempts,
           main' = [main EXCEPT ![c] = [o EXCEPT !.todo = o.todo \ {t}, !.write = w]],
           UNCHANGED <<table, control, exec, broken, faults>>, Quiet
    PROVE  IInv'
<1> DEFINE m == [o EXCEPT !.todo = o.todo \ {t}, !.write = w]
<1>1. /\ m \in Mains /\ m.op = o.op /\ m.room = o.room /\ m.todo = o.todo \ {t} /\ m.write = w
      /\ t \in Jobs \X (0 .. MaxClaims) /\ t[1] \in Jobs /\ \A u \in o.todo : u[1] \in Jobs
      /\ \A u \in o.todo : u = <<u[1], u[2]>>
  <2>1. o.todo \subseteq Jobs \X (0 .. MaxClaims)
    BY DEF Mains
  <2>2. \A u \in o.todo : u[1] \in Jobs /\ u = <<u[1], u[2]>>
    BY <2>1
  <2>3. /\ m \in Mains /\ m.op = o.op /\ m.room = o.room /\ m.todo = o.todo \ {t}
        /\ m.write = w
    BY <2>1 DEF Mains
  <2> QED BY <2>1, <2>2, <2>3
<1>2. main' = [main EXCEPT ![c] = m]
  OBVIOUS
<1> HIDE DEF m
<1>3. Fits(c, o, broken[c]) /\ broken[c] \subseteq Jobs
  BY DEF IInv, MainsFit, Shape
<1>4. o # Idle /\ m # Idle
  BY <1>1, IdleFacts
<1>5. c \notin closing
  BY <1>4 DEF IInv, OneLeader
<1>6. o.op = "promote" => exec = {} /\ broken[c] = {} /\ job[t[1]].state = "running"
  BY <1>1, <1>3, <1>4, Alone DEF Fits, IInv, OneLeader
<1>7. /\ o.op \in {"tick", "promote"} => \A u \in m.todo : u[1] # t[1]
  <2>1. o.op = "tick" => \A u \in o.todo : u[2] = 0
    BY <1>3 DEF Fits
  <2>2. o.op = "promote" => \A u \in o.todo : u[2] = job[u[1]].attempts
    BY <1>3 DEF Fits
  <2>3. \A u \in o.todo : u[1] = t[1] /\ u[2] = t[2] => u = t
    BY <1>1
  <2> QED BY <1>1, <2>1, <2>2, <2>3
<1>8. w # Nothing /\ o.op \in {"tick", "cancel"} =>
        job[t[1]].state = "queued" /\ ~Followed(t[1]) /\ t[1] \notin broken[c]
  BY <1>3 DEF Fits, Followed, IInv, FollowersFit
<1>9. \A j \in Jobs : ~Writes(o, j) /\ (Writes(m, j) <=> w # Nothing /\ j = t[1])
  BY <1>1 DEF Writes
<1>10. Fits(c, m, broken[c])
  <2>1. ASSUME NEW j \in Jobs, Writes(m, j)
        PROVE  /\ ~Followed(j) /\ j \notin broken[c]
               /\ m.op # "cancel" => \A u \in m.todo : u[1] # j
               /\ m.op \in {"tick", "cancel"} => job[j].state = "queued" /\ m.write[2] # "queued"
               /\ m.op \in {"reap", "promote"} => job[j].state = "running"
               /\ m.write[2] = "queued" => job[j].attempts < MaxAttempts
    BY <2>1, <1>1, <1>6, <1>7, <1>8, <1>9 DEF Followed
  <2>2. m.op = "promote" =>
          /\ c \notin leads
          /\ \A u \in m.todo : job[u[1]].state = "running" /\ job[u[1]].attempts = u[2]
          /\ \A j \in Jobs : job[j].state = "running" =>
                               (\E u \in m.todo : u[1] = j) \/ Writes(m, j)
    BY <1>1, <1>3, <1>9 DEF Fits
  <2>3. m.op = "tick" =>
          /\ \A u \in m.todo : job[u[1]].state = "queued" /\ u[2] = 0
          /\ Number(InState({"running"})) + m.room <= Concurrency
    BY <1>1, <1>3 DEF Fits
  <2>4. c \in leads \ closing => \A j \in Jobs : job[j].state = "running" =>
                                      Followed(j) \/ j \in broken[c] \/ Writes(m, j)
    BY <1>3, <1>9 DEF Fits
  <2>5. /\ m.op \in {"tick", "promote", "cancel"} /\ (m.op = "tick" => c \in leads)
        /\ m.op = "cancel" => c \in leads
    BY <1>1, <1>3 DEF Fits
  <2>6. \A j \in broken[c] : job[j].state = "running" /\ ~Followed(j)
    BY <1>3 DEF Fits
  <2> QED BY <2>1, <2>2, <2>3, <2>4, <2>5, <2>6 DEF Fits
<1>11. resource \in {"ready", "unready", "stopped", "gone"}
  BY DEF IInv, Shape
<1>12. Steady /\ UNCHANGED resource
  BY StillFacts DEF table
<1>13. /\ c \in leads \/ main[c] # Idle
       /\ m \in Mains /\ (m # Idle => c \notin closing)
       /\ resource' \in {"ready", "unready", "stopped", "gone"}
       /\ resource' = "gone" => resource = "gone" \/ Pending = {}
  BY <1>1, <1>4, <1>5, <1>11, <1>12
<1> QED BY <1>2, <1>10, <1>12, <1>13, MainSets

\* The next job of a cancelled resource: a queued one is ended here.
LEMMA CancelNextInv ==
    ASSUME IInv, NEW c \in Controllers, NEW t \in main[c].todo, CancelNext(c, t)
    PROVE  IInv'
<1>1. PICK o \in Mains : o = main[c]
  BY DEF IInv, Shape
<1>2. PICK w \in (Jobs \X (Terminal \cup {"queued"})) \cup {Nothing} :
        w = IF job[t[1]].state = "queued" THEN <<t[1], Verdict(t[1], "cancelled", FALSE)>>
            ELSE Nothing
  BY <1>1, VerdictFacts DEF Mains, Terminal
<1>3. w # Nothing => w[1] = t[1] /\ job[t[1]].state = "queued" /\ w[2] # "queued"
  BY <1>2, VerdictFacts DEF Terminal
<1>4. main' = [main EXCEPT ![c] = [o EXCEPT !.todo = o.todo \ {t}, !.write = w]]
  BY <1>1, <1>2 DEF CancelNext
<1>5. Quiet
  BY StillFacts DEF CancelNext
<1>6. o.op = "cancel" /\ o.write = Nothing /\ t \in o.todo
      /\ UNCHANGED <<table, control, exec, broken, faults>>
  BY <1>1 DEF CancelNext
<1> QED BY <1>1, <1>3, <1>4, <1>5, <1>6, TakesNext

\* A job of the queue that a tick finds past its deadline.
LEMMA TickExpireInv ==
    ASSUME IInv, NEW c \in Controllers, NEW j \in Jobs, TickExpire(c, j)
    PROVE  IInv'
<1>1. PICK o \in Mains : o = main[c]
  BY DEF IInv, Shape
<1>2. PICK t \in o.todo : t = <<j, 0>> /\ t[1] = j
  BY <1>1, PairFacts DEF TickExpire
<1>3. Fits(c, o, broken[c]) /\ o.op = "tick" /\ o.write = Nothing
  BY <1>1 DEF TickExpire, IInv, MainsFit
<1>4. job[j].state = "queued" /\ job[j].state \in Live
  BY <1>2, <1>3 DEF Fits, Live
<1>5. PICK w \in (Jobs \X (Terminal \cup {"queued"})) \cup {Nothing} :
        w = <<j, Verdict(j, "failed", FALSE)>>
  BY VerdictFacts DEF Terminal
<1>6. w[1] = t[1] /\ w[2] # "queued"
  BY <1>2, <1>5, VerdictFacts DEF Terminal
<1>7. main' = [main EXCEPT ![c] = [o EXCEPT !.todo = o.todo \ {t}, !.write = w]]
  BY <1>1, <1>2, <1>4, <1>5 DEF TickExpire
<1>8. Quiet /\ UNCHANGED <<table, control, exec, broken, faults>>
  BY StillFacts DEF TickExpire
<1> QED BY <1>1, <1>2, <1>3, <1>4, <1>6, <1>7, <1>8, TakesNext

\* A job found running goes back into the queue unless it has been tried enough (promote).
LEMMA RevokeInv ==
    ASSUME IInv, NEW c \in Controllers, NEW t \in main[c].todo, Revoke(c, t)
    PROVE  IInv'
<1>1. PICK o \in Mains : o = main[c]
  BY DEF IInv, Shape
<1>2. Fits(c, o, broken[c]) /\ o.op = "promote" /\ o.write = Nothing /\ t \in o.todo
  BY <1>1 DEF Revoke, IInv, MainsFit
<1>3. /\ t[1] \in Jobs /\ t[2] = job[t[1]].attempts /\ job[t[1]].state = "running"
      /\ job[t[1]].state \in Live
  BY <1>2 DEF Fits, Live, Mains
<1>4. PICK w \in (Jobs \X (Terminal \cup {"queued"})) \cup {Nothing} :
        w = <<t[1], Verdict(t[1], "failed", t[2] < MaxAttempts)>>
  <2>1. Verdict(t[1], "failed", t[2] < MaxAttempts) \in Terminal \cup {"queued"}
    BY DEF Verdict, Terminal
  <2> QED BY <1>3, <2>1
<1>5. /\ w[1] = t[1] /\ w # Nothing /\ (w[2] = "queued" => job[t[1]].attempts < MaxAttempts)
  BY <1>3, <1>4, PairFacts DEF Verdict
<1>6. main' = [main EXCEPT ![c] = [o EXCEPT !.todo = o.todo \ {t}, !.write = w]]
  BY <1>1, <1>3, <1>4 DEF Revoke
<1>7. Quiet /\ UNCHANGED <<table, control, exec, broken, faults>>
  BY StillFacts DEF Revoke
<1> QED BY <1>1, <1>2, <1>5, <1>6, <1>7, TakesNext

\* The next job of a cancelled resource is flagged.
LEMMA FlagNextInv ==
    ASSUME IInv, NEW c \in Controllers, NEW t \in main[c].todo, FlagNext(c, t)
    PROVE  IInv'
<1>1. PICK m \in Mains : m = main[c]
  BY DEF IInv, Shape
<1>2. t[1] \in Jobs /\ m.op = "cancel"
  BY <1>1 DEF FlagNext, Mains
<1>3. main' = [main EXCEPT ![c] = m] /\ Fits(c, m, broken[c])
      /\ UNCHANGED <<resource, control, exec, broken, work, faults>>
  BY <1>1 DEF FlagNext, IInv, Shape, MainsFit
<1>4. Steady /\ Quiet
  BY <1>2, StillFacts DEF FlagNext
<1>5. main[c] # Idle /\ (m # Idle => c \notin closing)
      /\ resource \in {"ready", "unready", "stopped", "gone"}
  BY <1>1, <1>2, IdleFacts DEF IInv, OneLeader, Shape
<1> QED BY <1>3, <1>4, <1>5, MainSets

\* A list is finished: the controller is idle again.
LEMMA DoneInv ==
    ASSUME IInv, NEW c \in Controllers, Done(c) \/ TickEnd(c)
    PROVE  IInv'
<1>1. Fits(c, main[c], broken[c]) /\ main[c].op \in {"cancel", "reap", "tick"}
      /\ main[c].write = Nothing /\ main' = [main EXCEPT ![c] = Idle]
      /\ UNCHANGED <<table, control, exec, broken, work, faults>>
  BY DEF Done, TickEnd, IInv, MainsFit
<1>2. \A j \in Jobs : ~Writes(main[c], j) /\ ~Writes(Idle, j)
  BY <1>1, IdleFacts DEF Writes
<1>3. Fits(c, Idle, broken[c])
  BY <1>1, <1>2, IdleFacts DEF Fits
<1>4. main[c] # Idle /\ resource \in {"ready", "unready", "stopped", "gone"}
  BY <1>1, IdleFacts DEF IInv, Shape
<1> QED BY <1>1, <1>3, <1>4, IdleFacts, StillFacts, MainSets DEF table

\* A job whose thread failed is ended (reap).
LEMMA ReapInv ==
    ASSUME IInv, NEW c \in Controllers, NEW j \in Jobs, Reap(c, j)
    PROVE  IInv'
<1>1. /\ Serving(c) /\ j \in broken[c] /\ job[j].state = "running" /\ ~Followed(j)
      /\ job[j].state \in Live
  BY ServingFacts DEF Reap, Live
<1>2. PICK w \in (Jobs \X (Terminal \cup {"queued"})) \cup {Nothing} :
        w = <<j, Verdict(j, "failed", FALSE)>>
  BY VerdictFacts DEF Terminal
<1>3. w # Nothing /\ w[1] = j /\ w[2] # "queued"
  BY <1>2, PairFacts, VerdictFacts DEF Terminal
<1>4. PICK b \in SUBSET Jobs : b = broken[c] \ {j}
  BY ServingFacts, <1>1
<1> DEFINE m == [Idle EXCEPT !.op = "reap", !.write = w]
<1>5. m \in Mains /\ m.op = "reap" /\ m.todo = {} /\ m.write = w
  BY IdleFacts DEF Mains
<1>6. main' = [main EXCEPT ![c] = m]
  BY <1>1, <1>2 DEF Reap
<1> HIDE DEF m
<1>7. /\ broken' \in [Controllers -> SUBSET Jobs] /\ broken'[c] = b
      /\ \A d \in Controllers : d # c => broken'[d] = broken[d]
      /\ UNCHANGED <<table, control, exec, work, faults>>
  BY <1>4 DEF Reap, IInv, Shape
<1>8. \A k \in Jobs : Writes(m, k) <=> k = j
  BY <1>3, <1>5 DEF Writes
<1>9. Fits(c, m, b)
  <2>1. c \in leads /\ \A k \in Jobs : job[k].state = "running" => Followed(k) \/ k \in b \/ k = j
    BY <1>1, <1>4, ServingFacts
  <2>2. \A k \in b : job[k].state = "running" /\ ~Followed(k) /\ k # j
    BY <1>1, <1>4, ServingFacts
  <2> QED BY <1>1, <1>3, <1>5, <1>8, <2>1, <2>2 DEF Fits
<1>10. c \in leads /\ c \notin closing /\ resource \in {"ready", "unready", "stopped", "gone"}
  BY <1>1, ServingFacts DEF IInv, Shape
<1> QED BY <1>5, <1>6, <1>7, <1>9, <1>10, StillFacts, MainMoves DEF table

\* A tick reads what is queued, and how many places are free.
LEMMA TickStartInv ==
    ASSUME IInv, NEW c \in Controllers, TickStart(c)
    PROVE  IInv'
<1> DEFINE q == InState({"queued"}) \X {0}
           n == Number(InState({"running"}))
           r == IF n >= Concurrency THEN 0 ELSE Concurrency - n
           o == [op |-> "tick", todo |-> q, write |-> Nothing, room |-> r]
<1>1. n \in Nat /\ n <= Concurrency /\ Concurrency \in Nat
  BY NumberFacts, BoundFacts DEF IInv, InBounds
<1>2. r \in 0 .. Concurrency /\ n + r <= Concurrency
  <2> HIDE DEF n
  <2> QED BY <1>1
<1>3. q \subseteq Jobs \X (0 .. MaxClaims) /\ \A t \in q : job[t[1]].state = "queued" /\ t[2] = 0
  BY BoundFacts DEF InState
<1>4. /\ Serving(c) /\ main' = [main EXCEPT ![c] = o]
      /\ UNCHANGED <<table, control, exec, broken, work, faults>>
  BY DEF TickStart
<1> HIDE DEF q, r
<1>5. o \in Mains
  BY <1>2, <1>3 DEF Mains
<1>6. PICK m \in Mains : m = o
  BY <1>5
<1>7. /\ m.op = "tick" /\ m.todo = q /\ m.write = Nothing /\ m.room = r
      /\ main' = [main EXCEPT ![c] = m]
  BY <1>4, <1>6
<1> HIDE DEF o
<1>8. \A j \in Jobs : ~Writes(m, j)
  BY <1>7 DEF Writes
<1>9. Fits(c, m, broken[c])
  <2>1. n + m.room <= Concurrency
    BY <1>2, <1>7
  <2> QED BY <1>3, <1>4, <1>7, <1>8, <2>1, ServingFacts DEF Fits
<1>10. c \in leads /\ c \notin closing /\ resource \in {"ready", "unready", "stopped", "gone"}
  BY <1>4, ServingFacts DEF IInv, Shape
<1> QED BY <1>4, <1>7, <1>9, <1>10, StillFacts, MainSets DEF table

-----------------------------------------------------------------------------
(* The threads that follow attempts, and the worker.                       *)

\* An attempt that has ended is the same attempt, and is retried only if it is not the last.
LEMMA EndingFacts ==
    ASSUME NEW e \in Threads, NEW to \in Terminal, NEW retry \in BOOLEAN,
           NEW f, f = Ending(e, to, retry)
    PROVE  /\ f \in Threads /\ f.by = e.by /\ f.job = e.job /\ f.attempt = e.attempt
           /\ f.at = "finish" /\ f.to \in Terminal /\ (f.retry => f.attempt < MaxAttempts)
<1>1. (retry /\ e.attempt < MaxAttempts) \in BOOLEAN
  OBVIOUS
<1> QED BY <1>1 DEF Ending, Threads

\* A process that is dropped from the records keeps its place; one more is used when a
\* process starts, and none when one is running.
LEMMA StartFacts ==
    ASSUME IInv, NEW D \in SUBSET Jobs, NEW j \in Jobs, Used(j) < job[j].attempts
    PROVE  /\ work' = Pruned(D) => Quiet
           /\ work' = Started(j, Pruned(D)) =>
                /\ work' \in [Jobs -> Places] /\ Used(j)' <= job[j].attempts
                /\ \A k \in Jobs : k # j => Used(k)' <= Used(k)
<1> DEFINE p == Pruned(D)
<1>1. /\ work \in [Jobs -> Places] /\ MaxClaims \in Nat
      /\ \A k \in Jobs : Used(k) \in Nat /\ Used(k) <= MaxClaims /\ job[k].attempts \in Nat
      /\ job[j].attempts <= MaxClaims
  <2>1. work \in [Jobs -> Places] /\ MaxClaims \in Nat
    BY BoundFacts DEF IInv, Shape
  <2>2. \A k \in Jobs : Used(k) \in Nat
    BY <2>1 DEF Places, Used
  <2>3. \A k \in Jobs : job[k].attempts \in 0 .. MaxClaims
    BY DEF IInv, Shape, Rows
  <2>4. \A k \in Jobs : Used(k) <= job[k].attempts
    BY DEF IInv, PlacesFit
  <2> QED BY <2>1, <2>2, <2>3, <2>4
<1>2. \A k \in Jobs : /\ p[k] \in Places
                      /\ p[k].old + (IF p[k].alive THEN 1 ELSE 0) = Used(k)
  <2>1. ASSUME NEW k \in Jobs, k \in D
        PROVE  p[k] \in Places /\ p[k].old + (IF p[k].alive THEN 1 ELSE 0) = Used(k)
    <3>1. p[k] = [state |-> None, alive |-> FALSE, old |-> Used(k)]
      BY <2>1 DEF Pruned, Used
    <3>2. Used(k) \in 0 .. MaxClaims
      BY <1>1
    <3> HIDE DEF p
    <3>3. /\ p[k].alive = FALSE /\ p[k].old = Used(k) /\ p[k] \in Places
      BY <3>1, <3>2 DEF Places
    <3> QED BY <3>2, <3>3
  <2>2. ASSUME NEW k \in Jobs, k \notin D PROVE p[k] = work[k]
    BY <2>2 DEF Pruned
  <2> HIDE DEF p
  <2> QED BY <1>1, <2>1, <2>2 DEF Used
<1>3. p \in [Jobs -> Places]
  <2>1. p = [k \in Jobs |-> p[k]]
    BY DEF Pruned
  <2> HIDE DEF p
  <2> QED BY <1>2, <2>1
<1>4. work' = Pruned(D) => Quiet
  <2>1. work' = Pruned(D) => work' = p
    OBVIOUS
  <2> HIDE DEF p
  <2>2. work' = p => \A k \in Jobs : Used(k)' = Used(k)
    BY <1>2 DEF Used
  <2>3. \A k \in Jobs : Used(k) <= Used(k)
    BY <1>1
  <2> QED BY <1>3, <2>1, <2>2, <2>3 DEF Quiet
<1>5. ASSUME work' = Started(j, p)
      PROVE  /\ work' \in [Jobs -> Places] /\ Used(j)' <= job[j].attempts
             /\ \A k \in Jobs : k # j => Used(k)' <= Used(k)
  <2> HIDE DEF p
  <2>1. CASE p[j].state = "running"
    <3>1. work' = p
      BY <1>5, <2>1 DEF Started
    <3>2. \A k \in Jobs : Used(k)' = Used(k)
      BY <3>1, <1>2 DEF Used
    <3> QED BY <3>1, <3>2, <1>1, <1>3
  <2>2. CASE p[j].state # "running"
    <3> DEFINE o == IF p[j].alive THEN p[j].old + 1 ELSE p[j].old
               r == [state |-> "running", alive |-> TRUE, old |-> o]
    <3>1. work' = [p EXCEPT ![j] = r]
      BY <1>5, <2>2 DEF Started
    <3>2. p[j].old \in Nat /\ p[j].alive \in BOOLEAN
          /\ p[j].old + (IF p[j].alive THEN 1 ELSE 0) = Used(j)
      BY <1>2, <1>3 DEF Places
    <3>3. o = Used(j)
      BY <3>2
    <3>4. o + 1 <= job[j].attempts /\ o \in 0 .. MaxClaims
      <4> HIDE DEF o
      <4> QED BY <3>3, <1>1
    <3> HIDE DEF o
    <3>5. r \in Places /\ r.alive = TRUE /\ r.old = o
      BY <3>4 DEF Places
    <3> HIDE DEF r
    <3>6. work' \in [Jobs -> Places] /\ work'[j] = r /\ \A k \in Jobs : k # j => work'[k] = p[k]
      BY <3>1, <3>5, <1>3
    <3>7. Used(j)' <= job[j].attempts
      BY <3>4, <3>5, <3>6 DEF Used
    <3>8. \A k \in Jobs : k # j => Used(k)' = Used(k)
      BY <3>6, <1>2 DEF Used
    <3> QED BY <1>1, <3>6, <3>7, <3>8
  <2> QED BY <2>1, <2>2
<1> QED BY <1>4, <1>5

\* A thread finds its job cancelled, or goes on to ask the worker.
LEMMA ExecStartInv ==
    ASSUME IInv, NEW e \in exec, ExecStart(e)
    PROVE  IInv'
<1>1. e \in Threads
  BY DEF IInv, Shape
<1>2. PICK f : /\ exec' = (exec \ {e}) \cup {f}
               /\ f = (IF job[e.job].cancel THEN Ending(e, "cancelled", FALSE)
                       ELSE [e EXCEPT !.at = "post"])
  BY DEF ExecStart, Follow
<1>3. /\ f \in Threads /\ f.by = e.by /\ f.job = e.job /\ f.attempt = e.attempt
      /\ f.at = "finish" => f.to \in Terminal /\ (f.retry => f.attempt < MaxAttempts)
      /\ f.at # "write"
  <2>1. CASE job[e.job].cancel
    <3>1. f = Ending(e, "cancelled", FALSE) /\ "cancelled" \in Terminal
      BY <1>2, <2>1 DEF Terminal
    <3> QED BY <1>1, <3>1, EndingFacts
  <2>2. CASE ~job[e.job].cancel
    <3>1. f = [e EXCEPT !.at = "post"]
      BY <1>2, <2>2
    <3> QED BY <1>1, <3>1 DEF Threads
  <2> QED BY <2>1, <2>2
<1>4. e.at = "start" /\ UNCHANGED <<table, control, main, broken, work, faults>>
  BY DEF ExecStart
<1>5. Quiet
  BY <1>4, StillFacts
<1> QED BY <1>2, <1>3, <1>4, <1>5, ThreadMoves DEF Quiet

\* A thread asks the worker, which starts a process at most once for its attempt.
LEMMA ExecPostInv ==
    ASSUME IInv, NEW e \in exec, ExecPost(e)
    PROVE  IInv'
<1>1. e \in Threads /\ e.job \in Jobs /\ Used(e.job) < job[e.job].attempts
  BY DEF ExecPost, IInv, Shape, Threads, FollowersFit, PlacesFit
<1>2. PICK D, f :
        /\ D \in SUBSET (Prunable \ {e.job})
        /\ exec' = (exec \ {e}) \cup {f}
        /\ \/ f \in {Ending(e, "failed", FALSE), Ending(e, "failed", TRUE)}
           \/ f = [e EXCEPT !.at = "poll"]
        /\ work' \in {work, Pruned(D), Started(e.job, Pruned(D))}
  BY DEF ExecPost, Follow
<1>3. /\ f \in Threads /\ f.by = e.by /\ f.job = e.job /\ f.attempt = e.attempt
      /\ f.at = "finish" => f.to \in Terminal /\ (f.retry => f.attempt < MaxAttempts)
      /\ f.at \notin {"start", "post", "write"}
  <2>1. CASE f \in {Ending(e, "failed", FALSE), Ending(e, "failed", TRUE)}
    <3>1. PICK retry \in BOOLEAN : f = Ending(e, "failed", retry)
      BY <2>1
    <3>2. "failed" \in Terminal
      BY DEF Terminal
    <3> QED BY <1>1, <3>1, <3>2, EndingFacts
  <2>2. CASE f = [e EXCEPT !.at = "poll"]
    BY <1>1, <2>2 DEF Threads
  <2> QED BY <1>2, <2>1, <2>2
<1>4. /\ work' \in [Jobs -> Places]
      /\ \A j \in Jobs : Used(j)' <= Used(j) \/ (j = e.job /\ Used(j)' <= job[j].attempts)
  <2>1. D \subseteq Jobs
    BY <1>2 DEF Prunable
  <2>2. Quiet => work' \in [Jobs -> Places] /\ \A j \in Jobs : Used(j)' <= Used(j)
    BY DEF Quiet
  <2>3. CASE work' = work
    BY <2>2, <2>3, StillFacts
  <2>4. CASE work' = Pruned(D)
    BY <1>1, <2>1, <2>2, <2>4, StartFacts
  <2>5. CASE work' = Started(e.job, Pruned(D))
    BY <1>1, <2>1, <2>5, StartFacts
  <2> QED BY <1>2, <2>3, <2>4, <2>5
<1>5. UNCHANGED <<table, control, main, broken, faults>>
  BY DEF ExecPost
<1> QED BY <1>2, <1>3, <1>4, <1>5, ThreadMoves

\* A thread sees the flag, its deadline or how the attempt ended.
LEMMA ExecPollInv ==
    ASSUME IInv, NEW e \in exec, ExecPoll(e)
    PROVE  IInv'
<1>1. e \in Threads
  BY DEF IInv, Shape
<1>2. PICK to, retry, f :
        /\ to \in Terminal /\ retry \in BOOLEAN
        /\ exec' = (exec \ {e}) \cup {f} /\ f = Ending(e, to, retry)
  BY DEF ExecPoll, Follow, Terminal
<1>3. Quiet
  BY StillFacts DEF ExecPoll
<1>4. UNCHANGED <<table, control, main, broken, faults>>
  BY DEF ExecPoll
<1> QED BY <1>1, <1>2, <1>3, <1>4, EndingFacts, ThreadMoves DEF Quiet

\* A thread reads the row, and decides what to write; its job is still at its attempt.
LEMMA ExecSelectInv ==
    ASSUME IInv, NEW e \in exec, ExecSelect(e)
    PROVE  IInv'
<1>1. /\ e \in Threads /\ e.at = "finish" /\ e.to \in Terminal /\ e.retry \in BOOLEAN
      /\ e.retry => e.attempt < MaxAttempts
      /\ job[e.job].attempts = e.attempt /\ job[e.job].state \in Live
  BY DEF ExecSelect, IInv, Shape, FollowersFit, Threads, Live
<1>2. PICK v \in Terminal \cup {"queued"} : v = Verdict(e.job, e.to, e.retry)
  BY <1>1, VerdictFacts
<1>3. PICK f \in Threads : f = [e EXCEPT !.at = "write", !.to = v]
  BY <1>1 DEF Threads
<1>4. exec' = (exec \ {e}) \cup {f}
  BY <1>1, <1>2, <1>3 DEF ExecSelect, Follow
<1>5. /\ f.by = e.by /\ f.job = e.job /\ f.attempt = e.attempt /\ f.at = "write" /\ f.to = v
      /\ v # None /\ (v = "queued" => e.retry)
  BY <1>1, <1>2, <1>3, VerdictFacts DEF Threads, None, Terminal
<1>6. Quiet /\ UNCHANGED <<table, control, main, broken, work, faults>>
  BY StillFacts DEF ExecSelect
<1> QED BY <1>1, <1>4, <1>5, <1>6, ThreadMoves DEF Quiet

\* The worker's processes end, and the worker restarts.
LEMMA WorkerInv ==
    ASSUME IInv, WorkerRestarts \/ \E j \in Jobs : ProcessEnds(j) \/ OldProcessEnds(j)
    PROVE  IInv'
<1>1. /\ Quiet /\ UNCHANGED <<table, control, main, exec, broken>> /\ faults' \in 0 .. MaxFaults
  <2>1. work \in [Jobs -> Places] /\ faults \in 0 .. MaxFaults /\ MaxFaults \in Nat
    BY BoundFacts DEF IInv, Shape
  <2>2. \A k \in Jobs : Used(k) \in Int /\ work[k].old \in 0 .. MaxClaims
    BY <2>1 DEF Places, Used
  <2>3. CASE WorkerRestarts
    <3> DEFINE r == [state |-> None, alive |-> FALSE, old |-> 0]
    <3>1. r \in Places /\ r.old = 0 /\ r.alive = FALSE
      BY BoundFacts DEF Places
    <3>2. work' = [j \in Jobs |-> r]
      BY <2>3 DEF WorkerRestarts
    <3> HIDE DEF r
    <3>3. work' \in [Jobs -> Places] /\ \A k \in Jobs : work'[k] = r
      BY <3>1, <3>2
    <3>4. \A k \in Jobs : Used(k)' <= Used(k)
      BY <3>1, <3>3, <2>1, <2>2 DEF Used, Places
    <3>5. faults' = faults + 1 /\ faults < MaxFaults
          /\ UNCHANGED <<table, control, main, exec, broken>>
      BY <2>3 DEF WorkerRestarts, Fault
    <3> QED BY <2>1, <3>3, <3>4, <3>5 DEF Quiet
  <2>4. ASSUME NEW j \in Jobs, ProcessEnds(j) \/ OldProcessEnds(j)
        PROVE  Quiet /\ UNCHANGED <<table, control, main, exec, broken, faults>>
    <3>1. UNCHANGED <<table, control, main, exec, broken, faults>>
      BY <2>4 DEF ProcessEnds, OldProcessEnds
    <3>2. PICK r \in Places : /\ work' = [work EXCEPT ![j] = r]
                              /\ r.old + (IF r.alive THEN 1 ELSE 0) <= Used(j)
      <4>1. CASE ProcessEnds(j)
        <5>1. PICK s \in Terminal : work' = [work EXCEPT ![j] = [work[j] EXCEPT !.state = s,
                                                                                !.alive = FALSE]]
          BY <4>1 DEF ProcessEnds, Terminal
        <5>2. PICK r \in Places : r = [work[j] EXCEPT !.state = s, !.alive = FALSE]
          BY <2>1 DEF Places
        <5>3. r.old = work[j].old /\ r.alive = FALSE
          BY <2>1, <5>2 DEF Places
        <5>4. work' = [work EXCEPT ![j] = r]
          BY <5>1, <5>2
        <5>5. work[j].alive \in BOOLEAN /\ work[j].old \in Int
          BY <2>1 DEF Places
        <5>6. r.old + (IF r.alive THEN 1 ELSE 0) <= Used(j)
          BY <5>3, <5>5 DEF Used
        <5> QED BY <5>4, <5>6
      <4>2. CASE OldProcessEnds(j)
        <5>1. work[j].old - 1 \in 0 .. MaxClaims
          BY <2>2, <4>2, BoundFacts DEF OldProcessEnds
        <5>2. PICK r \in Places : r = [work[j] EXCEPT !.old = work[j].old - 1]
          BY <2>1, <5>1 DEF Places
        <5>3. r.old = work[j].old - 1 /\ r.alive = work[j].alive
          BY <2>1, <5>2 DEF Places
        <5>4. work' = [work EXCEPT ![j] = r]
          BY <4>2, <5>2 DEF OldProcessEnds
        <5>5. r.old + (IF r.alive THEN 1 ELSE 0) <= Used(j)
          BY <2>2, <5>3 DEF Used
        <5> QED BY <5>4, <5>5
      <4> QED BY <2>4, <4>1, <4>2
    <3>3. work' \in [Jobs -> Places] /\ work'[j] = r /\ \A k \in Jobs : k # j => work'[k] = work[k]
      BY <2>1, <3>2
    <3>4. \A k \in Jobs : Used(k)' <= Used(k)
      <4>1. Used(j)' <= Used(j)
        BY <3>2, <3>3 DEF Used
      <4>2. \A k \in Jobs : k # j => Used(k)' = Used(k)
        BY <3>3 DEF Used
      <4> QED BY <2>2, <4>1, <4>2
    <3> QED BY <3>1, <3>3, <3>4 DEF Quiet
  <2> QED BY <2>1, <2>3, <2>4
<1>2. Steady
  BY <1>1, StillFacts DEF table
<1>3. Shape' /\ OneLeader' /\ FollowersFit'
  BY <1>1 DEF IInv, Shape, OneLeader, FollowersFit, table, control, Quiet
<1>4. MainsFit'
  <2>1. ASSUME NEW c \in Controllers PROVE Fits(c, main[c], broken[c])'
    <3>1. Fits(c, main[c], broken[c])
      BY DEF IInv, MainsFit
    <3> QED BY <1>1, <3>1 DEF Fits, Writes, Followed, InState, Number, table, control
  <2> QED BY <2>1 DEF MainsFit
<1>5. RowsFit' /\ InBounds'
  BY <1>1, <1>2, SteadyFacts, SteadyBounds DEF IInv, table
<1>6. PlacesFit'
  <2>1. \A j \in Jobs : Used(j) \in Int /\ Used(j)' \in Int /\ job[j].attempts \in Int
    BY <1>1 DEF IInv, Shape, Places, Rows, Used, Quiet
  <2>2. \A e \in exec : e.attempt \in Int /\ e.job \in Jobs
    BY DEF IInv, Shape, Threads
  <2>3. \A j \in Jobs : Used(j)' <= Used(j) /\ job'[j].attempts = job[j].attempts
    BY <1>1, <1>2 DEF Quiet, Steady
  <2> QED BY <1>1, <2>1, <2>2, <2>3 DEF IInv, PlacesFit
<1> QED BY <1>3, <1>4, <1>5, <1>6 DEF IInv

-----------------------------------------------------------------------------
(* Leadership, crashes and restarts.                                       *)

\* While nobody holds the lock, nobody works, leads or follows.
LEMMA NobodyLeads ==
    ASSUME IInv, lock = None
    PROVE  /\ leads = {} /\ closing = {} /\ exec = {}
           /\ \A c \in Controllers : main[c] = Idle /\ broken[c] = {}
BY BoundFacts DEF IInv, Shape, OneLeader

\* A controller takes the lock, and is going to revoke what it finds running.
LEMMA AcquireInv ==
    ASSUME IInv, NEW c \in Controllers, Acquire(c)
    PROVE  IInv'
<1> DEFINE q == {<<j, job[j].attempts>> : j \in InState({"running"})}
           o == [Idle EXCEPT !.op = "promote", !.todo = q]
<1>1. /\ q \subseteq Jobs \X (0 .. MaxClaims)
      /\ \A t \in q : job[t[1]].state = "running" /\ job[t[1]].attempts = t[2]
      /\ \A j \in Jobs : job[j].state = "running" => \E t \in q : t[1] = j
  <2>1. \A j \in Jobs : job[j].attempts \in 0 .. MaxClaims
    BY DEF IInv, Shape, Rows
  <2>2. \A t \in q : \E j \in Jobs : t = <<j, job[j].attempts>> /\ job[j].state = "running"
    BY DEF InState
  <2>3. \A j \in Jobs : job[j].state = "running" => <<j, job[j].attempts>> \in q
    BY DEF InState
  <2> HIDE DEF q
  <2>4. \A t \in q : /\ t \in Jobs \X (0 .. MaxClaims) /\ job[t[1]].state = "running"
                     /\ job[t[1]].attempts = t[2]
    BY <2>1, <2>2
  <2>5. \A j \in Jobs : job[j].state = "running" => \E t \in q : t[1] = j
    BY <2>3
  <2> QED BY <2>4, <2>5
<1>2. /\ lock = None /\ lock' = c /\ main' = [main EXCEPT ![c] = o]
      /\ UNCHANGED <<table, leads, closing, exec, broken, work, faults>>
  BY DEF Acquire
<1> HIDE DEF q
<1>3. PICK m \in Mains : m = o
  BY <1>1, IdleFacts DEF Mains
<1>4. /\ m.op = "promote" /\ m.todo = q /\ m.write = Nothing
      /\ main' = [main EXCEPT ![c] = m]
  BY <1>2, <1>3, IdleFacts
<1> HIDE DEF o
<1>5. /\ main' \in [Controllers -> Mains] /\ main'[c] = m
      /\ \A d \in Controllers : d # c => main'[d] = main[d]
  BY <1>4 DEF IInv, Shape
<1>6. Shape'
  BY <1>2, <1>5 DEF IInv, Shape, table
<1>7. OneLeader'
  BY <1>2, <1>5, NobodyLeads DEF OneLeader
<1>8. FollowersFit' /\ PlacesFit'
  BY <1>2 DEF IInv, FollowersFit, PlacesFit, Used, table
<1>9. MainsFit'
  <2>1. ASSUME NEW d \in Controllers PROVE Fits(d, main[d], broken[d])'
    <3>1. broken'[d] = {} /\ leads' = {} /\ exec' = {} /\ job' = job
      BY <1>2, NobodyLeads DEF table
    <3>2. CASE d = c
      <4>1. main'[d] = m /\ \A j \in Jobs : ~Writes(m, j)
        BY <1>4, <1>5, <3>2 DEF Writes
      <4> QED BY <1>1, <1>4, <3>1, <4>1 DEF Fits, Writes
    <3>3. CASE d # c
      <4>1. main'[d] = Idle
        BY <1>2, <1>5, <3>3, NobodyLeads
      <4> QED BY <3>1, <4>1, IdleFacts DEF Fits, Writes
    <3> QED BY <3>2, <3>3
  <2> QED BY <2>1 DEF MainsFit
<1>10. RowsFit' /\ InBounds'
  BY <1>2, StillFacts, SteadyFacts, SteadyBounds DEF IInv, table
<1> QED BY <1>6, <1>7, <1>8, <1>9, <1>10 DEF IInv

\* A controller leads when nothing is left running that it has not accounted for.
LEMMA LeadInv ==
    ASSUME IInv, NEW c \in Controllers, Lead(c)
    PROVE  IInv'
<1>1. /\ Fits(c, main[c], broken[c]) /\ main[c].op = "promote" /\ main[c].todo = {}
      /\ main[c].write = Nothing /\ leads' = leads \cup {c} /\ main' = [main EXCEPT ![c] = Idle]
      /\ UNCHANGED <<table, lock, closing, exec, broken, work, faults>>
  BY DEF Lead, IInv, MainsFit
<1>2. \A j \in Jobs : job[j].state # "running" /\ ~Writes(Idle, j)
  BY <1>1, IdleFacts DEF Fits, Writes
<1>3. main[c] # Idle
  BY <1>1, IdleFacts
<1>4. /\ lock = c /\ leads = {} /\ closing = {} /\ exec = {}
      /\ \A d \in Controllers : broken[d] = {} /\ (d # c => main[d] = Idle)
  BY <1>1, <1>3, Alone DEF Fits, IInv, OneLeader
<1>5. main' \in [Controllers -> Mains] /\ \A d \in Controllers : main'[d] = Idle
  BY <1>1, <1>4, IdleFacts DEF IInv, Shape
<1>6. Shape'
  BY <1>1, <1>5 DEF IInv, Shape, table
<1>7. OneLeader'
  BY <1>1, <1>4, <1>5 DEF OneLeader
<1>8. FollowersFit' /\ PlacesFit'
  BY <1>1 DEF IInv, FollowersFit, PlacesFit, Used, table
<1>9. MainsFit'
  BY <1>1, <1>2, <1>4, <1>5, IdleFacts DEF MainsFit, Fits, Writes, table
<1>10. RowsFit' /\ InBounds'
  BY <1>1, StillFacts, SteadyFacts, SteadyBounds DEF IInv, table
<1> QED BY <1>6, <1>7, <1>8, <1>9, <1>10 DEF IInv

\* The process of the lock's holder ends, with all that it had under way.
LEMMA GoneInv ==
    ASSUME IInv, NEW c \in Controllers, Crash(c) \/ Closed(c)
    PROVE  IInv'
<1>1. /\ c \in leads \/ main[c] # Idle
      /\ Gone(c) /\ UNCHANGED <<table, work>> /\ faults' \in 0 .. MaxFaults
  BY BoundFacts DEF Crash, Closed, Fault, IInv, Shape, OneLeader
<1>2. /\ lock' = None /\ leads' = {} /\ closing' = {} /\ exec' = {}
      /\ main' = [main EXCEPT ![c] = Idle] /\ broken' = [broken EXCEPT ![c] = {}]
  BY <1>1, Alone DEF Gone
<1>3. /\ main' \in [Controllers -> Mains] /\ broken' \in [Controllers -> SUBSET Jobs]
      /\ \A d \in Controllers : main'[d] = Idle /\ broken'[d] = {}
  BY <1>1, <1>2, Alone, IdleFacts DEF IInv, Shape
<1>4. Shape'
  BY <1>1, <1>2, <1>3 DEF IInv, Shape, table
<1>5. OneLeader' /\ FollowersFit'
  BY <1>2, <1>3 DEF OneLeader, FollowersFit
<1>6. MainsFit'
  BY <1>2, <1>3, IdleFacts DEF MainsFit, Fits, Writes
<1>7. RowsFit' /\ InBounds'
  BY <1>1, StillFacts, SteadyFacts, SteadyBounds DEF IInv, table
<1>8. PlacesFit'
  BY <1>1, <1>2 DEF IInv, PlacesFit, Used, table
<1> QED BY <1>4, <1>5, <1>6, <1>7, <1>8 DEF IInv

\* A controller is told to close: its jobs are interrupted, its threads may still write.
LEMMA CloseInv ==
    ASSUME IInv, NEW c \in Controllers, Close(c)
    PROVE  IInv'
<1>1. /\ Serving(c) /\ closing' = closing \cup {c} /\ Quiet /\ faults' \in 0 .. MaxFaults
      /\ UNCHANGED <<table, lock, leads, main, exec, broken>>
  BY BoundFacts, StillFacts DEF Close, Fault, IInv, Shape
<1>2. /\ c \in leads /\ main[c] = Idle
      /\ \A d \in Controllers : d # c => main[d] = Idle
  BY <1>1, ServingFacts, Alone
<1>3. Shape'
  BY <1>1 DEF IInv, Shape, table, Quiet
<1>4. OneLeader' /\ FollowersFit'
  BY <1>1, <1>2 DEF IInv, OneLeader, FollowersFit, table
<1>5. MainsFit'
  <2>1. ASSUME NEW d \in Controllers PROVE Fits(d, main[d], broken[d])'
    <3>1. Fits(d, main[d], broken[d])
      BY DEF IInv, MainsFit
    <3> QED BY <1>1, <3>1 DEF Fits, Writes, Followed, InState, Number, table
  <2> QED BY <2>1 DEF MainsFit
<1>6. Steady /\ RowsFit' /\ InBounds'
  BY <1>1, StillFacts, SteadyFacts, SteadyBounds DEF IInv, table
<1>7. PlacesFit'
  <2>1. \A j \in Jobs : Used(j) \in Int /\ Used(j)' \in Int /\ job[j].attempts \in Int
    BY <1>1 DEF IInv, Shape, Places, Rows, Used, Quiet
  <2>2. \A e \in exec : e.attempt \in Int /\ e.job \in Jobs
    BY DEF IInv, Shape, Threads
  <2>3. \A j \in Jobs : Used(j)' <= Used(j) /\ job'[j].attempts = job[j].attempts
    BY <1>1, <1>6 DEF Quiet, Steady
  <2> QED BY <1>1, <2>1, <2>2, <2>3 DEF IInv, PlacesFit
<1> QED BY <1>3, <1>4, <1>5, <1>6, <1>7 DEF IInv

-----------------------------------------------------------------------------
(* The invariant holds, and what follows from it.                          *)

\* It holds before the first request.
LEMMA InitIInv == Init => IInv
<1> SUFFICES ASSUME Init PROVE IInv
  OBVIOUS
<1>1. 0 \in 0 .. MaxClaims /\ 0 \in 0 .. MaxFaults
  BY BoundFacts
<1>2. /\ job \in [Jobs -> Rows] /\ \A j \in Jobs : job[j].state = "absent" /\ job[j].attempts = 0
  <2>1. [state |-> "absent", attempts |-> 0, cancel |-> FALSE] \in Rows
    BY <1>1 DEF Rows
  <2> QED BY <2>1 DEF Init
<1>3. /\ work \in [Jobs -> Places] /\ \A j \in Jobs : Used(j) = 0
  <2>1. [state |-> None, alive |-> FALSE, old |-> 0] \in Places
    BY <1>1 DEF Places
  <2> QED BY <2>1 DEF Init, Used
<1>4. /\ main \in [Controllers -> Mains] /\ broken \in [Controllers -> SUBSET Jobs]
      /\ \A c \in Controllers : main[c] = Idle /\ broken[c] = {}
  BY IdleFacts DEF Init
<1>5. Shape
  BY <1>1, <1>2, <1>3, <1>4 DEF Init, Shape
<1>6. OneLeader /\ FollowersFit /\ PlacesFit
  BY <1>2, <1>3, <1>4 DEF Init, OneLeader, FollowersFit, PlacesFit
<1>7. MainsFit
  BY <1>4, IdleFits DEF MainsFit, Init
<1>8. RowsFit
  BY <1>2, BoundFacts DEF RowsFit
<1>9. InBounds
  <2>1. Pending = {} /\ InState({"running"}) = {}
    BY <1>2 DEF Pending, InState, Live
  <2>2. IsFiniteSet({}) /\ Cardinality({}) = 0
    BY FS_EmptySet
  <2> QED BY <2>1, <2>2, BoundFacts DEF InBounds, Number, DetachedIsIdle
<1> QED BY <1>5, <1>6, <1>7, <1>8, <1>9 DEF IInv

\* Every step keeps it.
LEMMA NextInv == IInv /\ [Next]_vars => IInv'
<1> SUFFICES ASSUME IInv, [Next]_vars PROVE IInv'
  OBVIOUS
<1>1. ASSUME NEW c \in Controllers, Request(c) PROVE IInv'
  BY <1>1, SubmitInv, CancelJobInv, StopResourceInv, ResourceInv DEF Request
<1>2. ASSUME NEW c \in Controllers, MainStep(c) PROVE IInv'
  <2>1. ASSUME NEW t \in main[c].todo, FlagNext(c, t) \/ CancelNext(c, t) \/ Revoke(c, t)
        PROVE  IInv'
    BY <2>1, FlagNextInv, CancelNextInv, RevokeInv
  <2>2. ASSUME NEW j \in Jobs, TickClaim(c, j) \/ TickExpire(c, j) PROVE IInv'
    BY <2>2, TickClaimInv, TickExpireInv
  <2> QED BY <1>2, <2>1, <2>2, WriteNextInv, DoneInv, LeadInv DEF MainStep
<1>3. ASSUME NEW c \in Controllers,
             \/ Probe(c) \/ TickStart(c) \/ (\E j \in Jobs : Reap(c, j))
             \/ Acquire(c) \/ Crash(c) \/ Close(c) \/ Closed(c)
      PROVE  IInv'
  BY <1>3, ResourceInv, TickStartInv, ReapInv, AcquireInv, GoneInv, CloseInv
<1>4. ASSUME NEW e \in exec, ExecStep(e) \/ ExecRaises(e) PROVE IInv'
  <2>1. CASE ExecLeaves(e)
    <3>1. faults' \in 0 .. MaxFaults
      BY <2>1 DEF ExecLeaves, IInv, Shape
    <3> QED BY <2>1, <3>1, ThreadLeaves DEF ExecLeaves
  <2>2. CASE ExecRaises(e)
    <3>1. faults' \in 0 .. MaxFaults
      BY <2>2, BoundFacts DEF ExecRaises, Fault, IInv, Shape
    <3> QED BY <2>2, <3>1, ThreadLeaves DEF ExecRaises
  <2> QED BY <1>4, <2>1, <2>2, ExecStartInv, ExecPostInv, ExecPollInv, ExecSelectInv,
             ExecUpdateInv DEF ExecStep
<1>5. CASE WorkerRestarts \/ \E j \in Jobs : ProcessEnds(j) \/ OldProcessEnds(j)
  BY <1>5, WorkerInv
<1>6. CASE UNCHANGED vars
  <2>1. UNCHANGED <<job, resource, lock, leads, closing, main, exec, broken, work, faults>>
    BY <1>6 DEF vars
  <2>2. Shape' /\ OneLeader' /\ FollowersFit' /\ RowsFit' /\ PlacesFit'
    BY <2>1 DEF IInv, Shape, OneLeader, FollowersFit, RowsFit, PlacesFit, Used
  <2>3. InBounds'
    BY <2>1 DEF IInv, InBounds, DetachedIsIdle, Pending, InState, Number
  <2>4. ASSUME NEW c \in Controllers PROVE Fits(c, main[c], broken[c])'
    <3>1. Fits(c, main[c], broken[c])
      BY DEF IInv, MainsFit
    <3> QED BY <2>1, <3>1 DEF Fits, Writes, Followed, InState, Number
  <2> QED BY <2>2, <2>3, <2>4 DEF IInv, MainsFit
<1> QED BY <1>1, <1>2, <1>3, <1>4, <1>5, <1>6 DEF Next

\* The inductive invariant holds of every behaviour, whatever the jobs and controllers.
THEOREM InvariantHolds == Spec => []IInv
BY InitIInv, NextInv, PTL DEF Spec

\* The shapes; a place of the worker is given back once (start, _watch).
THEOREM ComputeJobsIsTyped == Spec => []TypeOK
<1>1. IInv => TypeOK
  BY DEF IInv, Shape, TypeOK, Rows, Mains, Threads, Places
<1> QED BY <1>1, InvariantHolds, PTL

\* A running job is in somebody's hands as long as a controller leads (execute, tick, promote).
THEOREM RunningJobsAreFollowed == Spec => []RunningIsFollowed
<1>1. IInv => RunningIsFollowed
  <2> SUFFICES ASSUME IInv, NEW j \in Jobs, job[j].state = "running",
                      NEW c \in leads \ closing
               PROVE  \/ \E e \in exec : e.job = j /\ e.attempt = job[j].attempts
                      \/ \E d \in leads : j \in broken[d] \/ (main[d].write # Nothing
                                                              /\ main[d].write[1] = j)
    BY DEF RunningIsFollowed, InState
  <2>1. c \in Controllers /\ Fits(c, main[c], broken[c])
    BY DEF IInv, Shape, MainsFit
  <2>2. Followed(j) \/ j \in broken[c] \/ Writes(main[c], j)
    BY <2>1 DEF Fits
  <2> QED BY <2>2 DEF Followed, Writes, IInv, FollowersFit
<1> QED BY <1>1, InvariantHolds, PTL

\* The bounds of the resource hold through retries and revoked jobs (submit, tick, finish).
THEOREM LimitsHold == Spec => []WithinLimits
<1>1. IInv => WithinLimits
  BY DEF IInv, InBounds, RowsFit, WithinLimits
<1> QED BY <1>1, InvariantHolds, PTL

\* Nothing is pending on a detached resource, and nothing comes back to it (action, finish).
THEOREM DetachedStaysIdle == Spec => []DetachedIsIdle
<1>1. IInv => DetachedIsIdle
  BY DEF IInv, InBounds
<1> QED BY <1>1, InvariantHolds, PTL

-----------------------------------------------------------------------------
(* ComputeJobs implements JobContract.                                     *)

\* A job goes from s to t: it is accepted, or one that is live goes on or ends.
Goes(s, t) == \/ s = t
              \/ s = "absent" /\ t = "queued"
              \/ s \in Live /\ t \in Live \cup Terminal

\* At most one job moves.
OneGoes(j) == /\ Goes(job[j].state, job'[j].state)
              /\ \A k \in Jobs : k # j => job'[k].state = job[k].state

\* A step that does not touch the rows, or only flags one, moves no job.
LEMMA SteadyGoes ==
    ASSUME IInv, UNCHANGED job \/ \E j \in Jobs : job' = [job EXCEPT ![j].cancel = TRUE]
    PROVE  \A k \in Jobs : job'[k].state = job[k].state
BY StillFacts DEF Steady

\* An update goes to a job that is live: a job that has ended is in nobody's hands, so no
\* late thread, no revoked attempt and no cancel can write over how it ended.
LEMMA NextGoes ==
    ASSUME IInv, [Next]_vars
    PROVE  \/ \A k \in Jobs : job'[k].state = job[k].state
           \/ \E j \in Jobs : OneGoes(j)
<1>1. ASSUME NEW j \in Jobs, NEW s, job' = [job EXCEPT ![j].state = s],
             \/ job[j].state = "absent" /\ s = "queued"
             \/ job[j].state \in Live /\ s \in Terminal \cup {"queued"}
      PROVE  OneGoes(j)
  <2>1. job' = [job EXCEPT ![j] = [job[j] EXCEPT !.state = s]] /\ job \in [Jobs -> Rows]
    BY <1>1 DEF IInv, Shape
  <2>2. job'[j].state = s /\ \A k \in Jobs : k # j => job'[k] = job[k]
    BY <2>1 DEF Rows
  <2> QED BY <1>1, <2>2 DEF OneGoes, Goes, Live
<1>2. ASSUME NEW c \in Controllers, NEW j \in Jobs, Submit(c, j) PROVE OneGoes(j)
  BY <1>1, <1>2 DEF Submit
<1>3. ASSUME NEW c \in Controllers, WriteNext(c) PROVE \E j \in Jobs : OneGoes(j)
  <2>1. PICK j \in Jobs, s \in Terminal \cup {"queued"} : main[c].write = <<j, s>>
    BY <1>3 DEF WriteNext, IInv, Shape, Mains
  <2>2. Fits(c, main[c], broken[c]) /\ Writes(main[c], j) /\ main[c] \in Mains
    BY <2>1, PairFacts DEF IInv, Shape, MainsFit, Writes
  <2>3. main[c].op # "idle"
    BY <2>2, IdleFacts DEF Fits, Writes
  <2>4. main[c].op \in {"tick", "cancel", "reap", "promote"}
    BY <2>2, <2>3 DEF Mains
  <2>5. job[j].state \in Live
    BY <2>2, <2>4 DEF Fits, Live
  <2>6. job' = [job EXCEPT ![j].state = s]
    BY <1>3, <2>1, PairFacts DEF WriteNext, Updated
  <2>7. OneGoes(j)
    BY <1>1, <2>5, <2>6
  <2> QED BY <2>7
<1>4. ASSUME NEW e \in exec, ExecUpdate(e) PROVE \E j \in Jobs : OneGoes(j)
  <2>1. PICK j \in Jobs, s \in Terminal \cup {"queued"} :
            e.job = j /\ e.to = s /\ job[j].state \in Live
    BY <1>4 DEF ExecUpdate, IInv, Shape, Threads, FollowersFit, Live
  <2>2. job' = [job EXCEPT ![j].state = s]
    BY <1>4, <2>1, PairFacts DEF ExecUpdate, Updated
  <2>3. OneGoes(j)
    BY <1>1, <2>1, <2>2
  <2> QED BY <2>3
<1>5. ASSUME NEW c \in Controllers, NEW j \in Jobs, TickClaim(c, j) PROVE OneGoes(j)
  <2> DEFINE r == [job[j] EXCEPT !.state = "running", !.attempts = @ + 1]
  <2>1. job' = [job EXCEPT ![j] = r] /\ job \in [Jobs -> Rows] /\ job[j].state = "queued"
    BY <1>5 DEF TickClaim, IInv, Shape
  <2>2. r.state = "running"
    BY <2>1 DEF Rows
  <2> HIDE DEF r
  <2>3. job'[j].state = "running" /\ \A k \in Jobs : k # j => job'[k] = job[k]
    BY <2>1, <2>2
  <2> QED BY <2>1, <2>3 DEF OneGoes, Goes, Live
<1>6. ASSUME NEW c \in Controllers, Request(c)
      PROVE  (\A k \in Jobs : job'[k].state = job[k].state) \/ \E j \in Jobs : OneGoes(j)
  <2>1. ASSUME NEW j \in Jobs, CancelJob(c, j) PROVE \A k \in Jobs : job'[k].state = job[k].state
    BY <2>1, SteadyGoes DEF CancelJob
  <2>2. CASE StopResource(c) \/ StartResource(c) \/ DeleteResource(c)
    BY <2>2 DEF StopResource, StartResource, DeleteResource
  <2> QED BY <1>2, <1>6, <2>1, <2>2 DEF Request
<1>7. ASSUME NEW c \in Controllers, MainStep(c)
      PROVE  (\A k \in Jobs : job'[k].state = job[k].state) \/ \E j \in Jobs : OneGoes(j)
  <2>1. ASSUME NEW t \in main[c].todo, FlagNext(c, t)
        PROVE  \A k \in Jobs : job'[k].state = job[k].state
    <3>1. t[1] \in Jobs
      BY DEF IInv, Shape, Mains
    <3> QED BY <2>1, <3>1, SteadyGoes DEF FlagNext
  <2>2. ASSUME NEW t \in main[c].todo, CancelNext(c, t) \/ Revoke(c, t) PROVE UNCHANGED job
    BY <2>2 DEF CancelNext, Revoke, table
  <2>3. CASE Done(c) \/ Lead(c) \/ TickEnd(c)
    BY <2>3 DEF Done, Lead, TickEnd, table
  <2>4. ASSUME NEW j \in Jobs, TickExpire(c, j) PROVE UNCHANGED job
    BY <2>4 DEF TickExpire, table
  <2> QED BY <1>3, <1>5, <1>7, <2>1, <2>2, <2>3, <2>4 DEF MainStep
<1>8. ASSUME NEW c \in Controllers,
             \/ Probe(c) \/ TickStart(c) \/ (\E j \in Jobs : Reap(c, j))
             \/ Acquire(c) \/ Crash(c) \/ Close(c) \/ Closed(c)
      PROVE  UNCHANGED job
  BY <1>8 DEF Probe, TickStart, Reap, Acquire, Crash, Close, Closed, table
<1>9. ASSUME NEW e \in exec, ExecStep(e) \/ ExecRaises(e)
      PROVE  UNCHANGED job \/ \E j \in Jobs : OneGoes(j)
  <2>1. CASE ExecStart(e) \/ ExecPost(e) \/ ExecPoll(e) \/ ExecSelect(e) \/ ExecLeaves(e)
             \/ ExecRaises(e)
    BY <2>1 DEF ExecStart, ExecPost, ExecPoll, ExecSelect, ExecLeaves, ExecRaises, table
  <2> QED BY <1>4, <1>9, <2>1 DEF ExecStep
<1>10. CASE UNCHANGED vars \/ WorkerRestarts \/ \E j \in Jobs : ProcessEnds(j) \/ OldProcessEnds(j)
  BY <1>10 DEF vars, WorkerRestarts, ProcessEnds, OldProcessEnds, table
<1> QED BY <1>6, <1>7, <1>8, <1>9, <1>10 DEF Next

\* The queue is what JobContract promises: a job is accepted once, and how it ended is
\* final, through restarts, retries, cancels and late answers.
THEOREM QueueKeepsContract == Spec => KeepsContract
<1>1. Init => Contract!Init
  BY DEF Init, Contract!Init, Status, Live
<1>2. IInv /\ [Next]_vars /\ IInv' => [Contract!Next]_Status
  <2> SUFFICES ASSUME IInv, [Next]_vars, job' \in [Jobs -> Rows]
               PROVE  [Contract!Next]_Status
    BY DEF IInv, Shape
  <2>1. CASE \A k \in Jobs : job'[k].state = job[k].state
    BY <2>1 DEF Status
  <2>2. ASSUME NEW j \in Jobs, OneGoes(j) PROVE [Contract!Next]_Status
    <3>1. /\ Status' = [Status EXCEPT ![j] = IF job'[j].state \in Live THEN "pending"
                                             ELSE job'[j].state]
          /\ Status[j] = IF job[j].state \in Live THEN "pending" ELSE job[j].state
      BY <2>2 DEF Status, OneGoes
    <3>2. CASE job[j].state = job'[j].state \/ (job[j].state \in Live /\ job'[j].state \in Live)
      BY <2>2, <3>2 DEF Status, OneGoes
    <3>3. CASE job[j].state = "absent" /\ job'[j].state = "queued"
      BY <3>1, <3>3 DEF Contract!Next, Contract!Accept, Live
    <3>4. CASE job[j].state \in Live /\ job'[j].state \in Terminal
      BY <3>1, <3>4 DEF Contract!Next, Contract!End, Contract!Outcomes, Terminal, Live
    <3> QED BY <2>2, <3>2, <3>3, <3>4 DEF OneGoes, Goes
  <2> QED BY <2>1, <2>2, NextGoes
<1> QED BY <1>1, <1>2, InvariantHolds, PTL DEF Spec, KeepsContract, Contract!Spec
=============================================================================
