--------------------------- MODULE DurableRunProofs ---------------------------
(***************************************************************************)
(* What holds of DurableRun for any program and any bounds.                *)
(***************************************************************************)
EXTENDS DurableRun, FiniteSetTheorems, TLAPS

-----------------------------------------------------------------------------
(* The inductive invariant.                                                *)
(*                                                                         *)
(* An attempt may act on what it read long ago, so the invariant says what  *)
(* its reading is still worth: a result stays what it was; the attempt that *)
(* holds the lease has read all that the journal says of the steps ahead of *)
(* it; and a step that is not safe to run twice is in the hands of at most  *)
(* one attempt, whose intent nobody can remove from the journal.            *)

\* The number of leases is charged to expiries, mail, retries and the waits whose signal
\* or deadline has come: no attempt goes to sleep on such a wait a second time.
Spent   == {s \in Waits : signal[s] # "none" \/ s \in late}
Charges == run.expired + run.mails + run.retries + Cardinality(Spent)

LeasesAreCharged ==
    /\ run.epoch <= 1 + Charges
    /\ run.status = "pending" => run.epoch <= Charges
    /\ run.status = "suspended" /\ run.wake \in Spent \cup {0} => run.epoch <= Charges
    /\ \A e \in Epoch : Fenced(e) /\ att[e].phase = "asleep" /\ At(e) \in Spent
                          => run.epoch <= Charges

PhasesFit ==
    \A e \in Epoch :
      /\ e > run.epoch => att[e].phase = "off"
      /\ att[e].phase \in {"body", "ok", "error", "stop", "doubt"} => At(e) \in Effects
      /\ att[e].phase = "listen" => At(e) \in Waits /\ Program[At(e)] = "ask"
      /\ att[e].phase \in {"heard", "asleep"} => At(e) \in Waits
      /\ att[e].phase = "heard" /\ att[e].value = TimedOut => Program[At(e)] = "ask"

WaitsLeaveNoEntry ==
    /\ \A s \in Step : Program[s] = "wait" => log[s] = Blank
    /\ \A s \in late : Program[s] = "ask"

FreshAhead ==
    \A e \in Epoch : Fenced(e) /\ att[e].phase \notin {"off", "leased", "raised", "gone"} =>
        \A s \in Step : s > At(e) \/ (s = At(e) /\ att[e].phase = "at")
                          => log[s] = att[e].known[s]

KnownIsTrue ==
    \A e \in Epoch, s \in Effects :
        att[e].known[s].state = "completed" => log[s] = att[e].known[s]

Executes(e, s) == At(e) = s /\ att[e].phase \in {"body", "ok", "error", "stop"}

ExecutedIsPending ==
    \A e \in Epoch, s \in Effects :
        Executes(e, s) /\ (Fenced(e) \/ Program[s] = "once") => log[s].state = "pending"

OneLicence ==
    \A s \in Step : Program[s] = "once" =>
        \A e, f \in Epoch : Executes(e, s) /\ Executes(f, s) => e = f

Accounts ==
    \A s \in Step : Program[s] = "once" =>
        /\ hist[s].started <= hist[s].undone + 1
        /\ log[s].state = "absent" => hist[s].started = hist[s].undone
        /\ \A e \in Epoch : At(e) = s /\ att[e].phase \in {"body", "error", "stop"}
                              => hist[s].started = hist[s].undone

AnswersAgree ==
    /\ \A s \in Effects : hist[s].told # {} =>
          log[s].state = "completed" /\ hist[s].told = {log[s].value}
    /\ \A s \in Step : Program[s] = "wait" => hist[s].told \subseteq {Heard}

AnsweredBefore ==
    /\ \A e \in Epoch, s \in Step : s < At(e) => hist[s].told # {}
    /\ run.status = "completed" => \A s \in Step : hist[s].told # {}

JournalInv ==
    /\ WaitsLeaveNoEntry /\ FreshAhead /\ KnownIsTrue /\ ExecutedIsPending
    /\ OneLicence /\ Accounts /\ AnswersAgree /\ AnsweredBefore

IInv == TypeOK /\ PhasesFit /\ LeasesAreCharged /\ JournalInv

-----------------------------------------------------------------------------
\* The steps of a program are numbers, each of one kind.
LEMMA ProgramFacts ==
    /\ Len(Program) \in Nat /\ Step = 1 .. Len(Program)
    /\ \A s \in Step : s \in Nat /\ s # 0 /\ Program[s] \in Kind
    /\ Effects \subseteq Step /\ Waits \subseteq Step
    /\ \A s \in Step : /\ s \in Effects <=> Program[s] \in {"once", "safe"}
                       /\ s \in Waits <=> Program[s] \in {"wait", "ask"}
BY ProgramAssumption DEF Step, Effects, Waits, Kind

\* There are finitely many waits, so finitely many leases.
LEMMA BoundFacts ==
    /\ MaxRetries \in Nat /\ MaxExpiries \in Nat /\ MaxMails \in Nat /\ MaxBlips \in Nat
    /\ IsFiniteSet(Waits) /\ Cardinality(Waits) \in Nat
    /\ MaxLease \in Nat /\ Epoch = 1 .. MaxLease
<1>1. IsFiniteSet(Step)
  BY ProgramFacts, FS_Interval
<1>2. IsFiniteSet(Waits) /\ Cardinality(Waits) \in Nat
  BY <1>1, FS_Subset, FS_CardinalityType DEF Waits
<1> QED BY <1>2, BoundAssumption DEF MaxLease, Epoch

\* What is charged to waits is at most one lease a wait.
LEMMA SpentFacts ==
    /\ IsFiniteSet(Spent) /\ Cardinality(Spent) \in Nat
    /\ Cardinality(Spent) <= Cardinality(Waits)
BY BoundFacts, FS_Subset, FS_CardinalityType DEF Spent

\* The attempts, as TypeOK has them.
Attempts == [Epoch -> [phase : Phase, at : 1 .. Len(Program) + 1,
                       value : {TimedOut, Heard}, known : [Step -> Entry]]]

\* Moving one attempt to a phase changes nothing else.
LEMMA ToFacts ==
    ASSUME att \in Attempts, NEW e \in Epoch, NEW phase \in Phase, To(e, phase)
    PROVE  /\ att' \in Attempts
           /\ att'[e].phase = phase /\ att'[e].at = att[e].at
           /\ att'[e].value = att[e].value /\ att'[e].known = att[e].known
           /\ \A f \in Epoch : f # e => att'[f] = att[f]
BY DEF Attempts, To

\* An answered step is behind the attempt, and counted among its answers.
LEMMA ReturnFacts ==
    ASSUME TypeOK, NEW e \in Epoch, At(e) \in Step, NEW v \in 0 .. MaxLease, Return(e, v)
    PROVE  /\ att' \in Attempts
           /\ att'[e].phase = "at" /\ att'[e].at = att[e].at + 1
           /\ att'[e].known = att[e].known
           /\ \A f \in Epoch : f # e => att'[f] = att[f]
           /\ hist' \in [Step -> [started : Nat, undone : Nat,
                                  told : SUBSET (0 .. MaxLease)]]
           /\ \A s \in Step :
                /\ hist'[s].started = hist[s].started /\ hist'[s].undone = hist[s].undone
                /\ hist'[s].told = IF s = At(e) THEN hist[s].told \cup {v}
                                   ELSE hist[s].told
<1>1. att \in Attempts /\ att[e].at + 1 \in 1 .. Len(Program) + 1 /\ "at" \in Phase
  BY ProgramFacts DEF TypeOK, Attempts, At, Phase
<1>2. hist[At(e)].told \cup {v} \in SUBSET (0 .. MaxLease)
  BY DEF TypeOK
<1>3. /\ att' \in Attempts
      /\ att'[e].phase = "at" /\ att'[e].at = att[e].at + 1 /\ att'[e].known = att[e].known
      /\ \A f \in Epoch : f # e => att'[f] = att[f]
  BY <1>1 DEF Attempts, Return
<1>4. hist \in [Step -> [started : Nat, undone : Nat, told : SUBSET (0 .. MaxLease)]]
  BY DEF TypeOK
<1>5. hist' = [hist EXCEPT ![At(e)].told = hist[At(e)].told \cup {v}]
  BY DEF Return
<1>6. hist' \in [Step -> [started : Nat, undone : Nat, told : SUBSET (0 .. MaxLease)]]
  BY <1>2, <1>4, <1>5
<1>7. \A s \in Step :
         /\ hist'[s].started = hist[s].started /\ hist'[s].undone = hist[s].undone
         /\ hist'[s].told = IF s = At(e) THEN hist[s].told \cup {v} ELSE hist[s].told
  BY <1>4, <1>5
<1> QED BY <1>3, <1>6, <1>7

-----------------------------------------------------------------------------
(* What keeps the journal's part of the invariant.                         *)

Quiet == {"gone", "raised", "doubt", "listen", "heard", "asleep"}

\* Attempts move on without executing anything, and nobody but a fresh lease gains the
\* right to commit.
LEMMA QuietJournal ==
    ASSUME JournalInv, log' = log, hist' = hist,
           \A s \in late' : Program[s] = "ask",
           \A e \in Epoch :
             /\ att'[e].at = att[e].at /\ att'[e].known = att[e].known
             /\ \/ att'[e].phase = att[e].phase
                \/ att'[e].phase \in {"leased", "raised", "gone"}
                \/ /\ att'[e].phase \in Quiet
                   /\ att[e].phase \notin {"off", "leased", "raised", "gone"}
             /\ Fenced(e)' => Fenced(e) \/ att'[e].phase = "leased",
           run'.status = "completed" => \/ run.status = "completed"
                                        \/ \A s \in Step : hist[s].told # {}
    PROVE  JournalInv'
<1>1. WaitsLeaveNoEntry' /\ KnownIsTrue' /\ AnswersAgree' /\ AnsweredBefore'
  BY DEF JournalInv, WaitsLeaveNoEntry, KnownIsTrue, AnswersAgree, AnsweredBefore, At
<1>2. FreshAhead'
  BY DEF JournalInv, FreshAhead, At, Quiet
<1>3. \A e \in Epoch, s \in Step :
        /\ Executes(e, s)' => Executes(e, s) /\ att'[e].phase = att[e].phase
        /\ At(e)' = s /\ att'[e].phase \in {"body", "error", "stop"}
             => At(e) = s /\ att[e].phase = att'[e].phase
  BY DEF Executes, At, Quiet
<1>4. ExecutedIsPending'
  <2> SUFFICES ASSUME NEW e \in Epoch, NEW s \in Effects, Executes(e, s)',
                      Fenced(e)' \/ Program[s] = "once"
               PROVE  log[s].state = "pending"
    BY DEF ExecutedIsPending
  <2>1. Executes(e, s) /\ (Fenced(e) \/ Program[s] = "once")
    BY <1>3, ProgramFacts DEF Executes
  <2> QED BY <2>1 DEF JournalInv, ExecutedIsPending
<1>5. OneLicence'
  BY <1>3 DEF JournalInv, OneLicence
<1>6. Accounts'
  BY <1>3 DEF JournalInv, Accounts
<1> QED BY <1>1, <1>2, <1>4, <1>5, <1>6 DEF JournalInv

\* An attempt that holds the lease writes what it knows of the step it stands at, and
\* stops executing it.
LEMMA WriteJournal ==
    ASSUME TypeOK, JournalInv, NEW e \in Epoch, Fenced(e), At(e) \in Step,
           Program[At(e)] # "wait", att[e].phase \notin {"off", "leased", "raised", "gone"},
           log[At(e)].state # "completed",
           Program[At(e)] = "once" => log[At(e)].state = "absent" \/ Executes(e, At(e)),
           NEW entry \in Entry, log' = [log EXCEPT ![At(e)] = entry],
           Program[At(e)] = "once" /\ entry.state = "absent"
              => hist[At(e)].started = hist[At(e)].undone,
           hist' = hist, run' = run, late' = late,
           att'[e].at = att[e].at, att'[e].known = att[e].known, att'[e].phase \in Quiet,
           \A f \in Epoch : f # e => att'[f] = att[f]
    PROVE  JournalInv'
<1> DEFINE a == At(e)
<1>1. /\ log'[a] = entry /\ \A s \in Step : s # a => log'[s] = log[s]
      /\ a \in Step
  BY DEF TypeOK
<1>2. \A f \in Epoch : f # e => ~Fenced(f)
  BY DEF Fenced
<1>3. \A f \in Epoch : /\ att'[f].at = att[f].at /\ att'[f].known = att[f].known
                       /\ Fenced(f)' = Fenced(f) /\ At(f)' = At(f)
                       /\ f # e => att'[f].phase = att[f].phase
  BY DEF Fenced, At
<1>4. \A f \in Epoch, s \in Step : Executes(f, s)' => Executes(f, s) /\ f # e
  BY <1>3 DEF Executes, Quiet
<1>5. \A f \in Epoch, s \in Step : Program[s] = "once" /\ Executes(f, s)' => s # a
  <2> SUFFICES ASSUME NEW f \in Epoch, NEW s \in Step, Program[s] = "once",
                      Executes(f, s), s = a
               PROVE  f = e
    BY <1>4
  <2>1. log[s].state = "pending"
    BY ProgramFacts DEF JournalInv, ExecutedIsPending
  <2>2. Executes(e, s)
    BY <2>1
  <2> QED BY <2>2 DEF JournalInv, OneLicence
<1> HIDE DEF a
<1>6. WaitsLeaveNoEntry'
  BY <1>1 DEF JournalInv, WaitsLeaveNoEntry, a
<1>7. FreshAhead'
  <2> SUFFICES ASSUME NEW f \in Epoch, Fenced(f), NEW s \in Step, att'[f].phase # "gone",
                      s > At(f) \/ (s = At(f) /\ att'[f].phase = "at")
               PROVE  log'[s] = att'[f].known[s]
    BY <1>3 DEF FreshAhead
  <2>1. f = e
    BY <1>2
  <2>2. s > a /\ s # a
    BY <2>1, <1>1, ProgramFacts DEF a, Quiet
  <2> QED BY <1>1, <1>3, <2>1, <2>2 DEF JournalInv, FreshAhead, a
<1>8. KnownIsTrue'
  <2> SUFFICES ASSUME NEW f \in Epoch, NEW s \in Effects,
                      att[f].known[s].state = "completed"
               PROVE  log'[s] = att[f].known[s]
    BY <1>3 DEF KnownIsTrue
  <2>1. log[s] = att[f].known[s]
    BY DEF JournalInv, KnownIsTrue
  <2> QED BY <1>1, <2>1, ProgramFacts DEF a
<1>9. ExecutedIsPending'
  <2> SUFFICES ASSUME NEW f \in Epoch, NEW s \in Effects, Executes(f, s)',
                      Fenced(f) \/ Program[s] = "once"
               PROVE  log'[s].state = "pending"
    BY <1>3 DEF ExecutedIsPending
  <2>1. Executes(f, s) /\ f # e /\ ~Fenced(f) /\ s \in Step
    BY <1>2, <1>4, ProgramFacts
  <2>2. log[s].state = "pending" /\ Program[s] = "once"
    BY <2>1 DEF JournalInv, ExecutedIsPending
  <2> QED BY <1>1, <1>5, <2>1, <2>2
<1>10. OneLicence'
  BY <1>4 DEF JournalInv, OneLicence
<1>11. Accounts'
  <2> SUFFICES ASSUME NEW s \in Step, Program[s] = "once"
               PROVE  /\ hist[s].started <= hist[s].undone + 1
                      /\ log'[s].state = "absent" => hist[s].started = hist[s].undone
                      /\ \A f \in Epoch :
                           At(f)' = s /\ att'[f].phase \in {"body", "error", "stop"}
                             => hist[s].started = hist[s].undone
    BY DEF Accounts
  <2>1. log'[s].state = "absent" => hist[s].started = hist[s].undone
    BY <1>1 DEF JournalInv, Accounts, a
  <2> QED BY <1>3, <2>1 DEF JournalInv, Accounts, Quiet
<1>12. AnswersAgree'
  <2>1. a \in Effects => hist[a].told = {}
    BY DEF JournalInv, AnswersAgree, a
  <2> QED BY <1>1, <2>1, ProgramFacts DEF JournalInv, AnswersAgree
<1>13. AnsweredBefore'
  BY <1>3 DEF JournalInv, AnsweredBefore
<1> QED BY <1>6, <1>7, <1>8, <1>9, <1>10, <1>11, <1>12, <1>13 DEF JournalInv

\* An attempt that holds the lease records that it begins a step, and begins it.
LEMMA IntendJournal ==
    ASSUME TypeOK, JournalInv, NEW e \in Epoch, Fenced(e), At(e) \in Effects,
           att[e].phase = "at", log[At(e)].state = "absent",
           NEW entry \in Entry, entry.state = "pending",
           log' = [log EXCEPT ![At(e)] = entry],
           hist' = hist, run' = run, late' = late,
           att'[e].at = att[e].at, att'[e].known = att[e].known, att'[e].phase = "body",
           \A f \in Epoch : f # e => att'[f] = att[f]
    PROVE  JournalInv'
<1> DEFINE a == At(e)
<1>1. /\ log'[a] = entry /\ \A s \in Step : s # a => log'[s] = log[s]
      /\ a \in Step /\ a \in Effects /\ Program[a] # "wait"
  BY ProgramFacts DEF TypeOK
<1>2. \A f \in Epoch : f # e => ~Fenced(f)
  BY DEF Fenced
<1>3. \A f \in Epoch : /\ att'[f].at = att[f].at /\ att'[f].known = att[f].known
                       /\ Fenced(f)' = Fenced(f) /\ At(f)' = At(f)
                       /\ f # e => att'[f].phase = att[f].phase
  BY DEF Fenced, At
<1>4. \A f \in Epoch, s \in Step :
          Executes(f, s)' => (f = e /\ s = a) \/ (f # e /\ Executes(f, s))
  BY <1>3 DEF Executes
<1>5. \A f \in Epoch, s \in Step : Program[s] = "once" /\ Executes(f, s) => s # a
  BY <1>1, ProgramFacts DEF JournalInv, ExecutedIsPending
<1> HIDE DEF a
<1>6. WaitsLeaveNoEntry'
  BY <1>1 DEF JournalInv, WaitsLeaveNoEntry
<1>7. FreshAhead'
  <2> SUFFICES ASSUME NEW f \in Epoch, Fenced(f), NEW s \in Step, att'[f].phase # "gone",
                      s > At(f) \/ (s = At(f) /\ att'[f].phase = "at")
               PROVE  log'[s] = att'[f].known[s]
    BY <1>3 DEF FreshAhead
  <2>1. f = e
    BY <1>2
  <2>2. s > a /\ s # a
    BY <2>1, <1>1, ProgramFacts DEF a
  <2> QED BY <1>1, <1>3, <2>1, <2>2 DEF JournalInv, FreshAhead, a
<1>8. KnownIsTrue'
  <2> SUFFICES ASSUME NEW f \in Epoch, NEW s \in Effects,
                      att[f].known[s].state = "completed"
               PROVE  log'[s] = att[f].known[s]
    BY <1>3 DEF KnownIsTrue
  <2>1. log[s] = att[f].known[s]
    BY DEF JournalInv, KnownIsTrue
  <2> QED BY <1>1, <2>1, ProgramFacts DEF a
<1>9. ExecutedIsPending'
  <2> SUFFICES ASSUME NEW f \in Epoch, NEW s \in Effects, Executes(f, s)',
                      Fenced(f) \/ Program[s] = "once"
               PROVE  log'[s].state = "pending"
    BY <1>3 DEF ExecutedIsPending
  <2>1. CASE s = a
    BY <1>1, <2>1
  <2>2. CASE s # a
    <3>1. Executes(f, s) /\ s \in Step
      BY <1>4, <2>2, ProgramFacts
    <3> QED BY <1>1, <2>2, <3>1 DEF JournalInv, ExecutedIsPending
  <2> QED BY <2>1, <2>2
<1>10. OneLicence'
  BY <1>4, <1>5 DEF JournalInv, OneLicence
<1>11. Accounts'
  <2> SUFFICES ASSUME NEW s \in Step, Program[s] = "once"
               PROVE  /\ hist[s].started <= hist[s].undone + 1
                      /\ log'[s].state = "absent" => hist[s].started = hist[s].undone
                      /\ \A f \in Epoch :
                           At(f)' = s /\ att'[f].phase \in {"body", "error", "stop"}
                             => hist[s].started = hist[s].undone
    BY DEF Accounts
  <2>1. s = a => hist[s].started = hist[s].undone
    BY DEF JournalInv, Accounts, a
  <2>2. log'[s].state = "absent" => hist[s].started = hist[s].undone
    BY <1>1, <2>1 DEF JournalInv, Accounts
  <2>3. \A f \in Epoch : At(f)' = s /\ att'[f].phase \in {"body", "error", "stop"} /\ s # a
                           => At(f) = s /\ att[f].phase = att'[f].phase
    BY <1>3 DEF a
  <2> QED BY <2>1, <2>2, <2>3 DEF JournalInv, Accounts
<1>12. AnswersAgree'
  <2>1. hist[a].told = {}
    BY <1>1 DEF JournalInv, AnswersAgree, a
  <2> QED BY <1>1, <2>1, ProgramFacts DEF JournalInv, AnswersAgree
<1>13. AnsweredBefore'
  BY <1>3 DEF JournalInv, AnsweredBefore
<1> QED BY <1>6, <1>7, <1>8, <1>9, <1>10, <1>11, <1>12, <1>13 DEF JournalInv

\* An attempt gets the answer of its step: one that the journal gave it, one that it has
\* just recorded under its lease, or one to a wait.
LEMMA ReturnJournal ==
    ASSUME TypeOK, JournalInv, NEW e \in Epoch, At(e) \in Step,
           att[e].phase \notin {"off", "leased", "raised", "gone"},
           NEW v \in 0 .. MaxLease, Return(e, v), run' = run, late' = late,
           \A s \in Step : s # At(e) => log'[s] = log[s],
           \/ log' = log
           \/ /\ Fenced(e) /\ At(e) \in Effects /\ Executes(e, At(e))
              /\ log[At(e)].state # "completed",
           At(e) \in Effects => log'[At(e)].state = "completed" /\ log'[At(e)].value = v,
           Program[At(e)] = "wait" => v = Heard
    PROVE  JournalInv'
<1> DEFINE a == At(e)
<1>1. /\ att'[e].phase = "at" /\ att'[e].at = a + 1 /\ att'[e].known = att[e].known
      /\ \A f \in Epoch : f # e => att'[f] = att[f]
      /\ \A s \in Step :
           /\ hist'[s].started = hist[s].started /\ hist'[s].undone = hist[s].undone
           /\ hist'[s].told = IF s = a THEN hist[s].told \cup {v} ELSE hist[s].told
  BY ReturnFacts DEF At
<1>2. /\ a \in Step /\ a \in Nat /\ \A s \in Step : s # a => log'[s] = log[s]
      /\ log'[a] # log[a] => /\ Fenced(e) /\ a \in Effects /\ Executes(e, a)
                             /\ log[a].state # "completed"
  BY ProgramFacts
<1>3. \A f \in Epoch : /\ att'[f].known = att[f].known /\ Fenced(f)' = Fenced(f)
                       /\ f # e => At(f)' = At(f) /\ att'[f].phase = att[f].phase
                       /\ f # e /\ Fenced(f) => ~Fenced(e)
      /\ At(e)' = a + 1
  BY <1>1 DEF Fenced, At
<1>4. \A f \in Epoch, s \in Step : Executes(f, s)' => f # e /\ Executes(f, s)
  BY <1>1, <1>3 DEF Executes
<1>5. \A f \in Epoch, s \in Step :
        Program[s] = "once" /\ Executes(f, s)' => s # a \/ log'[s] = log[s]
  <2> SUFFICES ASSUME NEW f \in Epoch, NEW s \in Step, Program[s] = "once",
                      Executes(f, s), f # e, s = a, log'[s] # log[s]
               PROVE  FALSE
    BY <1>4
  <2>1. Executes(e, s)
    BY <1>2
  <2> QED BY <2>1 DEF JournalInv, OneLicence
<1>6. a \in Effects => log'[a].state = "completed" /\ log'[a].value = v
  OBVIOUS
<1>7. Program[a] = "wait" => v = Heard /\ log'[a] = log[a]
  BY <1>2, ProgramFacts
<1> HIDE DEF a
<1>8. WaitsLeaveNoEntry'
  BY <1>2, <1>7 DEF JournalInv, WaitsLeaveNoEntry
<1>9. FreshAhead'
  <2> SUFFICES ASSUME NEW f \in Epoch, Fenced(f), NEW s \in Step,
                      att'[f].phase \notin {"off", "leased", "raised", "gone"},
                      s > At(f)' \/ (s = At(f)' /\ att'[f].phase = "at")
               PROVE  log'[s] = att'[f].known[s]
    BY <1>3 DEF FreshAhead
  <2>1. CASE f = e
    <3>1. s > a /\ s # a
      BY <1>2, <1>3, <2>1, ProgramFacts
    <3> QED BY <1>2, <1>3, <2>1, <3>1 DEF JournalInv, FreshAhead, a
  <2>2. CASE f # e
    <3>1. log'[s] = log[s]
      BY <1>2, <1>3, <2>2
    <3> QED BY <1>3, <2>2, <3>1 DEF JournalInv, FreshAhead
  <2> QED BY <2>1, <2>2
<1>10. KnownIsTrue'
  <2> SUFFICES ASSUME NEW f \in Epoch, NEW s \in Effects,
                      att[f].known[s].state = "completed"
               PROVE  log'[s] = att[f].known[s]
    BY <1>3 DEF KnownIsTrue
  <2>1. log[s] = att[f].known[s] /\ s \in Step
    BY ProgramFacts DEF JournalInv, KnownIsTrue
  <2> QED BY <1>2, <2>1
<1>11. ExecutedIsPending'
  <2> SUFFICES ASSUME NEW f \in Epoch, NEW s \in Effects, Executes(f, s)',
                      Fenced(f) \/ Program[s] = "once"
               PROVE  log'[s].state = "pending"
    BY <1>3 DEF ExecutedIsPending
  <2>1. Executes(f, s) /\ f # e /\ s \in Step
    BY <1>4, ProgramFacts
  <2>2. log[s].state = "pending"
    BY <2>1 DEF JournalInv, ExecutedIsPending
  <2>3. log'[s] = log[s]
    BY <1>2, <1>3, <1>5, <2>1
  <2> QED BY <2>2, <2>3
<1>12. OneLicence'
  BY <1>4 DEF JournalInv, OneLicence
<1>13. Accounts'
  <2> SUFFICES ASSUME NEW s \in Step, Program[s] = "once"
               PROVE  /\ hist[s].started <= hist[s].undone + 1
                      /\ log'[s].state = "absent" => hist[s].started = hist[s].undone
                      /\ \A f \in Epoch :
                           At(f)' = s /\ att'[f].phase \in {"body", "error", "stop"}
                             => hist[s].started = hist[s].undone
    BY <1>1 DEF Accounts
  <2>1. log'[s].state = "absent" => log[s].state = "absent"
    BY <1>2, <1>6
  <2>2. \A f \in Epoch : At(f)' = s /\ att'[f].phase \in {"body", "error", "stop"}
                           => At(f) = s /\ att[f].phase = att'[f].phase
    BY <1>1, <1>3
  <2> QED BY <2>1, <2>2 DEF JournalInv, Accounts
<1>14. AnswersAgree'
  <2>1. ASSUME NEW s \in Effects, hist'[s].told # {}
        PROVE  log'[s].state = "completed" /\ hist'[s].told = {log'[s].value}
    <3>1. CASE s = a
      <4>1. hist[a].told = {} \/ (log'[a] = log[a] /\ hist[a].told = {log[a].value})
        BY <1>2, <3>1 DEF JournalInv, AnswersAgree
      <4> QED BY <1>1, <1>2, <1>6, <3>1, <4>1
    <3>2. CASE s # a
      <4>1. s \in Step /\ hist'[s].told = hist[s].told /\ log'[s] = log[s]
        BY <1>1, <1>2, <3>2, ProgramFacts
      <4> QED BY <2>1, <4>1 DEF JournalInv, AnswersAgree
    <3> QED BY <3>1, <3>2
  <2>2. \A s \in Step : Program[s] = "wait" => hist'[s].told \subseteq {Heard}
    BY <1>1, <1>7 DEF JournalInv, AnswersAgree
  <2> QED BY <2>1, <2>2 DEF AnswersAgree
<1>15. AnsweredBefore'
  <2>1. ASSUME NEW f \in Epoch, NEW s \in Step, s < At(f)'
        PROVE  hist'[s].told # {}
    <3>1. CASE s = a
      BY <1>1, <3>1
    <3>2. CASE s # a
      <4>1. s < At(f)
        BY <1>2, <1>3, <2>1, <3>2, ProgramFacts DEF a
      <4> QED BY <1>1, <3>2, <4>1 DEF JournalInv, AnsweredBefore
    <3> QED BY <3>1, <3>2
  <2>2. run.status = "completed" => \A s \in Step : hist'[s].told # {}
    BY <1>1 DEF JournalInv, AnsweredBefore
  <2> QED BY <2>1, <2>2 DEF AnsweredBefore
<1> QED BY <1>8, <1>9, <1>10, <1>11, <1>12, <1>13, <1>14, <1>15 DEF JournalInv

\* An attempt that holds the lease reads the journal and starts from the top.
LEMMA BeginJournal ==
    ASSUME TypeOK, JournalInv, NEW e \in Epoch, att[e].phase = "leased", Fenced(e),
           att' = [att EXCEPT ![e].phase = "at", ![e].known = log],
           UNCHANGED <<run, log, hist, late>>
    PROVE  JournalInv'
<1>1. /\ att'[e].phase = "at" /\ att'[e].at = att[e].at /\ att'[e].known = log
      /\ \A f \in Epoch : f # e => att'[f] = att[f]
  BY DEF TypeOK
<1>2. \A f \in Epoch : /\ Fenced(f)' = Fenced(f) /\ At(f)' = At(f)
                       /\ f # e => ~Fenced(f)
  BY <1>1 DEF Fenced, At
<1>3. \A f \in Epoch, s \in Step : Executes(f, s)' => f # e /\ Executes(f, s)
  BY <1>1, <1>2 DEF Executes
<1>4. WaitsLeaveNoEntry' /\ FreshAhead' /\ KnownIsTrue'
  <2>1. WaitsLeaveNoEntry'
    BY DEF JournalInv, WaitsLeaveNoEntry
  <2>2. FreshAhead'
    BY <1>1, <1>2 DEF JournalInv, FreshAhead
  <2>3. KnownIsTrue'
    BY <1>1 DEF JournalInv, KnownIsTrue
  <2> QED BY <2>1, <2>2, <2>3
<1>5. ExecutedIsPending'
  BY <1>2, <1>3, ProgramFacts DEF JournalInv, ExecutedIsPending
<1>6. OneLicence'
  BY <1>3 DEF JournalInv, OneLicence
<1>7. Accounts'
  <2>1. \A f \in Epoch, s \in Step :
           At(f)' = s /\ att'[f].phase \in {"body", "error", "stop"}
             => At(f) = s /\ att[f].phase = att'[f].phase
    BY <1>1, <1>2
  <2> QED BY <2>1 DEF JournalInv, Accounts
<1>8. AnswersAgree' /\ AnsweredBefore'
  BY <1>1, <1>2 DEF JournalInv, AnswersAgree, AnsweredBefore
<1> QED BY <1>4, <1>5, <1>6, <1>7, <1>8 DEF JournalInv

\* A safe step in doubt is executed again, by whoever read that it was in doubt.
LEMMA ResumeJournal ==
    ASSUME TypeOK, JournalInv, NEW e \in Epoch, At(e) \in Step, Program[At(e)] = "safe",
           att[e].phase = "at", Kept(e).state = "pending", To(e, "body"),
           UNCHANGED <<run, log, hist, late>>
    PROVE  JournalInv'
<1>1. /\ att'[e].phase = "body" /\ att'[e].at = att[e].at
      /\ att'[e].known = att[e].known
      /\ \A f \in Epoch : f # e => att'[f] = att[f]
  BY DEF TypeOK, To
<1>2. \A f \in Epoch : Fenced(f)' = Fenced(f) /\ At(f)' = At(f)
  BY <1>1 DEF Fenced, At
<1>3. \A f \in Epoch, s \in Step :
          Executes(f, s)' => (f = e /\ s = At(e)) \/ (f # e /\ Executes(f, s))
  BY <1>1, <1>2 DEF Executes
<1>4. WaitsLeaveNoEntry' /\ KnownIsTrue' /\ AnswersAgree' /\ AnsweredBefore'
  BY <1>1, <1>2 DEF JournalInv, WaitsLeaveNoEntry, KnownIsTrue, AnswersAgree,
                    AnsweredBefore
<1>5. FreshAhead'
  BY <1>1, <1>2 DEF JournalInv, FreshAhead
<1>6. Fenced(e) => log[At(e)].state = "pending"
  BY DEF JournalInv, FreshAhead, Kept, At
<1>7. ExecutedIsPending'
  <2> SUFFICES ASSUME NEW f \in Epoch, NEW s \in Effects, Executes(f, s)',
                      Fenced(f) \/ Program[s] = "once"
               PROVE  log[s].state = "pending"
    BY <1>2 DEF ExecutedIsPending
  <2>1. s \in Step
    BY ProgramFacts
  <2> QED BY <1>3, <1>6, <2>1 DEF JournalInv, ExecutedIsPending
<1>8. OneLicence'
  BY <1>3 DEF JournalInv, OneLicence
<1>9. Accounts'
  <2>1. \A f \in Epoch, s \in Step : Program[s] = "once" /\
           At(f)' = s /\ att'[f].phase \in {"body", "error", "stop"}
             => At(f) = s /\ att[f].phase = att'[f].phase
    BY <1>1, <1>2
  <2> QED BY <2>1 DEF JournalInv, Accounts
<1> QED BY <1>4, <1>5, <1>7, <1>8, <1>9 DEF JournalInv

\* A body runs, and is counted: as begun, and as undone unless it returned.
LEMMA BodyJournal ==
    ASSUME TypeOK, JournalInv, NEW e \in Epoch, At(e) \in Effects, att[e].phase = "body",
           NEW how \in {"ok", "error", "stop"}, To(e, how),
           hist' = [hist EXCEPT ![At(e)].started = @ + 1,
                                ![At(e)].undone  = IF how = "ok" THEN @ ELSE @ + 1],
           UNCHANGED <<run, log, late>>
    PROVE  JournalInv'
<1> DEFINE a == At(e)
<1>1. /\ att'[e].phase = how /\ att'[e].at = att[e].at
      /\ att'[e].known = att[e].known
      /\ \A f \in Epoch : f # e => att'[f] = att[f]
  BY DEF TypeOK, To
<1>2. \A f \in Epoch : Fenced(f)' = Fenced(f) /\ At(f)' = At(f)
  BY <1>1 DEF Fenced, At
<1>3. \A f \in Epoch, s \in Step : Executes(f, s)' => Executes(f, s)
  BY <1>1, <1>2 DEF Executes
<1>4. /\ a \in Step
      /\ \A s \in Step : /\ hist'[s].told = hist[s].told
                         /\ s # a => hist'[s] = hist[s]
      /\ hist'[a].started = hist[a].started + 1
      /\ hist'[a].undone = IF how = "ok" THEN hist[a].undone ELSE hist[a].undone + 1
      /\ hist[a].started \in Nat /\ hist[a].undone \in Nat
  BY ProgramFacts DEF TypeOK
<1>5. /\ Program[a] = "once" => log[a].state = "pending"
      /\ Program[a] = "once" => hist[a].started = hist[a].undone
  BY <1>4 DEF JournalInv, ExecutedIsPending, Executes, Accounts
<1>6. \A f \in Epoch : Program[a] = "once" /\ At(f) = a
           /\ att[f].phase \in {"body", "ok", "error", "stop"} => f = e
  BY <1>4 DEF JournalInv, OneLicence, Executes
<1> HIDE DEF a
<1>7. WaitsLeaveNoEntry' /\ KnownIsTrue' /\ AnswersAgree' /\ AnsweredBefore'
  <2>1. \A s \in Step : hist'[s].told = hist[s].told
    BY <1>4
  <2>2. \A f \in Epoch : att'[f].known = att[f].known
    BY <1>1
  <2>3. WaitsLeaveNoEntry' /\ KnownIsTrue'
    BY <2>2 DEF JournalInv, WaitsLeaveNoEntry, KnownIsTrue
  <2>4. AnswersAgree'
    BY <2>1, ProgramFacts DEF JournalInv, AnswersAgree
  <2>5. AnsweredBefore'
    BY <1>2, <2>1 DEF JournalInv, AnsweredBefore
  <2> QED BY <2>3, <2>4, <2>5
<1>8. FreshAhead'
  BY <1>1, <1>2 DEF JournalInv, FreshAhead
<1>9. ExecutedIsPending' /\ OneLicence'
  BY <1>2, <1>3, ProgramFacts DEF JournalInv, ExecutedIsPending, OneLicence
<1>10. Accounts'
  <2> SUFFICES ASSUME NEW s \in Step, Program[s] = "once"
               PROVE  /\ hist'[s].started <= hist'[s].undone + 1
                      /\ log[s].state = "absent" => hist'[s].started = hist'[s].undone
                      /\ \A f \in Epoch :
                           At(f)' = s /\ att'[f].phase \in {"body", "error", "stop"}
                             => hist'[s].started = hist'[s].undone
    BY DEF Accounts
  <2>1. CASE s = a
    <3>1. \A f \in Epoch : At(f)' = s /\ att'[f].phase \in {"body", "error", "stop"}
                             => f = e
      BY <1>1, <1>2, <1>6, <2>1
    <3>2. log[s].state # "absent"
      BY <1>5, <2>1
    <3>3. hist'[s].started <= hist'[s].undone + 1
      BY <1>4, <1>5, <2>1
    <3>4. how # "ok" => hist'[s].started = hist'[s].undone
      BY <1>4, <1>5, <2>1
    <3> QED BY <1>1, <3>1, <3>2, <3>3, <3>4
  <2>2. CASE s # a
    <3>1. \A f \in Epoch : At(f)' = s /\ att'[f].phase \in {"body", "error", "stop"}
                             => At(f) = s /\ att[f].phase = att'[f].phase
      BY <1>1, <1>2, <2>2 DEF a
    <3> QED BY <1>4, <2>2, <3>1 DEF JournalInv, Accounts
  <2> QED BY <2>1, <2>2
<1> QED BY <1>7, <1>8, <1>9, <1>10 DEF JournalInv

-----------------------------------------------------------------------------
(* What keeps the rest of it.                                              *)

\* While the run's row does not change, only an attempt that goes to sleep matters to
\* what leases are charged to.
LEMMA StillCharged ==
    ASSUME LeasesAreCharged, run' = run, Spent' = Spent,
           \A e \in Epoch : att'[e].phase = "asleep" =>
              \/ att[e].phase = "asleep" /\ att'[e].at = att[e].at
              \/ At(e)' \notin Spent
    PROVE  LeasesAreCharged'
<1>1. Charges' = Charges
  BY DEF Charges
<1> QED BY <1>1 DEF LeasesAreCharged, Fenced, At

\* An attempt moves on without executing anything or writing to the run's row.
LEMMA QuietStep ==
    ASSUME IInv, NEW e \in Epoch, att[e].phase # "off",
           att' \in Attempts, att'[e].at = att[e].at, att'[e].known = att[e].known,
           \A f \in Epoch : f # e => att'[f] = att[f],
           att'[e].phase \in Quiet,
           \/ att'[e].phase \in {"raised", "gone"}
           \/ att[e].phase \notin {"leased", "raised", "gone"},
           att'[e].phase = "doubt" => At(e) \in Effects,
           att'[e].phase = "listen" => At(e) \in Waits /\ Program[At(e)] = "ask",
           att'[e].phase \in {"heard", "asleep"} => At(e) \in Waits,
           att'[e].phase = "heard" /\ att'[e].value = TimedOut => Program[At(e)] = "ask",
           att'[e].phase = "asleep" => At(e) \notin Spent,
           UNCHANGED <<run, log, late, hist>>, blips' \in 0 .. MaxBlips,
           signal' \in [Step -> {"none", "buffered", "claimed"}],
           \A s \in Step : signal'[s] = "none" <=> signal[s] = "none"
    PROVE  IInv'
<1>1. TypeOK'
  BY DEF IInv, TypeOK, Attempts
<1>2. PhasesFit'
  BY DEF IInv, PhasesFit, At, Quiet
<1>3. LeasesAreCharged'
  <2>1. Spent' = Spent
    BY ProgramFacts DEF Spent
  <2> QED BY <2>1, StillCharged DEF IInv, At
<1>4. JournalInv'
  <2>1. \A s \in late' : Program[s] = "ask"
    BY DEF IInv, JournalInv, WaitsLeaveNoEntry
  <2>2. \A f \in Epoch : Fenced(f)' = Fenced(f)
    BY DEF Fenced
  <2> QED BY <2>1, <2>2, QuietJournal DEF IInv
<1> QED BY <1>1, <1>2, <1>3, <1>4 DEF IInv

\* What an attempt does after its commit was refused or failed.
LEMMA StoppedStep ==
    ASSUME IInv, NEW e \in Epoch, att[e].phase \notin {"off", "leased", "gone"},
           NEW phase \in {"gone", "raised"}, Going(e, phase),
           UNCHANGED <<run, log, late, signal>>, blips' \in 0 .. MaxBlips
    PROVE  IInv'
<1>1. att \in Attempts /\ phase \in Phase /\ phase \in Quiet
  BY DEF IInv, TypeOK, Attempts, Phase, Quiet
<1>2. /\ att' \in Attempts
      /\ att'[e].phase = phase /\ att'[e].at = att[e].at
      /\ att'[e].known = att[e].known
      /\ \A f \in Epoch : f # e => att'[f] = att[f]
  BY <1>1, ToFacts DEF Going
<1>3. signal' \in [Step -> {"none", "buffered", "claimed"}] /\ UNCHANGED hist
  BY DEF IInv, TypeOK, Going
<1> QED BY <1>1, <1>2, <1>3, QuietStep

\* An attempt that holds the lease writes of the step it stands at, and then stops.
LEMMA WrittenStep ==
    ASSUME IInv, NEW e \in Epoch, Fenced(e), At(e) \in Step,
           Program[At(e)] # "wait", att[e].phase \notin {"off", "leased", "raised", "gone"},
           log[At(e)].state # "completed",
           Program[At(e)] = "once" => log[At(e)].state = "absent" \/ Executes(e, At(e)),
           NEW entry \in Entry, log' = [log EXCEPT ![At(e)] = entry],
           Program[At(e)] = "once" /\ entry.state = "absent"
              => hist[At(e)].started = hist[At(e)].undone,
           NEW phase \in {"gone", "raised", "listen"}, Going(e, phase),
           phase = "listen" => Program[At(e)] = "ask",
           UNCHANGED <<run, late, signal>>, blips' \in 0 .. MaxBlips
    PROVE  IInv'
<1>1. att \in Attempts /\ phase \in Phase /\ phase \in Quiet
  BY DEF IInv, TypeOK, Attempts, Phase, Quiet
<1>2. /\ att' \in Attempts
      /\ att'[e].phase = phase /\ att'[e].at = att[e].at
      /\ att'[e].known = att[e].known
      /\ \A f \in Epoch : f # e => att'[f] = att[f]
  BY <1>1, ToFacts DEF Going
<1>3. TypeOK'
  BY <1>2 DEF IInv, TypeOK, Attempts, Going
<1>4. PhasesFit'
  BY <1>2, ProgramFacts DEF IInv, PhasesFit, At
<1>5. LeasesAreCharged'
  <2>1. Spent' = Spent
    BY DEF Spent
  <2> QED BY <1>2, <2>1, StillCharged DEF IInv, At
<1>6. JournalInv'
  BY <1>1, <1>2, WriteJournal DEF IInv, Going
<1> QED BY <1>3, <1>4, <1>5, <1>6 DEF IInv

\* An attempt gets an answer.
LEMMA ReturnedStep ==
    ASSUME IInv, NEW e \in Epoch, At(e) \in Step,
           att[e].phase \notin {"off", "leased", "raised", "gone"},
           NEW v \in 0 .. MaxLease, Return(e, v), UNCHANGED <<run, late, signal>>,
           blips' \in 0 .. MaxBlips, log' \in [Step -> Entry],
           \A s \in Step : s # At(e) => log'[s] = log[s],
           \/ log' = log
           \/ /\ Fenced(e) /\ At(e) \in Effects /\ Executes(e, At(e))
              /\ log[At(e)].state # "completed",
           At(e) \in Effects => log'[At(e)].state = "completed" /\ log'[At(e)].value = v,
           Program[At(e)] = "wait" => v = Heard
    PROVE  IInv'
<1>1. /\ att' \in Attempts
      /\ att'[e].phase = "at"
      /\ \A f \in Epoch : f # e => att'[f] = att[f]
      /\ hist' \in [Step -> [started : Nat, undone : Nat, told : SUBSET (0 .. MaxLease)]]
  BY ReturnFacts DEF IInv
<1>2. TypeOK'
  BY <1>1 DEF IInv, TypeOK, Attempts
<1>3. PhasesFit'
  BY <1>1 DEF IInv, PhasesFit, At
<1>4. LeasesAreCharged'
  <2>1. Spent' = Spent
    BY DEF Spent
  <2> QED BY <1>1, <2>1, StillCharged DEF IInv, At
<1>5. JournalInv'
  BY ReturnJournal DEF IInv
<1> QED BY <1>2, <1>3, <1>4, <1>5 DEF IInv

\* A body begins or ends: only the phase of its attempt, the journal's word on its step
\* and the count of what it did may have changed.
LEMMA BodyStep ==
    ASSUME IInv, NEW e \in Epoch, att[e].phase # "off", At(e) \in Effects,
           NEW phase \in {"body", "ok", "error", "stop"}, To(e, phase),
           UNCHANGED <<run, late, signal>>, blips' \in 0 .. MaxBlips,
           log' \in [Step -> Entry],
           hist' \in [Step -> [started : Nat, undone : Nat, told : SUBSET (0 .. MaxLease)]],
           JournalInv'
    PROVE  IInv'
<1>1. att \in Attempts /\ phase \in Phase
  BY DEF IInv, TypeOK, Attempts, Phase
<1>2. /\ att' \in Attempts
      /\ att'[e].phase = phase /\ att'[e].at = att[e].at
      /\ \A f \in Epoch : f # e => att'[f] = att[f]
  BY <1>1, ToFacts
<1>3. TypeOK'
  BY <1>2 DEF IInv, TypeOK, Attempts
<1>4. PhasesFit'
  BY <1>2 DEF IInv, PhasesFit, At
<1>5. LeasesAreCharged'
  <2>1. Spent' = Spent
    BY DEF Spent
  <2> QED BY <1>2, <2>1, StillCharged DEF IInv, At
<1> QED BY <1>3, <1>4, <1>5 DEF IInv

Rows == [status  : {"pending", "running", "suspended"} \cup Ended,
         epoch   : 0 .. MaxLease,
         retries : 0 .. MaxRetries,
         expired : 0 .. MaxExpiries,
         mails   : 0 .. MaxMails,
         wake    : 0 .. Len(Program)]

\* An attempt that holds the lease gives it up with what its run is to be.
LEMMA EndedStep ==
    ASSUME IInv, NEW e \in Epoch, Fenced(e), att[e].phase \notin {"off", "leased", "gone"},
           NEW phase \in {"gone", "raised"}, Going(e, phase),
           UNCHANGED <<log, late, signal>>, blips' \in 0 .. MaxBlips,
           NEW row \in Rows, run' = row, row.epoch = run.epoch, row.status # "running",
           row.expired = run.expired, row.mails = run.mails,
           row.epoch <= 1 + row.expired + row.mails + row.retries + Cardinality(Spent),
           row.status = "pending" \/ (row.status = "suspended" /\ row.wake \in Spent \cup {0})
              => row.epoch <= row.expired + row.mails + row.retries + Cardinality(Spent),
           row.status = "completed" => \A s \in Step : hist[s].told # {}
    PROVE  IInv'
<1>1. att \in Attempts /\ phase \in Phase /\ phase \in Quiet
  BY DEF IInv, TypeOK, Attempts, Phase, Quiet
<1>2. /\ att' \in Attempts
      /\ att'[e].phase = phase /\ att'[e].at = att[e].at
      /\ att'[e].known = att[e].known
      /\ \A f \in Epoch : f # e => att'[f] = att[f]
      /\ UNCHANGED hist
  BY <1>1, ToFacts DEF Going
<1>3. TypeOK'
  BY <1>2 DEF IInv, TypeOK, Attempts, Rows
<1>4. PhasesFit'
  BY <1>2 DEF IInv, PhasesFit, At
<1>5. LeasesAreCharged'
  <2>1. Spent' = Spent
    BY DEF Spent
  <2>2. Charges' = row.expired + row.mails + row.retries + Cardinality(Spent)
    BY <2>1 DEF Charges
  <2>3. /\ row.expired \in Nat /\ row.mails \in Nat /\ row.retries \in Nat
        /\ Cardinality(Spent) \in Nat
    BY SpentFacts, BoundFacts DEF Rows
  <2>4. 1 + Charges' = 1 + row.expired + row.mails + row.retries + Cardinality(Spent)
    BY <2>2, <2>3
  <2>5. \A f \in Epoch : ~Fenced(f)'
    BY DEF Fenced
  <2> QED BY <2>1, <2>2, <2>4, <2>5 DEF LeasesAreCharged
<1>6. JournalInv'
  <2>1. \A s \in late' : Program[s] = "ask"
    BY DEF IInv, JournalInv, WaitsLeaveNoEntry
  <2>2. \A f \in Epoch : ~Fenced(f)'
    BY DEF Fenced
  <2> QED BY <1>1, <1>2, <2>1, <2>2, QuietJournal DEF IInv
<1> QED BY <1>3, <1>4, <1>5, <1>6 DEF IInv

\* A commit that ends an attempt took place, or left everything but the attempt alone.
LEMMA CommitEndCases ==
    ASSUME IInv, NEW e \in Epoch, NEW row, NEW next \in {"gone", "raised"},
           CommitEnd(e, row, next)
    PROVE  /\ UNCHANGED <<log, late, signal>> /\ blips' \in 0 .. MaxBlips
           /\ \E phase \in {"gone", "raised"} :
                /\ Going(e, phase)
                /\ UNCHANGED run \/ (Fenced(e) /\ run' = row)
<1>1. blips \in 0 .. MaxBlips
  BY DEF IInv, TypeOK
<1>2. blips' \in 0 .. MaxBlips
  BY <1>1, BoundFacts DEF CommitEnd, Commit
<1> QED BY <1>2 DEF CommitEnd, Commit

\* A commit that writes what an attempt did took place, and the attempt went on or
\* believes it did not; or it did not take place, and the attempt stopped.
LEMMA CommitLogCases ==
    ASSUME IInv, NEW e \in Epoch, NEW entry, NEW ACTION goOn,
           NEW next \in {"gone", "raised"}, CommitLog(e, entry, goOn, next)
    PROVE  /\ UNCHANGED <<run, late, signal>> /\ blips' \in 0 .. MaxBlips
           /\ \/ Fenced(e) /\ log' = [log EXCEPT ![At(e)] = entry] /\ goOn
              \/ \E phase \in {"gone", "raised"} :
                   /\ Going(e, phase)
                   /\ \/ UNCHANGED log
                      \/ Fenced(e) /\ log' = [log EXCEPT ![At(e)] = entry]
<1>1. blips \in 0 .. MaxBlips
  BY DEF IInv, TypeOK
<1>2. blips' \in 0 .. MaxBlips
  BY <1>1, BoundFacts DEF CommitLog, Commit
<1> QED BY <1>2 DEF CommitLog, Commit

-----------------------------------------------------------------------------
(* The actions.                                                            *)

\* What the invariant says of an attempt that is under way.
LEMMA AttemptFacts ==
    ASSUME IInv, NEW e \in Epoch
    PROVE  /\ att \in Attempts /\ log \in [Step -> Entry]
           /\ signal \in [Step -> {"none", "buffered", "claimed"}]
           /\ hist \in [Step -> [started : Nat, undone : Nat, told : SUBSET (0 .. MaxLease)]]
           /\ run \in Rows /\ blips \in 0 .. MaxBlips
           /\ At(e) \in 1 .. Len(Program) + 1 /\ At(e) \in Nat
           /\ Fenced(e) /\ att[e].phase = "at" /\ At(e) \in Step =>
                Kept(e) = log[At(e)]
           /\ Blank \in Entry /\ [state |-> "pending", value |-> 0] \in Entry
           /\ [state |-> "completed", value |-> 0] \in Entry
           /\ [state |-> "completed", value |-> e] \in Entry
<1>1. /\ att \in Attempts /\ log \in [Step -> Entry]
      /\ signal \in [Step -> {"none", "buffered", "claimed"}]
      /\ hist \in [Step -> [started : Nat, undone : Nat, told : SUBSET (0 .. MaxLease)]]
      /\ run \in Rows /\ blips \in 0 .. MaxBlips
  BY DEF IInv, TypeOK, Attempts, Rows
<1>2. At(e) \in 1 .. Len(Program) + 1 /\ At(e) \in Nat
  BY <1>1, ProgramFacts DEF Attempts, At
<1>3. Fenced(e) /\ att[e].phase = "at" /\ At(e) \in Step => Kept(e) = log[At(e)]
  BY DEF IInv, JournalInv, FreshAhead, Kept
<1>4. 0 \in 0 .. MaxLease /\ e \in 0 .. MaxLease
  BY BoundFacts
<1> QED BY <1>1, <1>2, <1>3, <1>4 DEF Blank, Entry

\* The first lease of an attempt: one of those charged for.
LEMMA LeaseInv ==
    ASSUME IInv, Lease
    PROVE  IInv'
<1> DEFINE e == run.epoch + 1
<1>1. /\ run \in Rows /\ run.epoch <= Charges /\ run.status = "pending"
      /\ run' = [run EXCEPT !.status = "running", !.epoch = @ + 1]
      /\ UNCHANGED <<log, signal, late, blips, hist>>
  BY DEF IInv, TypeOK, Rows, LeasesAreCharged, Lease
<1>2. /\ run.expired \in Nat /\ run.mails \in Nat /\ run.retries \in Nat /\ run.epoch \in Nat
      /\ run.expired <= MaxExpiries /\ run.mails <= MaxMails /\ run.retries <= MaxRetries
  BY <1>1, BoundFacts DEF Rows
<1>3. e \in 0 .. MaxLease /\ e \in Epoch
  <2>1. run.epoch <= run.expired + run.mails + run.retries + Cardinality(Spent)
    BY <1>1 DEF Charges
  <2>2. 1 + run.epoch <= 1 + MaxExpiries + MaxMails + MaxRetries + Cardinality(Waits)
    <3>1. PICK x \in Nat, m \in Nat, r \in Nat, s \in Nat, w \in Nat :
             /\ x = run.expired /\ m = run.mails /\ r = run.retries
             /\ s = Cardinality(Spent) /\ w = Cardinality(Waits) /\ s <= w
      BY <1>2, SpentFacts, BoundFacts
    <3>2. MaxExpiries \in Nat /\ MaxMails \in Nat /\ MaxRetries \in Nat
      BY BoundFacts
    <3>3. x <= MaxExpiries /\ m <= MaxMails /\ r <= MaxRetries
      BY <1>2, <3>1
    <3>4. x + m + r + s <= MaxExpiries + MaxMails + MaxRetries + w
      BY <3>1, <3>2, <3>3
    <3>5. run.epoch \in Nat /\ run.epoch <= x + m + r + s
      BY <1>2, <2>1, <3>1
    <3>6. 1 + run.epoch <= 1 + MaxExpiries + MaxMails + MaxRetries + w
      BY <3>1, <3>2, <3>4, <3>5
    <3> QED BY <3>1, <3>6
  <2>3. MaxLease \in Nat /\ Epoch = 1 .. MaxLease
    BY BoundFacts
  <2>4. run.epoch + 1 <= MaxLease /\ run.epoch \in Nat
    BY <1>2, <2>2, <2>3 DEF MaxLease
  <2> QED BY <2>3, <2>4
<1>4. /\ run' \in Rows /\ run'.epoch = e /\ run'.status = "running"
      /\ run'.expired = run.expired /\ run'.mails = run.mails /\ run'.retries = run.retries
  <2>1. run' = [run EXCEPT !.status = "running", !.epoch = e]
    BY <1>1
  <2> HIDE DEF e
  <2> QED BY <1>1, <1>3, <2>1 DEF Rows
<1>5. att \in Attempts /\ "leased" \in Phase
  BY DEF IInv, TypeOK, Attempts, Phase
<1>6. To(e, "leased")
  BY DEF Lease
<1> HIDE DEF e
<1>7. /\ att' \in Attempts
      /\ att'[e].phase = "leased" /\ att'[e].at = att[e].at /\ att'[e].known = att[e].known
      /\ \A f \in Epoch : f # e => att'[f] = att[f]
  BY <1>3, <1>5, <1>6, ToFacts
<1>8. TypeOK'
  BY <1>1, <1>4, <1>7 DEF IInv, TypeOK, Attempts, Rows
<1>9. PhasesFit'
  <2>1. \A f \in Epoch : f > run'.epoch => f # e /\ f > run.epoch
    BY <1>2, <1>4, BoundFacts DEF e
  <2> QED BY <1>7, <2>1 DEF IInv, PhasesFit, At
<1>10. LeasesAreCharged'
  <2>1. Spent' = Spent
    BY <1>1 DEF Spent
  <2>2. Charges' = Charges /\ Charges \in Nat
    BY <1>2, <1>4, <2>1, SpentFacts DEF Charges
  <2>3. e <= 1 + Charges'
    BY <1>1, <1>2, <2>2 DEF e
  <2>4. \A f \in Epoch : Fenced(f)' => att'[f].phase # "asleep"
    BY <1>4, <1>7 DEF Fenced
  <2> QED BY <1>4, <2>3, <2>4 DEF LeasesAreCharged
<1>11. JournalInv'
  <2>1. \A f \in Epoch : Fenced(f)' => att'[f].phase = "leased"
    BY <1>4, <1>7 DEF Fenced
  <2>2. \A f \in Epoch : att'[f].at = att[f].at /\ att'[f].known = att[f].known
    BY <1>7
  <2>3. \A s \in late' : Program[s] = "ask"
    BY <1>1 DEF IInv, JournalInv, WaitsLeaveNoEntry
  <2> QED BY <1>1, <1>4, <1>7, <2>1, <2>2, <2>3, QuietJournal DEF IInv
<1> QED BY <1>8, <1>9, <1>10, <1>11 DEF IInv

\* The queue and the world move the run's row, a signal or a deadline, and no attempt.
LEMMA WorldStep ==
    ASSUME IInv, UNCHANGED <<att, log, hist, blips>>, run' \in Rows,
           run'.epoch = run.epoch, run'.status = "running" => run.status = "running",
           run'.status = "completed" => run.status = "completed",
           signal' \in [Step -> {"none", "buffered", "claimed"}],
           late' \subseteq Waits, \A s \in late' : Program[s] = "ask",
           LeasesAreCharged'
    PROVE  IInv'
<1>1. TypeOK'
  BY DEF IInv, TypeOK, Rows
<1>2. PhasesFit'
  BY DEF IInv, PhasesFit, At
<1>3. \A f \in Epoch : Fenced(f)' => Fenced(f)
  BY DEF Fenced
<1>4. JournalInv'
  BY <1>3, QuietJournal DEF IInv
<1> QED BY <1>1, <1>2, <1>4 DEF IInv

\* What a step of the world pays for when it makes the run pending.
LEMMA ChargedStep ==
    ASSUME IInv, UNCHANGED att, run' \in Rows, run'.epoch = run.epoch,
           run'.status = "running" => run.status = "running",
           run'.status = "suspended" => run.status = "suspended" /\ run'.wake = run.wake,
           Charges' \in Nat,
           \/ Charges' >= 1 + Charges
           \/ /\ Charges' >= Charges /\ Spent' = Spent
              /\ run'.status = "pending" => run.epoch <= Charges
    PROVE  LeasesAreCharged'
<1>1. /\ run.epoch \in Nat /\ Charges \in Nat /\ run.epoch <= 1 + Charges
  <2>1. run.expired \in Nat /\ run.mails \in Nat /\ run.retries \in Nat /\ run.epoch \in Nat
    BY BoundFacts DEF IInv, TypeOK
  <2> QED BY <2>1, SpentFacts DEF Charges, IInv, LeasesAreCharged
<1>2. CASE Charges' >= 1 + Charges
  <2>1. run.epoch <= Charges' /\ run.epoch <= 1 + Charges'
    BY <1>1, <1>2
  <2> QED BY <2>1 DEF LeasesAreCharged
<1>3. CASE /\ Charges' >= Charges /\ Spent' = Spent
           /\ run'.status = "pending" => run.epoch <= Charges
  <2>1. run.epoch <= Charges => run.epoch <= Charges'
    BY <1>1, <1>3
  <2>2. run.epoch <= 1 + Charges'
    BY <1>1, <1>3
  <2>3. \A e \in Epoch : Fenced(e)' => Fenced(e)
    BY DEF Fenced
  <2> QED BY <1>3, <2>1, <2>2, <2>3 DEF IInv, LeasesAreCharged, At
<1> QED BY <1>2, <1>3

\* The charges, spelt out for the arithmetic.
LEMMA ChargesFacts ==
    ASSUME IInv
    PROVE  /\ run.expired \in Nat /\ run.mails \in Nat /\ run.retries \in Nat
           /\ run.epoch \in Nat /\ Cardinality(Spent) \in Nat /\ Charges \in Nat
           /\ Charges = run.expired + run.mails + run.retries + Cardinality(Spent)
           /\ run.epoch <= 1 + Charges
<1>1. /\ run.expired \in Nat /\ run.mails \in Nat /\ run.retries \in Nat
      /\ run.epoch \in Nat
  BY BoundFacts DEF IInv, TypeOK
<1> QED BY <1>1, SpentFacts DEF Charges, IInv, LeasesAreCharged

\* A lease that expires is charged to itself, a delivery that wakes the run too.
LEMMA ExpireOrMailInv ==
    ASSUME IInv, Expire \/ MailArrives
    PROVE  IInv'
<1>1. run \in Rows /\ run.expired \in Nat /\ run.mails \in Nat
  BY ChargesFacts DEF IInv, TypeOK, Rows
<1>2. /\ run' \in Rows /\ run'.epoch = run.epoch /\ run'.status = "pending"
      /\ run'.retries = run.retries
      /\ \/ run'.expired = run.expired + 1 /\ run'.mails = run.mails
         \/ run'.expired = run.expired /\ run'.mails = run.mails + 1
      /\ UNCHANGED <<log, signal, late, att, blips, hist>>
  <2>1. CASE Expire
    <3>1. run.expired + 1 \in 0 .. MaxExpiries
      BY <1>1, <2>1, BoundFacts DEF Expire
    <3> QED BY <1>1, <2>1, <3>1 DEF Expire, Rows
  <2>2. CASE MailArrives
    <3>1. run.mails + 1 \in 0 .. MaxMails
      BY <1>1, <2>2, BoundFacts DEF MailArrives
    <3> QED BY <1>1, <2>2, <3>1 DEF MailArrives, Rows
  <2> QED BY <2>1, <2>2
<1>3. Spent' = Spent
  BY <1>2 DEF Spent
<1>4. Charges' = run'.expired + run'.mails + run'.retries + Cardinality(Spent)
  BY <1>3 DEF Charges
<1>5. Charges' \in Nat /\ Charges' >= 1 + Charges
  BY <1>2, <1>4, ChargesFacts
<1>6. LeasesAreCharged'
  BY <1>2, <1>5, ChargedStep
<1>7. /\ signal \in [Step -> {"none", "buffered", "claimed"}]
      /\ late \subseteq Waits /\ \A s \in late : Program[s] = "ask"
  BY DEF IInv, TypeOK, JournalInv, WaitsLeaveNoEntry
<1> QED BY <1>2, <1>6, <1>7, WorldStep

\* A timer that fires is that of a retry or of a wait whose deadline has come: both have
\* been charged.
LEMMA TimerFiresInv ==
    ASSUME IInv, TimerFires
    PROVE  IInv'
<1>1. run \in Rows
  BY DEF IInv, TypeOK, Rows
<1>2. /\ run' \in Rows /\ run'.epoch = run.epoch /\ run'.status = "pending"
      /\ run'.retries = run.retries /\ run'.expired = run.expired
      /\ run'.mails = run.mails
      /\ UNCHANGED <<log, signal, late, att, blips, hist>>
  BY <1>1 DEF TimerFires, Rows
<1>3. Spent' = Spent /\ Charges' = Charges
  BY <1>2 DEF Spent, Charges
<1>4. /\ signal \in [Step -> {"none", "buffered", "claimed"}]
      /\ late \subseteq Waits /\ \A s \in late : Program[s] = "ask"
  BY DEF IInv, TypeOK, JournalInv, WaitsLeaveNoEntry
<1>5. run.epoch <= Charges
  BY <1>4 DEF TimerFires, IInv, LeasesAreCharged, Spent
<1>6. LeasesAreCharged'
  BY <1>2, <1>3, <1>5, ChargesFacts, ChargedStep
<1> QED BY <1>2, <1>4, <1>6, WorldStep

\* A signal or a deadline that comes is charged to its wait, unless the other one has
\* come before.
LEMMA SignalOrDeadlineInv ==
    ASSUME IInv, NEW s \in Step, SignalArrives(s) \/ DeadlinePasses(s)
    PROVE  IInv'
<1>1. /\ run \in Rows /\ signal \in [Step -> {"none", "buffered", "claimed"}]
      /\ late \subseteq Waits /\ \A x \in late : Program[x] = "ask"
  BY DEF IInv, TypeOK, Rows, JournalInv, WaitsLeaveNoEntry
<1>2. /\ s \in Waits /\ UNCHANGED <<log, att, blips, hist>>
      /\ signal' \in [Step -> {"none", "buffered", "claimed"}]
      /\ Spent' = Spent \cup {s}
  <2>1. CASE SignalArrives(s)
    BY <1>1, <2>1 DEF SignalArrives, Spent
  <2>2. CASE DeadlinePasses(s)
    BY <1>1, <2>2 DEF DeadlinePasses, Spent
  <2> QED BY <2>1, <2>2
<1>3. late' \subseteq Waits /\ \A x \in late' : Program[x] = "ask"
  <2>1. CASE SignalArrives(s)
    BY <1>1, <2>1 DEF SignalArrives
  <2>2. CASE DeadlinePasses(s)
    <3>1. Program[s] # "wait"
      BY <2>2 DEF DeadlinePasses, IInv, JournalInv, WaitsLeaveNoEntry, Blank
    <3>2. Program[s] = "ask"
      BY <1>2, <3>1, ProgramFacts
    <3> QED BY <1>1, <1>2, <2>2, <3>2 DEF DeadlinePasses
  <2> QED BY <2>1, <2>2
<1>4. /\ run' \in Rows /\ run'.epoch = run.epoch /\ run'.wake = run.wake
      /\ run'.retries = run.retries /\ run'.expired = run.expired
      /\ run'.mails = run.mails
      /\ \/ run'.status = run.status
         \/ run.status = "suspended" /\ run.wake = s /\ run'.status = "pending"
  BY <1>1 DEF SignalArrives, DeadlinePasses, Wake, Rows
<1>5. Cardinality(Spent') = IF s \in Spent THEN Cardinality(Spent)
                            ELSE Cardinality(Spent) + 1
  <2>1. IsFiniteSet(Spent)
    BY SpentFacts
  <2>2. Cardinality(Spent \cup {s}) = IF s \in Spent THEN Cardinality(Spent)
                                     ELSE Cardinality(Spent) + 1
    BY <2>1, FS_AddElement
  <2> QED BY <1>2, <2>2
<1>6. Charges' = run.expired + run.mails + run.retries + Cardinality(Spent')
  BY <1>4 DEF Charges
<1>7. CASE s \in Spent
  <2>1. Spent' = Spent /\ Charges' = Charges
    BY <1>2, <1>6, <1>7 DEF Charges
  <2>2. run'.status = "pending" => run.epoch <= Charges
    BY <1>4, <1>7 DEF IInv, LeasesAreCharged
  <2>3. LeasesAreCharged'
    BY <1>2, <1>4, <2>1, <2>2, ChargesFacts, ChargedStep
  <2> QED BY <1>2, <1>3, <1>4, <2>3, WorldStep
<1>8. CASE s \notin Spent
  <2>1. Charges' \in Nat /\ Charges' >= 1 + Charges
    BY <1>5, <1>6, <1>8, ChargesFacts
  <2>2. LeasesAreCharged'
    BY <1>2, <1>4, <2>1, ChargedStep
  <2> QED BY <1>2, <1>3, <1>4, <2>2, WorldStep
<1> QED BY <1>7, <1>8

\* An attempt that dies, or that finds its lease lost or itself in doubt before it has
\* done anything.
LEMMA DieInv ==
    ASSUME IInv, NEW e \in Epoch, Die(e)
    PROVE  IInv'
<1>1. att \in Attempts /\ "gone" \in Phase /\ blips \in 0 .. MaxBlips
      /\ signal \in [Step -> {"none", "buffered", "claimed"}]
  BY AttemptFacts DEF Phase
<1>2. /\ att' \in Attempts
      /\ att'[e].phase = "gone" /\ att'[e].at = att[e].at
      /\ att'[e].known = att[e].known
      /\ \A f \in Epoch : f # e => att'[f] = att[f]
  BY <1>1, ToFacts DEF Die
<1> QED BY <1>1, <1>2, QuietStep DEF Die, Quiet

\* An attempt that begins has read the journal, or learns that its lease is lost, or
\* fails because the store does.
LEMMA BeginInv ==
    ASSUME IInv, NEW e \in Epoch, Begin(e)
    PROVE  IInv'
<1>1. /\ att \in Attempts /\ "gone" \in Phase /\ "raised" \in Phase /\ "at" \in Phase
      /\ MaxBlips \in Nat /\ blips \in 0 .. MaxBlips
      /\ signal \in [Step -> {"none", "buffered", "claimed"}] /\ log \in [Step -> Entry]
  BY AttemptFacts, BoundFacts DEF Phase
<1>2. ASSUME NEW phase \in {"raised", "gone"}, To(e, phase), blips' \in 0 .. MaxBlips
      PROVE  IInv'
  <2>1. /\ att' \in Attempts
        /\ att'[e].phase = phase /\ att'[e].at = att[e].at
        /\ att'[e].known = att[e].known
        /\ \A f \in Epoch : f # e => att'[f] = att[f]
    BY <1>1, <1>2, ToFacts
  <2> QED BY <1>1, <1>2, <2>1, QuietStep DEF Begin, Quiet
<1>3. CASE /\ Fenced(e) /\ att' = [att EXCEPT ![e].phase = "at", ![e].known = log]
           /\ UNCHANGED blips
  <2>1. /\ att' \in Attempts
        /\ att'[e].phase = "at" /\ att'[e].at = att[e].at
        /\ \A f \in Epoch : f # e => att'[f] = att[f]
    BY <1>1, <1>3 DEF Attempts
  <2>2. JournalInv'
    <3>1. att[e].phase = "leased" /\ UNCHANGED <<run, log, signal, late, hist>>
      BY DEF Begin
    <3> QED BY <1>3, <3>1, BeginJournal DEF IInv
  <2>3. TypeOK'
    BY <1>3, <2>1 DEF IInv, TypeOK, Attempts, Begin
  <2>4. PhasesFit'
    BY <2>1 DEF IInv, PhasesFit, At, Begin
  <2>5. LeasesAreCharged'
    <3>1. Spent' = Spent
      BY DEF Spent, Begin
    <3> QED BY <2>1, <3>1, StillCharged DEF IInv, At, Begin
  <2> QED BY <2>2, <2>3, <2>4, <2>5 DEF IInv
<1>4. CASE ~Fenced(e) /\ To(e, "gone") /\ UNCHANGED blips
  BY <1>1, <1>2, <1>4
<1>5. CASE blips < MaxBlips /\ blips' = blips + 1 /\ To(e, "raised")
  BY <1>1, <1>2, <1>5
<1> QED BY <1>3, <1>4, <1>5 DEF Begin

\* A result read long ago is still the journal's: an attempt may replay it.
LEMMA ReplayInv ==
    ASSUME IInv, NEW e \in Epoch, Replay(e)
    PROVE  IInv'
<1>1. At(e) \in Step /\ At(e) \in Effects /\ att[e].phase = "at" /\ Program[At(e)] # "wait"
  BY ProgramFacts DEF Replay, Doing
<1>2. log[At(e)] = Kept(e) /\ Kept(e).state = "completed"
  BY <1>1 DEF Replay, Kept, IInv, JournalInv, KnownIsTrue
<1>3. log \in [Step -> Entry] /\ blips \in 0 .. MaxBlips
  BY AttemptFacts
<1>4. Kept(e).value \in 0 .. MaxLease
  BY <1>1, <1>2, <1>3 DEF Entry
<1> QED BY <1>1, <1>2, <1>3, <1>4, ReturnedStep DEF Replay

\* Only the attempt that holds the lease begins a step that the journal does not know.
LEMMA IntendInv ==
    ASSUME IInv, NEW e \in Epoch, Intend(e)
    PROVE  IInv'
<1> DEFINE entry == [state |-> "pending", value |-> 0]
<1>1. /\ At(e) \in Step /\ At(e) \in Effects /\ att[e].phase = "at"
      /\ Program[At(e)] # "wait"
  BY ProgramFacts DEF Intend, Doing
<1>2. /\ UNCHANGED <<run, late, signal>> /\ blips' \in 0 .. MaxBlips
      /\ \/ Fenced(e) /\ log' = [log EXCEPT ![At(e)] = entry] /\ Going(e, "body")
         \/ \E phase \in {"gone", "raised"} :
              /\ Going(e, phase)
              /\ \/ UNCHANGED log
                 \/ Fenced(e) /\ log' = [log EXCEPT ![At(e)] = entry]
  BY CommitLogCases DEF Intend
<1>3. entry \in Entry /\ entry.state = "pending" /\ log \in [Step -> Entry]
      /\ att \in Attempts
      /\ hist \in [Step -> [started : Nat, undone : Nat, told : SUBSET (0 .. MaxLease)]]
  BY AttemptFacts
<1>4. Fenced(e) => log[At(e)].state = "absent"
  BY <1>1, AttemptFacts DEF Intend
<1> HIDE DEF entry
<1>5. CASE Fenced(e) /\ log' = [log EXCEPT ![At(e)] = entry] /\ Going(e, "body")
  <2>1. /\ att'[e].phase = "body" /\ att'[e].at = att[e].at
        /\ att'[e].known = att[e].known
        /\ \A f \in Epoch : f # e => att'[f] = att[f]
    BY <1>3, <1>5, ToFacts DEF Going, Phase
  <2>2. JournalInv'
    BY <1>1, <1>2, <1>3, <1>4, <1>5, <2>1, IntendJournal DEF IInv, Going
  <2>3. log' \in [Step -> Entry] /\ hist' = hist
    BY <1>3, <1>5 DEF Going
  <2> QED BY <1>1, <1>2, <1>3, <1>5, <2>2, <2>3, BodyStep DEF Going
<1>6. ASSUME NEW phase \in {"gone", "raised"}, Going(e, phase), UNCHANGED log
      PROVE  IInv'
  BY <1>1, <1>2, <1>6, StoppedStep
<1>7. ASSUME NEW phase \in {"gone", "raised"}, Going(e, phase),
             Fenced(e), log' = [log EXCEPT ![At(e)] = entry]
      PROVE  IInv'
  BY <1>1, <1>2, <1>3, <1>4, <1>7, WrittenStep
<1> QED BY <1>2, <1>5, <1>6, <1>7

\* A step in doubt is begun again only if that is safe.
LEMMA ResumeInv ==
    ASSUME IInv, NEW e \in Epoch, Resume(e)
    PROVE  IInv'
<1>1. /\ At(e) \in Step /\ At(e) \in Effects /\ att[e].phase = "at"
      /\ UNCHANGED <<run, log, signal, late, blips, hist>>
  BY ProgramFacts DEF Resume, Doing, Going
<1>2. /\ att \in Attempts /\ blips \in 0 .. MaxBlips /\ "doubt" \in Phase
      /\ signal \in [Step -> {"none", "buffered", "claimed"}] /\ log \in [Step -> Entry]
      /\ hist \in [Step -> [started : Nat, undone : Nat, told : SUBSET (0 .. MaxLease)]]
  BY AttemptFacts DEF Phase
<1>3. CASE Program[At(e)] = "safe"
  <2>1. To(e, "body") /\ Kept(e).state = "pending"
    BY <1>3 DEF Resume, Going
  <2>2. JournalInv'
    BY <1>1, <1>3, <2>1, ResumeJournal DEF IInv
  <2> QED BY <1>1, <1>2, <2>1, <2>2, BodyStep
<1>4. CASE Program[At(e)] # "safe"
  <2>1. /\ att' \in Attempts
        /\ att'[e].phase = "doubt" /\ att'[e].at = att[e].at
        /\ att'[e].known = att[e].known
        /\ \A f \in Epoch : f # e => att'[f] = att[f]
    BY <1>2, <1>4, ToFacts DEF Resume, Going
  <2> QED BY <1>1, <1>2, <2>1, QuietStep DEF Quiet
<1> QED BY <1>3, <1>4

\* Running a body keeps the invariant.
LEMMA BodyInv ==
    ASSUME IInv, NEW e \in Epoch, Body(e)
    PROVE  IInv'
<1>1. PICK how \in {"ok", "error", "stop"} :
        /\ To(e, how)
        /\ hist' = [hist EXCEPT ![At(e)].started = @ + 1,
                                ![At(e)].undone  = IF how = "ok" THEN @ ELSE @ + 1]
  BY DEF Body
<1>2. att[e].phase = "body" /\ UNCHANGED <<run, log, signal, late, blips>>
  BY DEF Body
<1>3. At(e) \in Effects
  BY <1>2 DEF IInv, PhasesFit
<1>4. JournalInv'
  BY <1>1, <1>2, <1>3, BodyJournal DEF IInv
<1>5. /\ log \in [Step -> Entry] /\ blips \in 0 .. MaxBlips /\ At(e) \in Step
      /\ hist \in [Step -> [started : Nat, undone : Nat, told : SUBSET (0 .. MaxLease)]]
  BY <1>3, AttemptFacts, ProgramFacts
<1>6. hist' \in [Step -> [started : Nat, undone : Nat, told : SUBSET (0 .. MaxLease)]]
  <2> DEFINE started == hist[At(e)].started + 1
             undone  == IF how = "ok" THEN hist[At(e)].undone ELSE hist[At(e)].undone + 1
  <2>1. started \in Nat /\ undone \in Nat
    BY <1>5
  <2>2. hist' = [hist EXCEPT ![At(e)].started = started, ![At(e)].undone = undone]
    BY <1>1
  <2> HIDE DEF started, undone
  <2> QED BY <1>5, <2>1, <2>2
<1> QED BY <1>1, <1>2, <1>3, <1>4, <1>5, <1>6, BodyStep

\* Recording an outcome keeps the invariant: that of a body that returned completes the
\* step, that of any other withdraws the intent.
LEMMA RecordInv ==
    ASSUME IInv, NEW e \in Epoch, Record(e)
    PROVE  IInv'
<1> DEFINE done == [state |-> "completed", value |-> e]
<1>1. att[e].phase \in {"ok", "error", "stop"}
  BY DEF Record
<1>2. At(e) \in Effects /\ At(e) \in Step /\ Program[At(e)] # "wait"
  BY <1>1, ProgramFacts DEF IInv, PhasesFit
<1>3. Executes(e, At(e))
  BY <1>1 DEF Executes
<1>4. Fenced(e) => log[At(e)].state = "pending"
  BY <1>2, <1>3 DEF IInv, JournalInv, ExecutedIsPending
<1>5. /\ log \in [Step -> Entry] /\ Blank \in Entry /\ Blank.state = "absent"
      /\ done \in Entry /\ done.state = "completed" /\ done.value = e
      /\ e \in 0 .. MaxLease
  BY AttemptFacts, BoundFacts DEF Blank
<1>6. Program[At(e)] = "once" /\ att[e].phase \in {"error", "stop"}
        => hist[At(e)].started = hist[At(e)].undone
  BY <1>2 DEF IInv, JournalInv, Accounts
<1> HIDE DEF done
<1>7. ASSUME NEW entry \in Entry, NEW phase \in {"gone", "raised"}, Going(e, phase),
             UNCHANGED <<run, late, signal>>, blips' \in 0 .. MaxBlips,
             \/ UNCHANGED log
             \/ Fenced(e) /\ log' = [log EXCEPT ![At(e)] = entry],
             entry.state = "absent" => att[e].phase \in {"error", "stop"}
      PROVE  IInv'
  <2>1. CASE UNCHANGED log
    BY <1>1, <1>7, <2>1, StoppedStep
  <2>2. CASE Fenced(e) /\ log' = [log EXCEPT ![At(e)] = entry]
    BY <1>1, <1>2, <1>3, <1>4, <1>6, <1>7, <2>2, WrittenStep
  <2> QED BY <1>7, <2>1, <2>2
<1>8. CASE att[e].phase = "ok" /\ CommitLog(e, done, Return(e, e), "raised")
  <2>1. /\ UNCHANGED <<run, late, signal>> /\ blips' \in 0 .. MaxBlips
        /\ \/ Fenced(e) /\ log' = [log EXCEPT ![At(e)] = done] /\ Return(e, e)
           \/ \E phase \in {"gone", "raised"} :
                /\ Going(e, phase)
                /\ \/ UNCHANGED log
                   \/ Fenced(e) /\ log' = [log EXCEPT ![At(e)] = done]
    BY <1>8, CommitLogCases
  <2>2. CASE Fenced(e) /\ log' = [log EXCEPT ![At(e)] = done] /\ Return(e, e)
    <3>1. /\ log'[At(e)] = done /\ \A s \in Step : s # At(e) => log'[s] = log[s]
          /\ log' \in [Step -> Entry]
      BY <1>2, <1>5, <2>2
    <3> QED BY <1>1, <1>2, <1>3, <1>4, <1>5, <2>1, <2>2, <3>1, ReturnedStep
  <2> QED BY <1>5, <1>7, <2>1, <2>2
<1>9. CASE \/ att[e].phase = "error" /\ CommitLog(e, Blank, Going(e, "raised"), "raised")
           \/ att[e].phase = "stop" /\ CommitLog(e, Blank, Going(e, "gone"), "gone")
  <2>1. /\ UNCHANGED <<run, late, signal>> /\ blips' \in 0 .. MaxBlips
        /\ \E phase \in {"gone", "raised"} :
             /\ Going(e, phase)
             /\ \/ UNCHANGED log
                \/ Fenced(e) /\ log' = [log EXCEPT ![At(e)] = Blank]
    <3>1. CASE CommitLog(e, Blank, Going(e, "raised"), "raised")
      BY <3>1, CommitLogCases
    <3>2. CASE CommitLog(e, Blank, Going(e, "gone"), "gone")
      BY <3>2, CommitLogCases
    <3> QED BY <1>9, <3>1, <3>2
  <2> QED BY <1>5, <1>7, <1>9, <2>1
<1> QED BY <1>8, <1>9 DEF Record, done

\* Setting the deadline of an ask.
LEMMA SetDeadlineInv ==
    ASSUME IInv, NEW e \in Epoch, SetDeadline(e)
    PROVE  IInv'
<1> DEFINE entry == [state |-> "completed", value |-> 0]
<1>1. At(e) \in Step /\ Program[At(e)] = "ask" /\ att[e].phase = "at"
  BY DEF SetDeadline, Doing
<1>2. /\ UNCHANGED <<run, late, signal>> /\ blips' \in 0 .. MaxBlips
      /\ \/ Fenced(e) /\ log' = [log EXCEPT ![At(e)] = entry] /\ Going(e, "listen")
         \/ \E phase \in {"gone", "raised"} :
              /\ Going(e, phase)
              /\ \/ UNCHANGED log
                 \/ Fenced(e) /\ log' = [log EXCEPT ![At(e)] = entry]
  BY CommitLogCases DEF SetDeadline
<1>3. entry \in Entry /\ (Fenced(e) => log[At(e)].state = "absent")
  BY <1>1, AttemptFacts DEF SetDeadline
<1> HIDE DEF entry
<1>4. ASSUME NEW phase \in {"gone", "raised"}, Going(e, phase), UNCHANGED log
      PROVE  IInv'
  BY <1>1, <1>2, <1>4, StoppedStep
<1>5. ASSUME NEW phase \in {"gone", "raised", "listen"}, Going(e, phase),
             Fenced(e), log' = [log EXCEPT ![At(e)] = entry]
      PROVE  IInv'
  BY <1>1, <1>2, <1>3, <1>5, WrittenStep
<1> QED BY <1>2, <1>4, <1>5

\* An attempt that listens stands at a wait; only an ask can time out.
LEMMA ListeningFacts ==
    ASSUME IInv, NEW e \in Epoch, Listening(e)
    PROVE  /\ At(e) \in Waits /\ At(e) \in Step
           /\ att[e].phase \notin {"off", "leased", "raised", "gone"}
           /\ At(e) \in late => Program[At(e)] = "ask"
<1>1. At(e) \in Waits /\ att[e].phase \notin {"off", "leased", "raised", "gone"}
  BY ProgramFacts DEF Listening, Doing, IInv, PhasesFit
<1>2. At(e) \in late => Program[At(e)] = "ask"
  BY DEF IInv, JournalInv, WaitsLeaveNoEntry
<1> QED BY <1>1, <1>2, ProgramFacts

\* Claiming a signal, or finding none, keeps the invariant.
LEMMA ListenInv ==
    ASSUME IInv, NEW e \in Epoch, Claim(e) \/ NothingYet(e)
    PROVE  IInv'
<1>1. Listening(e)
  BY DEF Claim, NothingYet
<1>2. /\ att \in Attempts /\ blips \in 0 .. MaxBlips
      /\ signal \in [Step -> {"none", "buffered", "claimed"}]
  BY AttemptFacts
<1>3. /\ att' \in Attempts /\ att'[e].at = att[e].at /\ att'[e].known = att[e].known
      /\ \A f \in Epoch : f # e => att'[f] = att[f]
      /\ \/ att'[e].phase = "heard" /\ att'[e].value = Heard
         \/ att'[e].phase = "heard" /\ att'[e].value = TimedOut /\ At(e) \in late
         \/ att'[e].phase = "asleep" /\ signal[At(e)] = "none" /\ At(e) \notin late
  <2>1. CASE Claim(e)
    BY <1>2, <2>1 DEF Claim, Attempts, Phase
  <2>2. CASE NothingYet(e) /\ At(e) \in late
    <3>1. att' = [att EXCEPT ![e].phase = "heard", ![e].value = TimedOut] /\ "heard" \in Phase
      BY <2>2 DEF NothingYet, Phase
    <3>2. /\ att' \in Attempts /\ att'[e].at = att[e].at /\ att'[e].known = att[e].known
          /\ att'[e].phase = "heard" /\ att'[e].value = TimedOut
          /\ \A f \in Epoch : f # e => att'[f] = att[f]
      BY <1>2, <3>1 DEF Attempts
    <3> QED BY <2>2, <3>2
  <2>3. CASE NothingYet(e) /\ At(e) \notin late
    <3>1. To(e, "asleep") /\ "asleep" \in Phase /\ signal[At(e)] = "none"
      BY <2>3 DEF NothingYet, Phase
    <3> QED BY <1>2, <2>3, <3>1, ToFacts
  <2> QED BY <2>1, <2>2, <2>3
<1>4. /\ signal' \in [Step -> {"none", "buffered", "claimed"}]
      /\ \A s \in Step : signal'[s] = "none" <=> signal[s] = "none"
      /\ UNCHANGED <<run, log, late, hist, blips>>
  BY <1>1, <1>2, ListeningFacts DEF Claim, NothingYet
<1> QED BY <1>1, <1>2, <1>3, <1>4, ListeningFacts, QuietStep
        DEF Quiet, Spent, Heard, TimedOut

\* An answer that is committed is given to the program.
LEMMA AnswerInv ==
    ASSUME IInv, NEW e \in Epoch, Answer(e)
    PROVE  IInv'
<1>1. /\ att[e].phase = "heard" /\ UNCHANGED <<run, log, signal, late>>
      /\ \/ Return(e, att[e].value) /\ UNCHANGED blips
         \/ Going(e, "gone") /\ UNCHANGED blips
         \/ Going(e, "raised") /\ blips < MaxBlips /\ blips' = blips + 1
  BY DEF Answer, Commit
<1>2. /\ At(e) \in Waits /\ At(e) \in Step /\ At(e) \notin Effects
      /\ att[e].value = TimedOut => Program[At(e)] = "ask"
  BY <1>1, ProgramFacts DEF IInv, PhasesFit
<1>3. /\ att[e].value \in {TimedOut, Heard} /\ log \in [Step -> Entry]
      /\ blips \in 0 .. MaxBlips
  BY AttemptFacts DEF Attempts
<1>4. blips' \in 0 .. MaxBlips
  BY <1>1, <1>3, BoundFacts
<1>5. CASE Return(e, att[e].value)
  <2>1. att[e].value \in 0 .. MaxLease
    BY <1>3, BoundFacts DEF TimedOut, Heard
  <2>2. Program[At(e)] = "wait" => att[e].value = Heard
    BY <1>2, <1>3
  <2> QED BY <1>1, <1>2, <1>3, <1>4, <1>5, <2>1, <2>2, ReturnedStep
<1>6. CASE Going(e, "gone") \/ Going(e, "raised")
  BY <1>1, <1>4, <1>6, StoppedStep
<1> QED BY <1>1, <1>5, <1>6

\* Going to sleep: a wait whose signal or deadline came in between has been charged.
LEMMA GoToSleepInv ==
    ASSUME IInv, NEW e \in Epoch, GoToSleep(e)
    PROVE  IInv'
<1> DEFINE ready == signal[At(e)] = "buffered" \/ At(e) \in late
           row   == [run EXCEPT !.status = IF ready THEN "pending" ELSE "suspended",
                                !.wake   = At(e)]
<1>1. att[e].phase = "asleep" /\ CommitEnd(e, row, "gone")
  BY DEF GoToSleep
<1>2. At(e) \in Waits /\ At(e) \in 0 .. Len(Program) /\ At(e) # 0 /\ run \in Rows
  <2>1. At(e) \in Waits
    BY <1>1 DEF IInv, PhasesFit
  <2>2. \A s \in Waits : s \in 0 .. Len(Program) /\ s # 0
    BY ProgramFacts
  <2> QED BY <2>1, <2>2, AttemptFacts
<1>3. /\ row \in Rows /\ row.epoch = run.epoch /\ row.status # "running"
      /\ row.status # "completed" /\ row.wake = At(e) /\ row.retries = run.retries
      /\ row.expired = run.expired /\ row.mails = run.mails
      /\ row.status = "pending" => At(e) \in Spent
  BY <1>2 DEF Rows, Spent
<1> HIDE DEF row
<1>4. PICK phase \in {"gone", "raised"} :
        /\ Going(e, phase)
        /\ UNCHANGED run \/ (Fenced(e) /\ run' = row)
  BY <1>1, CommitEndCases
<1>5. UNCHANGED <<log, late, signal>> /\ blips' \in 0 .. MaxBlips
  BY <1>1, CommitEndCases
<1>6. CASE UNCHANGED run
  BY <1>1, <1>4, <1>5, <1>6, StoppedStep
<1>7. CASE Fenced(e) /\ run' = row
  <2>1. row.epoch <= 1 + row.expired + row.mails + row.retries + Cardinality(Spent)
    BY <1>3, ChargesFacts
  <2>2. At(e) \in Spent =>
          row.epoch <= row.expired + row.mails + row.retries + Cardinality(Spent)
    BY <1>1, <1>3, <1>7, ChargesFacts DEF IInv, LeasesAreCharged
  <2>3. row.status = "pending" \/ (row.status = "suspended" /\ row.wake \in Spent \cup {0})
           => At(e) \in Spent
    BY <1>2, <1>3
  <2> QED BY <1>1, <1>3, <1>4, <1>5, <1>7, <2>1, <2>2, <2>3, EndedStep
<1> QED BY <1>4, <1>6, <1>7

\* A failed attempt is charged to the retry it causes, or ends the run.
LEMMA GiveUpInv ==
    ASSUME IInv, NEW e \in Epoch, GiveUp(e) \/ FailInDoubt(e)
    PROVE  IInv'
<1>1. run \in Rows /\ att[e].phase \in {"raised", "doubt"}
  BY AttemptFacts DEF GiveUp, FailInDoubt
<1>2. PICK row : /\ CommitEnd(e, row, "gone")
                 /\ \/ row = [run EXCEPT !.status = "failed"]
                    \/ /\ run.retries < MaxRetries
                       /\ row = [run EXCEPT !.status = "suspended", !.wake = 0,
                                            !.retries = @ + 1]
  BY DEF GiveUp, FailInDoubt, Failed, Retried
<1>3. /\ row \in Rows /\ row.epoch = run.epoch /\ row.status # "running"
      /\ row.status # "completed" /\ row.expired = run.expired /\ row.mails = run.mails
      /\ \/ row.status = "failed" /\ row.retries = run.retries
         \/ row.status = "suspended" /\ row.retries = run.retries + 1
  <2>1. CASE row = [run EXCEPT !.status = "failed"]
    BY <1>1, <2>1 DEF Rows, Ended
  <2>2. CASE /\ run.retries < MaxRetries
             /\ row = [run EXCEPT !.status = "suspended", !.wake = 0, !.retries = @ + 1]
    <3>1. run.retries \in Nat /\ MaxRetries \in Nat /\ run.retries < MaxRetries
      BY <2>2, BoundFacts, ChargesFacts
    <3>2. run.retries + 1 \in 0 .. MaxRetries
      BY <3>1
    <3>3. 0 \in 0 .. Len(Program)
      BY ProgramFacts
    <3> QED BY <1>1, <2>2, <3>2, <3>3 DEF Rows
  <2> QED BY <1>2, <2>1, <2>2
<1>4. PICK phase \in {"gone", "raised"} :
        /\ Going(e, phase)
        /\ UNCHANGED run \/ (Fenced(e) /\ run' = row)
  BY <1>2, CommitEndCases
<1>5. UNCHANGED <<log, late, signal>> /\ blips' \in 0 .. MaxBlips
  BY <1>2, CommitEndCases
<1>6. CASE UNCHANGED run
  BY <1>1, <1>4, <1>5, <1>6, StoppedStep
<1>7. CASE Fenced(e) /\ run' = row
  <2>1. row.epoch <= 1 + row.expired + row.mails + row.retries + Cardinality(Spent)
    BY <1>3, ChargesFacts
  <2>2. row.status = "suspended" =>
          row.epoch <= row.expired + row.mails + row.retries + Cardinality(Spent)
    BY <1>3, ChargesFacts
  <2>3. row.status # "pending"
    BY <1>3
  <2> QED BY <1>1, <1>3, <1>4, <1>5, <1>7, <2>1, <2>2, <2>3, EndedStep
<1> QED BY <1>4, <1>6, <1>7

\* The run completes when every step has been answered.
LEMMA CompleteInv ==
    ASSUME IInv, NEW e \in Epoch, Complete(e)
    PROVE  IInv'
<1> DEFINE row == [run EXCEPT !.status = "completed"]
<1>1. att[e].phase = "at" /\ At(e) \notin Step /\ CommitEnd(e, row, "raised")
  BY DEF Complete
<1>2. /\ row \in Rows /\ row.epoch = run.epoch /\ row.status = "completed"
      /\ row.expired = run.expired /\ row.mails = run.mails /\ row.retries = run.retries
  BY AttemptFacts DEF Rows, Ended
<1> HIDE DEF row
<1>3. PICK phase \in {"gone", "raised"} :
        /\ Going(e, phase)
        /\ UNCHANGED run \/ (Fenced(e) /\ run' = row)
  BY <1>1, CommitEndCases
<1>4. UNCHANGED <<log, late, signal>> /\ blips' \in 0 .. MaxBlips
  BY <1>1, CommitEndCases
<1>5. CASE UNCHANGED run
  BY <1>1, <1>3, <1>4, <1>5, StoppedStep
<1>6. CASE Fenced(e) /\ run' = row
  <2>1. row.epoch <= 1 + row.expired + row.mails + row.retries + Cardinality(Spent)
    BY <1>2, ChargesFacts
  <2>2. \A s \in Step : hist[s].told # {}
    <3>1. At(e) \in 1 .. Len(Program) + 1
      BY AttemptFacts
    <3>2. \A s \in Step : s < At(e)
      BY <1>1, <3>1, ProgramFacts
    <3> QED BY <3>2 DEF IInv, JournalInv, AnsweredBefore
  <2> QED BY <1>1, <1>2, <1>3, <1>4, <1>6, <2>1, <2>2, EndedStep
<1> QED BY <1>3, <1>5, <1>6

-----------------------------------------------------------------------------
(* The invariant holds of every run.                                       *)

\* It holds before the first lease: nothing was charged, journalled or answered.
LEMMA InitIInv == Init => IInv
<1> SUFFICES ASSUME Init PROVE IInv
  OBVIOUS
<1> USE DEF Init
<1>1. 0 \in 0 .. MaxLease /\ Blank \in Entry
  BY BoundFacts DEF Blank, Entry
<1>2. TypeOK
  <2>1. 1 \in 1 .. Len(Program) + 1 /\ 0 \in 0 .. Len(Program)
    BY ProgramFacts
  <2>2. /\ 0 \in 0 .. MaxRetries /\ 0 \in 0 .. MaxExpiries /\ 0 \in 0 .. MaxMails
        /\ 0 \in 0 .. MaxBlips
    BY BoundFacts
  <2>3. att \in Attempts
    BY <1>1, <2>1 DEF Attempts, Phase, TimedOut
  <2>4. run \in Rows
    BY <1>1, <2>1, <2>2 DEF Rows
  <2>5. hist \in [Step -> [started : Nat, undone : Nat, told : SUBSET (0 .. MaxLease)]]
    OBVIOUS
  <2> QED BY <1>1, <2>2, <2>3, <2>4, <2>5 DEF TypeOK, Attempts, Rows
<1>3. PhasesFit
  BY DEF PhasesFit
<1>4. LeasesAreCharged
  <2>1. run.epoch = 0 /\ run.status = "pending"
    OBVIOUS
  <2>2. Charges \in Nat
    <3>1. run.expired = 0 /\ run.mails = 0 /\ run.retries = 0
      OBVIOUS
    <3> QED BY <3>1, SpentFacts DEF Charges
  <2>3. 0 <= Charges /\ 0 <= 1 + Charges
    BY <2>2
  <2> QED BY <2>1, <2>3 DEF LeasesAreCharged, Fenced
<1>5. JournalInv
  <2>1. WaitsLeaveNoEntry /\ AnswersAgree
    <3>1. \A s \in Step : log[s] = Blank /\ hist[s].told = {}
      OBVIOUS
    <3>2. late = {}
      OBVIOUS
    <3> QED BY <3>1, <3>2, ProgramFacts DEF WaitsLeaveNoEntry, AnswersAgree
  <2>2. FreshAhead /\ KnownIsTrue
    BY DEF FreshAhead, KnownIsTrue, Fenced, Blank
  <2>3. \A e \in Epoch, s \in Step : ~Executes(e, s)
    BY DEF Executes
  <2>4. ExecutedIsPending /\ OneLicence
    BY <2>3, ProgramFacts DEF ExecutedIsPending, OneLicence
  <2>5. Accounts
    BY DEF Accounts
  <2>6. AnsweredBefore
    <3>1. \A e \in Epoch, s \in Step : ~(s < At(e))
      BY ProgramFacts DEF At
    <3> QED BY <3>1 DEF AnsweredBefore
  <2> QED BY <2>1, <2>2, <2>4, <2>5, <2>6 DEF JournalInv
<1> QED BY <1>2, <1>3, <1>4, <1>5 DEF IInv

\* Every step keeps it.
LEMMA NextInv == IInv /\ [Next]_vars => IInv'
<1> SUFFICES ASSUME IInv, [Next]_vars PROVE IInv'
  OBVIOUS
<1>1. CASE Lease
  BY <1>1, LeaseInv
<1>2. CASE Expire \/ MailArrives
  BY <1>2, ExpireOrMailInv
<1>3. CASE TimerFires
  BY <1>3, TimerFiresInv
<1>4. ASSUME NEW s \in Step, SignalArrives(s) \/ DeadlinePasses(s) PROVE IInv'
  BY <1>4, SignalOrDeadlineInv
<1>5. ASSUME NEW e \in Epoch, Does(e) PROVE IInv'
  <2>1. CASE Begin(e)
    BY <2>1, BeginInv
  <2>2. CASE Replay(e)
    BY <2>2, ReplayInv
  <2>3. CASE Intend(e)
    BY <2>3, IntendInv
  <2>4. CASE Resume(e)
    BY <2>4, ResumeInv
  <2>5. CASE Body(e)
    BY <2>5, BodyInv
  <2>6. CASE Record(e)
    BY <2>6, RecordInv
  <2>7. CASE SetDeadline(e)
    BY <2>7, SetDeadlineInv
  <2>8. CASE Claim(e) \/ NothingYet(e)
    BY <2>8, ListenInv
  <2>9. CASE Answer(e)
    BY <2>9, AnswerInv
  <2>10. CASE GoToSleep(e)
    BY <2>10, GoToSleepInv
  <2>11. CASE GiveUp(e) \/ FailInDoubt(e)
    BY <2>11, GiveUpInv
  <2>12. CASE Complete(e)
    BY <2>12, CompleteInv
  <2> QED BY <1>5, <2>1, <2>2, <2>3, <2>4, <2>5, <2>6, <2>7, <2>8, <2>9, <2>10, <2>11,
             <2>12 DEF Does
<1>6. ASSUME NEW e \in Epoch, Die(e) PROVE IInv'
  BY <1>6, DieInv
<1>7. CASE UNCHANGED vars
  <2>1. UNCHANGED <<run, log, signal, late, att, blips, hist>>
    BY <1>7 DEF vars
  <2>2. TypeOK' /\ PhasesFit' /\ LeasesAreCharged'
    BY <2>1 DEF IInv, TypeOK, PhasesFit, LeasesAreCharged, Charges, Spent, Fenced, At
  <2>3. \A s \in late : Program[s] = "ask"
    BY DEF IInv, JournalInv, WaitsLeaveNoEntry
  <2>4. JournalInv'
    BY <2>1, <2>3, QuietJournal DEF IInv, Fenced
  <2> QED BY <2>2, <2>4 DEF IInv
<1> QED BY <1>1, <1>2, <1>3, <1>4, <1>5, <1>6, <1>7 DEF Next

\* The inductive invariant holds of every behaviour, whatever the program.
THEOREM InvariantHolds == Spec => []IInv
BY InitIInv, NextInv, PTL DEF Spec

\* The row, the journal and the attempts keep their shape; in particular the leases
\* never outnumber what MaxLease allows (worker.py, store.lease).
THEOREM DurableRunIsTyped == Spec => []TypeOK
<1>1. IInv => TypeOK
  BY DEF IInv
<1> QED BY <1>1, InvariantHolds, PTL

\* Journal.effect does not begin the body of a step that is not safe to run twice a
\* second time, unless the body itself raised or was stopped.
THEOREM NeverExecutedTwice == Spec => []NeverTwice
<1>1. IInv => NeverTwice
  BY DEF IInv, JournalInv, Accounts, NeverTwice
<1> QED BY <1>1, InvariantHolds, PTL

\* All attempts that are answered at a step, but an ask, are given the same answer.
THEOREM OneResult == Spec => []SameResult
<1>1. ASSUME IInv, NEW s \in Step, Program[s] # "ask"
      PROVE  Cardinality(hist[s].told) <= 1
  <2>1. CASE hist[s].told = {}
    BY <2>1, FS_EmptySet
  <2>2. ASSUME NEW v, hist[s].told = {v} PROVE Cardinality(hist[s].told) <= 1
    BY <2>2, FS_Singleton
  <2>3. CASE s \in Effects
    BY <1>1, <2>1, <2>2, <2>3 DEF IInv, JournalInv, AnswersAgree
  <2>4. CASE s \notin Effects
    <3>1. hist[s].told \subseteq {Heard}
      BY <1>1, <2>4, ProgramFacts DEF IInv, JournalInv, AnswersAgree, Kind
    <3> QED BY <2>1, <2>2, <3>1
  <2> QED BY <2>3, <2>4
<1>2. IInv => SameResult
  BY <1>1 DEF SameResult
<1> QED BY <1>2, InvariantHolds, PTL

\* A run that completed has every result in its journal and every wait answered.
THEOREM CompletedRunsAreWhole == Spec => []CompletedIsWhole
<1>1. IInv => CompletedIsWhole
  BY ProgramFacts DEF IInv, JournalInv, AnswersAgree, AnsweredBefore, CompletedIsWhole
<1> QED BY <1>1, InvariantHolds, PTL
=============================================================================
