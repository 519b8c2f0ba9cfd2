--------------------------- MODULE ToolBatchProofs ---------------------------
(***************************************************************************)
(* What holds of ToolBatch for any number of calls, turns and bounds.       *)
(***************************************************************************)
EXTENDS ToolBatch, FiniteSetTheorems, SequenceTheorems, WellFoundedInduction, TLAPS

-----------------------------------------------------------------------------
(* The inductive invariant.                                                *)
(*                                                                         *)
(* A call is held by the attempt that recorded its intent, until the outcome *)
(* is recorded or the intent is taken back.  The invariant says what an       *)
(* attempt may rely on although it lost its lease: the call it holds, if its  *)
(* tool is not idempotent, is held by nobody else and has not run; the name    *)
(* of a request, and the decision claimed under it, are the same for all.     *)

Held        == {"name", "ask", "listen", "heard", "run", "result", "suspending"}
Holds(e, c) == att[e].call[c].at \in Held

Once == Call \ turn.idempotent

\* The shapes, those of hidden fields included.
Rows     == [status : {"pending", "running", "suspended"} \cup Ended, epoch : 0 .. MaxLease,
             retries : 0 .. turn.retries, expired : 0 .. MaxExpiries,
             wake : (Call \cup {0}) \X (Epoch \cup {NoId})]
Journals == [entry : [Call -> Entry], id : [Call -> Epoch \cup {NoId}],
             asked : [Call -> Epoch \cup {NoId}], decided : [Call -> Decision \cup {"none"}]]
Sent     == [name : Call \X Epoch, decision : Decision]
Boxes    == [sent : Seq(Sent), count : [Call -> Nat], claim : [Call -> Decision \cup {"none"}]]
Records  == [at : Phase, id : Epoch \cup {NoId}, verdict : Decision \cup {"none"},
             value : Result]
Attempts == [Epoch -> [phase : {"off", "batch", "gone"}, known : Journals,
                       call : [Call -> Records]]]
Hists    == [ran : [Call -> Nat], under : [Call -> SUBSET (Decision \cup {"none"})],
             told : [Call -> SUBSET Result], outlived : BOOLEAN]

Shape ==
    /\ turn \in Turns /\ run \in Rows /\ journal \in Journals /\ inbox \in Boxes
    /\ att \in Attempts /\ blips \in 0 .. MaxBlips /\ hist \in Hists
    /\ \A c \in Call : inbox.count[c] <= turn.decisions

\* The number of leases is charged to expiries, retries and the risky calls that somebody
\* has answered: no attempt goes to sleep on such a call a second time.
SentFor(c) == \E i \in DOMAIN inbox.sent : inbox.sent[i].name[1] = c
Spent      == {c \in turn.risky : inbox.claim[c] # "none" \/ SentFor(c)}
Charges    == run.expired + run.retries + Cardinality(Spent)

LeasesAreCharged ==
    /\ run.epoch <= 1 + Charges
    /\ run.status = "pending" => run.epoch <= Charges
    /\ run.status = "suspended" /\ run.wake[1] \in Spent \cup {0} => run.epoch <= Charges
    /\ \A e \in Epoch, c \in Spent :
         Fenced(e) /\ att[e].call[c].at \in {"suspending", "suspended"}
            => run.epoch <= Charges

KnownIsTrue ==
    \A e \in Epoch, c \in Call :
        att[e].known.entry[c].state = "completed" => journal.entry[c] = att[e].known.entry[c]

FreshAhead ==
    \A e \in Epoch, c \in Call :
        Fenced(e) /\ att[e].phase = "batch" /\ att[e].call[c].at = "start"
            => journal.entry[c] = att[e].known.entry[c]

HeldIsPending ==
    \A e \in Epoch, c \in Call :
        Holds(e, c) /\ (Fenced(e) \/ c \in Once) => journal.entry[c].state = "pending"

OneHolder ==
    \A c \in Once : \A e, f \in Epoch : Holds(e, c) /\ Holds(f, c) => e = f

Accounts ==
    \A c \in Once :
      /\ hist.ran[c] <= 1
      /\ journal.entry[c].state = "absent" => hist.ran[c] = 0
      /\ \A e \in Epoch : Holds(e, c) /\ att[e].call[c].at # "result" => hist.ran[c] = 0

AnswersAgree ==
    \A c \in Call :
      /\ hist.told[c] # {} => /\ journal.entry[c].state = "completed"
                              /\ hist.told[c] = {journal.entry[c].value}
      /\ \A e \in Epoch : att[e].call[c].at = "done" =>
           /\ journal.entry[c].state = "completed"
           /\ journal.entry[c].value = att[e].call[c].value

EntriesInv ==
    /\ KnownIsTrue /\ FreshAhead /\ HeldIsPending /\ OneHolder /\ Accounts /\ AnswersAgree

IdsAreKnown ==
    \A e \in Epoch, c \in Call :
      /\ att[e].known.id[c] # NoId => journal.id[c] = att[e].known.id[c]
      /\ Fenced(e) /\ att[e].phase = "batch" /\ att[e].call[c].at \in {"start", "name"}
           => journal.id[c] = att[e].known.id[c]

NamesAgree ==
    \A c \in Call :
      /\ journal.id[c] # NoId => c \in turn.risky
      /\ journal.asked[c] # NoId => journal.asked[c] = journal.id[c]
      /\ \A e \in Epoch :
           /\ att[e].call[c].at \in {"name", "heard"} => c \in turn.risky
           /\ att[e].call[c].at \in {"ask", "listen", "suspending", "suspended"} =>
                att[e].call[c].id # NoId /\ att[e].call[c].id = journal.id[c]

SentIsNamed ==
    \A i \in DOMAIN inbox.sent : inbox.sent[i].name[2] = journal.id[inbox.sent[i].name[1]]

DecisionsAgree ==
    \A c \in Call :
      /\ journal.decided[c] # "none" => journal.decided[c] = inbox.claim[c]
      /\ \A e \in Epoch :
           /\ att[e].call[c].at = "heard" =>
                inbox.claim[c] # "none" /\ att[e].call[c].verdict = inbox.claim[c]
           /\ att[e].call[c].at = "run" /\ c \in turn.risky =>
                /\ att[e].call[c].verdict = journal.decided[c]
                /\ journal.decided[c] \notin {"none", "deny"}

NamesInv == IdsAreKnown /\ NamesAgree /\ SentIsNamed /\ DecisionsAgree /\ HeldToDecision

IInv == Shape /\ LeasesAreCharged /\ EntriesInv /\ NamesInv

-----------------------------------------------------------------------------
(* Facts about the constants and the operators.                            *)

\* The calls and the bounds are numbers, and the calls are finitely many.
LEMMA BoundFacts ==
    /\ NCalls \in Nat /\ Call = 1 .. NCalls /\ \A c \in Call : c \in Nat /\ c # 0
    /\ MaxRetries \in Nat /\ MaxExpiries \in Nat /\ MaxBlips \in Nat
    /\ IsFiniteSet(Call) /\ Cardinality(Call) \in Nat
    /\ MaxLease \in Nat /\ MaxLease # 0 /\ Epoch = 1 .. MaxLease
    /\ \A e \in Epoch : e # NoId /\ e \in Nat
<1>1. NCalls \in Nat /\ Call = 1 .. NCalls /\ \A c \in Call : c \in Nat /\ c # 0
  BY CallsAssumption DEF Call
<1>2. IsFiniteSet(Call) /\ Cardinality(Call) \in Nat
  BY <1>1, FS_Interval, FS_CardinalityType
<1>3. MaxRetries \in Nat /\ MaxExpiries \in Nat /\ MaxBlips \in Nat
  BY BoundAssumption
<1>4. MaxLease \in Nat /\ MaxLease # 0
  BY <1>2, <1>3 DEF MaxLease
<1> QED BY <1>1, <1>2, <1>3, <1>4 DEF Epoch, NoId

\* What a turn declares.
LEMMA TurnFacts ==
    ASSUME turn \in Turns
    PROVE  /\ turn.risky \subseteq Call /\ turn.idempotent \subseteq Call
           /\ turn.decisions \in Nat /\ turn.retries \in 0 .. MaxRetries
           /\ turn.retries \in Nat
BY TurnsAssumption, BoundFacts

\* "none" is no decision.
LEMMA DecisionFacts == "none" \notin Decision
BY DecisionAssumption

\* A non-empty set of numbers has a first element.
LEMMA FirstFacts ==
    ASSUME NEW S \in SUBSET Nat, S # {}
    PROVE  First(S) \in S
<1> DEFINE R == OpToRel(<, Nat)
<1>1. IsWellFoundedOn(R, Nat)
  BY NatLessThanWellFounded
<1>2. \A x, y \in Nat : <<y, x>> \in R <=> y < x
  BY DEF OpToRel
<1> HIDE DEF R
<1>3. PICK x \in S : \A y \in S : ~ (<<y, x>> \in R)
  BY <1>1, WFMin
<1>4. \A y \in S : ~(y < x)
  BY <1>2, <1>3
<1>5. \A y \in S : x <= y
  BY <1>4
<1> QED BY <1>5 DEF First

\* Taking an element out of a sequence leaves the others, and adds none.
LEMMA WithoutFacts ==
    ASSUME NEW S, NEW s \in Seq(S), NEW i \in DOMAIN s
    PROVE  /\ Without(s, i) \in Seq(S)
           /\ \A k \in DOMAIN Without(s, i) : \E j \in DOMAIN s : Without(s, i)[k] = s[j]
           /\ \A j \in DOMAIN s : j # i =>
                \E k \in DOMAIN Without(s, i) : Without(s, i)[k] = s[j]
<1> DEFINE l == SubSeq(s, 1, i - 1)
           r == SubSeq(s, i + 1, Len(s))
           n == Len(s)
<1>1. n \in Nat /\ DOMAIN s = 1 .. n /\ i \in 1 .. n /\ \A k \in 1 .. n : s[k] \in S
  BY LenProperties, ElementOfSeq
<1>2. /\ l \in Seq(S) /\ Len(l) = i - 1 /\ \A k \in 1 .. i - 1 : l[k] = s[k]
  <2>1. \A k \in 1 .. i - 1 : s[k] \in S
    BY <1>1
  <2>2. /\ l \in Seq(S)
        /\ Len(l) = IF 1 <= i - 1 THEN (i - 1) - 1 + 1 ELSE 0
        /\ \A k \in 1 .. (i - 1) - 1 + 1 : l[k] = s[1 + k - 1]
    BY <1>1, <2>1, SubSeqProperties
  <2> QED BY <1>1, <2>2
<1>3. /\ r \in Seq(S) /\ Len(r) = n - i /\ \A k \in 1 .. n - i : r[k] = s[i + k]
  <2>1. \A k \in i + 1 .. n : s[k] \in S
    BY <1>1
  <2>2. /\ r \in Seq(S)
        /\ Len(r) = IF i + 1 <= n THEN n - (i + 1) + 1 ELSE 0
        /\ \A k \in 1 .. n - (i + 1) + 1 : r[k] = s[(i + 1) + k - 1]
    BY <1>1, <2>1, SubSeqProperties
  <2>3. /\ i \in Nat /\ n - (i + 1) + 1 = n - i /\ (i + 1 <= n) = (n - i > 0)
        /\ (~(i + 1 <= n) => n - i = 0) /\ \A k \in 1 .. n - i : (i + 1) + k - 1 = i + k
    BY <1>1
  <2> HIDE DEF l, r, n
  <2>4. Len(r) = n - i /\ \A k \in 1 .. n - i : r[k] = s[i + k]
    BY <2>2, <2>3
  <2> QED BY <2>2, <2>4
<1> HIDE DEF l, r, n
<1>4. /\ l \o r \in Seq(S) /\ Len(l \o r) = n - 1
      /\ \A k \in 1 .. n - 1 : (l \o r)[k] = IF k <= i - 1 THEN l[k] ELSE r[k - (i - 1)]
  <2>1. /\ l \o r \in Seq(S) /\ Len(l \o r) = Len(l) + Len(r)
        /\ \A k \in 1 .. Len(l) + Len(r) :
              (l \o r)[k] = IF k <= Len(l) THEN l[k] ELSE r[k - Len(l)]
    BY <1>2, <1>3, ConcatProperties
  <2> QED BY <1>1, <1>2, <1>3, <2>1
<1>5. Without(s, i) = l \o r
  BY DEF Without, l, r
<1>6. DOMAIN (l \o r) = 1 .. n - 1
  BY <1>4, LenProperties
<1>7. \A k \in 1 .. n - 1 : (l \o r)[k] = IF k < i THEN s[k] ELSE s[k + 1]
  <2> SUFFICES ASSUME NEW k \in 1 .. n - 1
               PROVE  (l \o r)[k] = IF k < i THEN s[k] ELSE s[k + 1]
    OBVIOUS
  <2>1. CASE k < i
    <3>1. k \in 1 .. i - 1 /\ k <= i - 1
      BY <1>1, <2>1
    <3> QED BY <1>2, <1>4, <2>1, <3>1
  <2>2. CASE ~(k < i)
    <3>1. k - (i - 1) \in 1 .. n - i /\ ~(k <= i - 1) /\ i + (k - (i - 1)) = k + 1
      BY <1>1, <2>2
    <3> QED BY <1>3, <1>4, <2>2, <3>1
  <2> QED BY <2>1, <2>2
<1>8. \A k \in 1 .. n - 1 : \E j \in 1 .. n : (l \o r)[k] = s[j]
  <2> SUFFICES ASSUME NEW k \in 1 .. n - 1
               PROVE  \E j \in 1 .. n : (l \o r)[k] = s[j]
    OBVIOUS
  <2>1. k \in 1 .. n /\ k + 1 \in 1 .. n
    BY <1>1
  <2> QED BY <1>7, <2>1
<1>9. \A j \in 1 .. n : j # i => \E k \in 1 .. n - 1 : (l \o r)[k] = s[j]
  <2> SUFFICES ASSUME NEW j \in 1 .. n, j # i
               PROVE  \E k \in 1 .. n - 1 : (l \o r)[k] = s[j]
    OBVIOUS
  <2>1. CASE j < i
    <3>1. j \in 1 .. n - 1
      BY <1>1, <2>1
    <3> QED BY <1>7, <2>1, <3>1
  <2>2. CASE j > i
    <3>1. j - 1 \in 1 .. n - 1 /\ ~(j - 1 < i) /\ (j - 1) + 1 = j
      BY <1>1, <2>2
    <3>2. (l \o r)[j - 1] = s[j]
      BY <1>7, <3>1
    <3> QED BY <3>1, <3>2
  <2>3. j < i \/ j > i
    BY <1>1
  <2> QED BY <2>1, <2>2, <2>3
<1>10. Without(s, i) \in Seq(S) /\ DOMAIN Without(s, i) = 1 .. n - 1
  BY <1>4, <1>5, <1>6
<1>11. \A k \in DOMAIN Without(s, i) : \E j \in DOMAIN s : Without(s, i)[k] = s[j]
  <2> SUFFICES ASSUME NEW k \in 1 .. n - 1
               PROVE  \E j \in 1 .. n : Without(s, i)[k] = s[j]
    BY <1>1, <1>10
  <2> QED BY <1>5, <1>8
<1>12. \A j \in DOMAIN s : j # i =>
          \E k \in DOMAIN Without(s, i) : Without(s, i)[k] = s[j]
  <2> SUFFICES ASSUME NEW j \in 1 .. n, j # i
               PROVE  \E k \in 1 .. n - 1 : Without(s, i)[k] = s[j]
    BY <1>1, <1>10
  <2> QED BY <1>5, <1>9
<1> QED BY <1>10, <1>11, <1>12

-----------------------------------------------------------------------------
(* What keeps the parts of the invariant when one call moves on.           *)

\* Moving one call on changes nothing else of the attempts.
LEMMA GoFacts ==
    ASSUME att \in Attempts, NEW e \in Epoch, NEW c \in Call, NEW f \in Records, Go(e, c, f)
    PROVE  /\ att' \in Attempts /\ att'[e].call[c] = f
           /\ \A g \in Epoch :
                /\ att'[g].phase = att[g].phase /\ att'[g].known = att[g].known
                /\ \A d \in Call : g # e \/ d # c => att'[g].call[d] = att[g].call[d]
<1>1. att[e].call \in [Call -> Records]
  BY DEF Attempts
<1>2. att' = [att EXCEPT ![e] = [att[e] EXCEPT !.call = [att[e].call EXCEPT ![c] = f]]]
  BY DEF Go
<1> DEFINE calls == [att[e].call EXCEPT ![c] = f]
           a     == [att[e] EXCEPT !.call = calls]
<1>3. /\ calls \in [Call -> Records] /\ calls[c] = f
      /\ \A d \in Call : d # c => calls[d] = att[e].call[d]
  BY <1>1
<1> HIDE DEF calls
<1>4. /\ a \in [phase : {"off", "batch", "gone"}, known : Journals, call : [Call -> Records]]
      /\ a.phase = att[e].phase /\ a.known = att[e].known /\ a.call = calls
  BY <1>3 DEF Attempts
<1>5. att' = [att EXCEPT ![e] = a]
  BY <1>2 DEF calls
<1> HIDE DEF a
<1> QED BY <1>3, <1>4, <1>5 DEF Attempts

\* A call's step moves the call of one attempt, under the hypotheses of the next lemmas.
CallMoves(e, c) ==
    /\ att[e].phase = "batch" /\ UNCHANGED <<turn, run>>
    /\ att'[e].call[c].at # "start"
    /\ \A g \in Epoch :
         /\ att'[g].phase = att[g].phase /\ att'[g].known = att[g].known
         /\ \A d \in Call : g # e \/ d # c => att'[g].call[d] = att[g].call[d]

\* What a call may do to its entry: only under the lease, and not to a completed one;
\* it takes hold of a call that nobody holds, and the tool runs once while it is held.
LEMMA EntriesStep ==
    ASSUME IInv, NEW e \in Epoch, NEW c \in Call, CallMoves(e, c),
           \A d \in Call : d # c => /\ journal'.entry[d] = journal.entry[d]
                                    /\ hist'.ran[d] = hist.ran[d],
           \A d \in Call : hist'.told[d] = hist.told[d],
           \/ journal'.entry[c] = journal.entry[c]
           \/ /\ Fenced(e) /\ journal.entry[c].state # "completed"
              /\ c \in Once => Holds(e, c) \/ journal.entry[c].state = "absent",
           Holds(e, c)' /\ (Fenced(e) \/ c \in Once) => journal'.entry[c].state = "pending",
           c \in Once /\ Holds(e, c)' => Holds(e, c) \/ journal.entry[c].state = "absent",
           c \in Once => /\ hist'.ran[c] <= 1
                         /\ hist'.ran[c] # hist.ran[c] => Holds(e, c)
                         /\ journal'.entry[c].state = "absent" => hist'.ran[c] = 0
                         /\ Holds(e, c)' /\ att'[e].call[c].at # "result"
                              => hist'.ran[c] = 0,
           att'[e].call[c].at = "done" =>
              /\ journal'.entry[c].state = "completed"
              /\ journal'.entry[c].value = att'[e].call[c].value
    PROVE  EntriesInv'
<1>1. \A g \in Epoch : /\ Fenced(g)' = Fenced(g)
                       /\ Fenced(g) /\ Fenced(e) => g = e
      /\ Once' = Once
  BY DEF Fenced, CallMoves, Once
<1>2. \A g \in Epoch, d \in Call :
        g # e \/ d # c => /\ att'[g].call[d] = att[g].call[d]
                          /\ Holds(g, d)' = Holds(g, d)
  BY DEF CallMoves, Holds
<1>3. \A g \in Epoch : att'[g].phase = att[g].phase /\ att'[g].known = att[g].known
  BY DEF CallMoves
<1>4. \A d \in Call : journal.entry[d].state = "completed"
                        => journal'.entry[d] = journal.entry[d]
  OBVIOUS
<1>5. KnownIsTrue'
  BY <1>3, <1>4 DEF IInv, EntriesInv, KnownIsTrue
<1>6. FreshAhead'
  <2> SUFFICES ASSUME NEW g \in Epoch, NEW d \in Call, Fenced(g), att[g].phase = "batch",
                      att'[g].call[d].at = "start"
               PROVE  journal'.entry[d] = att[g].known.entry[d]
    BY <1>1, <1>3 DEF FreshAhead
  <2>1. g # e \/ d # c
    BY DEF CallMoves
  <2>2. journal.entry[d] = att[g].known.entry[d]
    BY <1>2, <2>1 DEF IInv, EntriesInv, FreshAhead
  <2>3. journal'.entry[d] = journal.entry[d]
    BY <1>1, <2>1
  <2> QED BY <2>2, <2>3
<1>7. \A g \in Epoch : g # e /\ c \in Once /\ Holds(g, c)
                         => ~Holds(e, c) /\ journal.entry[c].state = "pending"
  BY DEF IInv, EntriesInv, OneHolder, HeldIsPending
<1>8. HeldIsPending'
  <2> SUFFICES ASSUME NEW g \in Epoch, NEW d \in Call, Holds(g, d)',
                      Fenced(g) \/ d \in Once
               PROVE  journal'.entry[d].state = "pending"
    BY <1>1 DEF HeldIsPending
  <2>1. CASE g = e /\ d = c
    BY <2>1
  <2>2. CASE g # e \/ d # c
    <3>1. journal.entry[d].state = "pending"
      BY <1>2, <2>2 DEF IInv, EntriesInv, HeldIsPending
    <3>2. journal'.entry[d] = journal.entry[d]
      BY <1>1, <1>2, <1>7, <2>2, <3>1
    <3> QED BY <3>1, <3>2
  <2> QED BY <2>1, <2>2
<1>9. OneHolder'
  <2> SUFFICES ASSUME NEW d \in Once, NEW g \in Epoch, NEW h \in Epoch,
                      Holds(g, d)', Holds(h, d)', g # h
               PROVE  FALSE
    BY <1>1 DEF OneHolder
  <2>1. d \in Call
    BY DEF Once
  <2>2. CASE d = c /\ (g = e \/ h = e)
    BY <1>2, <1>7, <2>1, <2>2
  <2>3. CASE ~(d = c /\ (g = e \/ h = e))
    BY <1>2, <2>1, <2>3 DEF IInv, EntriesInv, OneHolder
  <2> QED BY <2>2, <2>3
<1>10. Accounts'
  <2> SUFFICES ASSUME NEW d \in Once
               PROVE  /\ hist'.ran[d] <= 1
                      /\ journal'.entry[d].state = "absent" => hist'.ran[d] = 0
                      /\ \A g \in Epoch : Holds(g, d)' /\ att'[g].call[d].at # "result"
                                            => hist'.ran[d] = 0
    BY <1>1 DEF Accounts
  <2>1. d \in Call
    BY DEF Once
  <2>2. CASE d # c
    BY <1>2, <2>1, <2>2 DEF IInv, EntriesInv, Accounts
  <2>3. CASE d = c
    <3>1. ASSUME NEW g \in Epoch, g # e, Holds(g, d)', att'[g].call[d].at # "result"
          PROVE  hist'.ran[d] = 0
      <4>1. Holds(g, d) /\ att[g].call[d].at # "result"
        BY <1>2, <2>1, <3>1
      <4>2. hist'.ran[d] = hist.ran[d]
        BY <1>7, <2>3, <3>1, <4>1
      <4> QED BY <4>1, <4>2 DEF IInv, EntriesInv, Accounts
    <3> QED BY <2>3, <3>1
  <2> QED BY <2>2, <2>3
<1>11. AnswersAgree'
  <2> SUFFICES ASSUME NEW d \in Call
               PROVE  /\ hist'.told[d] # {} => /\ journal'.entry[d].state = "completed"
                                               /\ hist'.told[d] = {journal'.entry[d].value}
                      /\ \A g \in Epoch : att'[g].call[d].at = "done" =>
                           /\ journal'.entry[d].state = "completed"
                           /\ journal'.entry[d].value = att'[g].call[d].value
    BY DEF AnswersAgree
  <2>1. hist'.told[d] # {} => /\ journal'.entry[d].state = "completed"
                              /\ hist'.told[d] = {journal'.entry[d].value}
    BY <1>4 DEF IInv, EntriesInv, AnswersAgree
  <2>2. ASSUME NEW g \in Epoch, att'[g].call[d].at = "done"
        PROVE  /\ journal'.entry[d].state = "completed"
               /\ journal'.entry[d].value = att'[g].call[d].value
    <3>1. CASE g = e /\ d = c
      BY <2>2, <3>1
    <3>2. CASE g # e \/ d # c
      <4>1. /\ journal.entry[d].state = "completed"
            /\ journal.entry[d].value = att'[g].call[d].value
        BY <1>2, <2>2, <3>2 DEF IInv, EntriesInv, AnswersAgree
      <4> QED BY <1>4, <4>1
    <3> QED BY <3>1, <3>2
  <2> QED BY <2>1, <2>2
<1> QED BY <1>5, <1>6, <1>8, <1>9, <1>10, <1>11 DEF EntriesInv

\* What a call may do to the name of its request and to what was decided of it: each is
\* set once, the name under the lease; and it goes on with what they are.
LEMMA NamesStep ==
    ASSUME IInv, NEW e \in Epoch, NEW c \in Call, CallMoves(e, c), inbox' \in Boxes,
           \A d \in Call : d # c =>
              /\ journal'.id[d] = journal.id[d] /\ journal'.asked[d] = journal.asked[d]
              /\ journal'.decided[d] = journal.decided[d]
              /\ inbox'.claim[d] = inbox.claim[d] /\ hist'.under[d] = hist.under[d],
           \/ journal'.id[c] = journal.id[c]
           \/ Fenced(e) /\ journal.id[c] = NoId /\ c \in turn.risky,
           \/ journal'.asked[c] = journal.asked[c] \/ journal'.asked[c] = journal'.id[c],
           \A i \in DOMAIN inbox'.sent :
              \E j \in DOMAIN inbox.sent : inbox'.sent[i] = inbox.sent[j],
           inbox'.claim[c] = inbox.claim[c] \/ inbox.claim[c] = "none",
           \/ journal'.decided[c] = journal.decided[c]
           \/ journal.decided[c] = "none" /\ journal'.decided[c] = inbox'.claim[c],
           \/ hist'.under[c] = hist.under[c]
           \/ /\ journal'.decided[c] = journal.decided[c]
              /\ c \in turn.risky =>
                   hist'.under[c] \subseteq hist.under[c] \cup
                                            ({journal.decided[c]} \ {"none", "deny"}),
           att'[e].call[c].at = "name" =>
              /\ att[e].call[c].at = "start" /\ journal'.id[c] = journal.id[c]
              /\ c \in turn.risky,
           att'[e].call[c].at \in {"ask", "listen", "suspending", "suspended"} =>
              att'[e].call[c].id # NoId /\ att'[e].call[c].id = journal'.id[c],
           att'[e].call[c].at = "heard" =>
              /\ c \in turn.risky
              /\ inbox'.claim[c] # "none" /\ att'[e].call[c].verdict = inbox'.claim[c],
           att'[e].call[c].at = "run" /\ c \in turn.risky =>
              /\ att'[e].call[c].verdict = journal'.decided[c]
              /\ journal'.decided[c] \notin {"none", "deny"}
    PROVE  NamesInv'
<1>1. /\ turn' = turn
      /\ \A g \in Epoch : /\ Fenced(g)' = Fenced(g)
                          /\ Fenced(g) /\ Fenced(e) => g = e
                          /\ att'[g].phase = att[g].phase /\ att'[g].known = att[g].known
      /\ \A g \in Epoch, d \in Call :
           g # e \/ d # c => att'[g].call[d] = att[g].call[d]
  BY DEF Fenced, CallMoves
<1>2. \A d \in Call : journal.id[d] # NoId => journal'.id[d] = journal.id[d]
  OBVIOUS
<1>3. IdsAreKnown'
  <2> SUFFICES ASSUME NEW g \in Epoch, NEW d \in Call
               PROVE  /\ att[g].known.id[d] # NoId => journal'.id[d] = att[g].known.id[d]
                      /\ Fenced(g) /\ att[g].phase = "batch"
                           /\ att'[g].call[d].at \in {"start", "name"}
                           => journal'.id[d] = att[g].known.id[d]
    BY <1>1 DEF IdsAreKnown
  <2>1. att[g].known.id[d] # NoId => journal'.id[d] = att[g].known.id[d]
    BY <1>2 DEF IInv, NamesInv, IdsAreKnown
  <2>2. Fenced(g) /\ att[g].phase = "batch" /\ att'[g].call[d].at \in {"start", "name"}
          => journal'.id[d] = att[g].known.id[d]
    <3> SUFFICES ASSUME Fenced(g), att[g].phase = "batch",
                        att'[g].call[d].at \in {"start", "name"}
                 PROVE  journal'.id[d] = att[g].known.id[d]
      OBVIOUS
    <3>1. CASE g = e /\ d = c
      BY <3>1 DEF IInv, NamesInv, IdsAreKnown, CallMoves
    <3>2. CASE g # e \/ d # c
      <4>1. journal.id[d] = att[g].known.id[d]
        BY <1>1, <3>2 DEF IInv, NamesInv, IdsAreKnown
      <4>2. journal'.id[d] = journal.id[d]
        BY <1>1, <3>2
      <4> QED BY <4>1, <4>2
    <3> QED BY <3>1, <3>2
  <2> QED BY <2>1, <2>2
<1>4. NamesAgree'
  <2> SUFFICES ASSUME NEW d \in Call
               PROVE  /\ journal'.id[d] # NoId => d \in turn.risky
                      /\ journal'.asked[d] # NoId => journal'.asked[d] = journal'.id[d]
                      /\ \A g \in Epoch :
                           /\ att'[g].call[d].at \in {"name", "heard"} => d \in turn.risky
                           /\ att'[g].call[d].at \in {"ask", "listen", "suspending",
                                                      "suspended"} =>
                                /\ att'[g].call[d].id # NoId
                                /\ att'[g].call[d].id = journal'.id[d]
    BY <1>1 DEF NamesAgree
  <2>1. journal'.id[d] # NoId => d \in turn.risky
    BY DEF IInv, NamesInv, NamesAgree
  <2>2. journal'.asked[d] # NoId => journal'.asked[d] = journal'.id[d]
    BY <1>2 DEF IInv, NamesInv, NamesAgree
  <2>3. ASSUME NEW g \in Epoch
        PROVE  /\ att'[g].call[d].at \in {"name", "heard"} => d \in turn.risky
               /\ att'[g].call[d].at \in {"ask", "listen", "suspending", "suspended"} =>
                    att'[g].call[d].id # NoId /\ att'[g].call[d].id = journal'.id[d]
    <3>1. CASE g = e /\ d = c
      BY <3>1
    <3>2. CASE g # e \/ d # c
      BY <1>1, <1>2, <3>2 DEF IInv, NamesInv, NamesAgree
    <3> QED BY <3>1, <3>2
  <2> QED BY <2>1, <2>2, <2>3
<1>5. SentIsNamed'
  <2> SUFFICES ASSUME NEW i \in DOMAIN inbox'.sent
               PROVE  inbox'.sent[i].name[2] = journal'.id[inbox'.sent[i].name[1]]
    BY DEF SentIsNamed
  <2>1. PICK j \in DOMAIN inbox.sent : inbox'.sent[i] = inbox.sent[j]
    OBVIOUS
  <2>2. inbox.sent[j] \in Sent
    BY LenProperties, ElementOfSeq DEF IInv, Shape, Boxes
  <2>3. inbox.sent[j].name[1] \in Call /\ inbox.sent[j].name[2] \in Epoch
    BY <2>2 DEF Sent
  <2>4. inbox.sent[j].name[2] = journal.id[inbox.sent[j].name[1]]
    BY DEF IInv, NamesInv, SentIsNamed
  <2>5. journal'.id[inbox.sent[j].name[1]] = journal.id[inbox.sent[j].name[1]]
    BY <1>2, <2>3, <2>4, BoundFacts
  <2> QED BY <2>1, <2>4, <2>5
<1>6. DecisionsAgree'
  <2> SUFFICES ASSUME NEW d \in Call
               PROVE  /\ journal'.decided[d] # "none" =>
                           journal'.decided[d] = inbox'.claim[d]
                      /\ \A g \in Epoch :
                           /\ att'[g].call[d].at = "heard" =>
                                /\ inbox'.claim[d] # "none"
                                /\ att'[g].call[d].verdict = inbox'.claim[d]
                           /\ att'[g].call[d].at = "run" /\ d \in turn.risky =>
                                /\ att'[g].call[d].verdict = journal'.decided[d]
                                /\ journal'.decided[d] \notin {"none", "deny"}
    BY <1>1 DEF DecisionsAgree
  <2>1. inbox.claim[d] # "none" => inbox'.claim[d] = inbox.claim[d]
    OBVIOUS
  <2>2. journal.decided[d] # "none" => journal'.decided[d] = journal.decided[d]
    OBVIOUS
  <2>3. journal'.decided[d] # "none" => journal'.decided[d] = inbox'.claim[d]
    BY <2>1 DEF IInv, NamesInv, DecisionsAgree
  <2>4. ASSUME NEW g \in Epoch
        PROVE  /\ att'[g].call[d].at = "heard" =>
                    inbox'.claim[d] # "none" /\ att'[g].call[d].verdict = inbox'.claim[d]
               /\ att'[g].call[d].at = "run" /\ d \in turn.risky =>
                    /\ att'[g].call[d].verdict = journal'.decided[d]
                    /\ journal'.decided[d] \notin {"none", "deny"}
    <3>1. CASE g = e /\ d = c
      BY <3>1
    <3>2. CASE g # e \/ d # c
      BY <1>1, <2>1, <2>2, <3>2 DEF IInv, NamesInv, DecisionsAgree
    <3> QED BY <3>1, <3>2
  <2> QED BY <2>3, <2>4
<1>7. HeldToDecision'
  <2> SUFFICES ASSUME NEW d \in turn.risky
               PROVE  hist'.under[d] \subseteq {journal'.decided[d]} \ {"none", "deny"}
    BY <1>1 DEF HeldToDecision
  <2>1. hist.under[d] \subseteq {journal.decided[d]} \ {"none", "deny"} /\ d \in Call
    BY TurnFacts DEF IInv, Shape, NamesInv, HeldToDecision
  <2>2. CASE journal'.decided[d] = journal.decided[d]
    BY <2>1, <2>2
  <2>3. CASE journal'.decided[d] # journal.decided[d]
    <3>1. journal.decided[d] = "none" /\ hist'.under[d] = hist.under[d]
      BY <2>1, <2>3
    <3> QED BY <2>1, <3>1
  <2> QED BY <2>2, <2>3
<1> QED BY <1>3, <1>4, <1>5, <1>6, <1>7 DEF NamesInv

\* What a call holds it goes on holding, or lets go, when its entry stays as it is.
LEMMA EntriesQuiet ==
    ASSUME IInv, NEW e \in Epoch, NEW c \in Call, CallMoves(e, c),
           \A d \in Call : /\ journal'.entry[d] = journal.entry[d]
                           /\ hist'.ran[d] = hist.ran[d] /\ hist'.told[d] = hist.told[d],
           Holds(e, c)' =>
              \/ /\ Holds(e, c)
                 /\ att[e].call[c].at = "result" => att'[e].call[c].at = "result"
              \/ c \notin Once /\ (Fenced(e) => journal.entry[c].state = "pending"),
           att'[e].call[c].at = "done" =>
              /\ journal.entry[c].state = "completed"
              /\ journal.entry[c].value = att'[e].call[c].value
    PROVE  EntriesInv'
<1>1. Holds(e, c)' /\ (Fenced(e) \/ c \in Once) => journal'.entry[c].state = "pending"
  BY DEF IInv, EntriesInv, HeldIsPending
<1>2. c \in Once => /\ hist'.ran[c] <= 1
                    /\ journal'.entry[c].state = "absent" => hist'.ran[c] = 0
                    /\ Holds(e, c)' /\ att'[e].call[c].at # "result" => hist'.ran[c] = 0
  BY DEF IInv, EntriesInv, Accounts
<1> QED BY <1>1, <1>2, EntriesStep

\* A call that touches neither its request nor its decision.
LEMMA NamesQuiet ==
    ASSUME IInv, NEW e \in Epoch, NEW c \in Call, CallMoves(e, c), inbox' = inbox,
           \A d \in Call :
              /\ journal'.id[d] = journal.id[d] /\ journal'.asked[d] = journal.asked[d]
              /\ journal'.decided[d] = journal.decided[d]
              /\ hist'.under[d] = hist.under[d],
           att'[e].call[c].at = "name" => att[e].call[c].at = "start" /\ c \in turn.risky,
           att'[e].call[c].at \in {"ask", "listen", "suspending", "suspended"} =>
              /\ att[e].call[c].at \in {"ask", "listen", "suspending", "suspended"}
              /\ att'[e].call[c].id = att[e].call[c].id,
           att'[e].call[c].at # "heard",
           att'[e].call[c].at = "run" => c \notin turn.risky
    PROVE  NamesInv'
<1>1. att'[e].call[c].at \in {"ask", "listen", "suspending", "suspended"} =>
        att'[e].call[c].id # NoId /\ att'[e].call[c].id = journal'.id[c]
  BY DEF IInv, NamesInv, NamesAgree
<1>2. inbox' \in Boxes
  BY DEF IInv, Shape
<1> QED BY <1>1, <1>2, NamesStep

\* What is charged to the risky calls.
LEMMA SpentFacts ==
    ASSUME Shape
    PROVE  /\ IsFiniteSet(Spent) /\ Cardinality(Spent) \in Nat
           /\ Cardinality(Spent) <= Cardinality(turn.risky)
           /\ Cardinality(turn.risky) \in Nat
           /\ Cardinality(turn.risky) <= Cardinality(Call)
<1>1. IsFiniteSet(turn.risky) /\ Cardinality(turn.risky) <= Cardinality(Call)
  BY BoundFacts, TurnFacts, FS_Subset DEF Shape
<1> QED BY <1>1, FS_Subset, FS_CardinalityType DEF Spent

\* The charges, spelt out for the arithmetic.
LEMMA ChargesFacts ==
    ASSUME IInv
    PROVE  /\ run.expired \in Nat /\ run.retries \in Nat /\ run.epoch \in Nat
           /\ Cardinality(Spent) \in Nat /\ Charges \in Nat
           /\ Charges = run.expired + run.retries + Cardinality(Spent)
           /\ run.epoch <= 1 + Charges
<1>1. run.expired \in Nat /\ run.retries \in Nat /\ run.epoch \in Nat
  BY BoundFacts, TurnFacts DEF IInv, Shape, Rows
<1> QED BY <1>1, SpentFacts DEF Charges, IInv, LeasesAreCharged

\* A call that moves on within the shapes, going to sleep only if nobody has answered.
LEMMA CallStep ==
    ASSUME IInv, NEW e \in Epoch, NEW c \in Call, CallMoves(e, c),
           att' \in Attempts, journal' \in Journals, inbox' \in Boxes, hist' \in Hists,
           inbox'.count = inbox.count, blips' \in 0 .. MaxBlips, Spent' = Spent,
           c \in Spent /\ att'[e].call[c].at \in {"suspending", "suspended"} =>
              att[e].call[c].at \in {"suspending", "suspended"},
           EntriesInv', NamesInv'
    PROVE  IInv'
<1>1. turn' = turn /\ run' = run /\ \A g \in Epoch : Fenced(g)' = Fenced(g)
  BY DEF CallMoves, Fenced
<1>2. Shape'
  BY <1>1 DEF IInv, Shape, Rows
<1>3. Charges' = Charges
  BY <1>1 DEF Charges
<1>4. LeasesAreCharged'
  <2>1. \A g \in Epoch, d \in Spent :
          Fenced(g) /\ att'[g].call[d].at \in {"suspending", "suspended"}
             => run.epoch <= Charges
    <3> SUFFICES ASSUME NEW g \in Epoch, NEW d \in Spent, Fenced(g),
                        att'[g].call[d].at \in {"suspending", "suspended"}
                 PROVE  run.epoch <= Charges
      OBVIOUS
    <3>1. d \in Call
      BY TurnFacts DEF Spent, IInv, Shape
    <3>2. att[g].call[d].at \in {"suspending", "suspended"}
      BY <3>1 DEF CallMoves
    <3> QED BY <3>2 DEF IInv, LeasesAreCharged
  <2> QED BY <1>1, <1>3, <2>1 DEF IInv, LeasesAreCharged
<1> QED BY <1>2, <1>4 DEF IInv

\* A commit took place, was refused, or blipped.
LEMMA CommitFacts ==
    ASSUME IInv, NEW e \in Epoch, NEW c \in Call, att[e].phase = "batch",
           NEW j \in Journals, NEW ok \in Records, NEW failed \in Records,
           ok.at # "start", failed.at # "start", UNCHANGED <<turn, run>>,
           Commit(e, c, j, ok, failed)
    PROVE  /\ att' \in Attempts /\ journal' \in Journals /\ blips' \in 0 .. MaxBlips
           /\ CallMoves(e, c)
           /\ \/ Fenced(e) /\ journal' = j /\ att'[e].call[c] = ok
              \/ journal' = journal /\ att'[e].call[c].at = "lost"
              \/ Fenced(e) /\ journal' \in {j, journal} /\ att'[e].call[c] = failed
<1>1. att \in Attempts /\ journal \in Journals /\ blips \in 0 .. MaxBlips
  BY DEF IInv, Shape
<1> DEFINE lost == [Of(e, c) EXCEPT !.at = "lost"]
<1>2. lost \in Records /\ lost.at = "lost"
  <2>1. Of(e, c) \in Records /\ "lost" \in Phase
    BY <1>1 DEF Attempts, Of, Phase, Over
  <2> QED BY <2>1 DEF Records
<1> HIDE DEF lost
<1>3. PICK f \in {ok, failed, lost} :
        /\ Go(e, c, f)
        /\ \/ Fenced(e) /\ journal' = j /\ f = ok
           \/ journal' = journal /\ f = lost
           \/ Fenced(e) /\ journal' \in {j, journal} /\ f = failed
  BY DEF Commit, lost
<1>4. /\ f \in Records /\ f.at # "start"
  BY <1>2
<1>5. blips' \in 0 .. MaxBlips
  BY <1>1, BoundFacts DEF Commit
<1>6. /\ att' \in Attempts /\ att'[e].call[c] = f
      /\ \A g \in Epoch :
           /\ att'[g].phase = att[g].phase /\ att'[g].known = att[g].known
           /\ \A d \in Call : g # e \/ d # c => att'[g].call[d] = att[g].call[d]
  BY <1>1, <1>3, <1>4, GoFacts
<1>7. CallMoves(e, c)
  BY <1>4, <1>6 DEF CallMoves
<1> QED BY <1>1, <1>2, <1>3, <1>5, <1>6, <1>7

\* The shapes an attempt's call can be given.
LEMMA CallFacts ==
    ASSUME IInv, NEW e \in Epoch, NEW c \in Call
    PROVE  /\ att \in Attempts /\ journal \in Journals /\ inbox \in Boxes /\ hist \in Hists
           /\ blips \in 0 .. MaxBlips /\ Of(e, c) = att[e].call[c] /\ Of(e, c) \in Records
           /\ \A phase \in Phase :
                /\ To(e, c, phase) \in Records /\ To(e, c, phase).at = phase
                /\ To(e, c, phase).id = Of(e, c).id
                /\ To(e, c, phase).verdict = Of(e, c).verdict
                /\ To(e, c, phase).value = Of(e, c).value
           /\ \A status \in {"ok", "denied", "error"} :
                /\ Finds(e, c, status) \in Records /\ Finds(e, c, status).at = "result"
                /\ Finds(e, c, status).id = Of(e, c).id
                /\ Finds(e, c, status).verdict = Of(e, c).verdict
           /\ att[e].known \in Journals /\ Blank \in Entry /\ NoResult \in Result
<1>1. /\ att \in Attempts /\ journal \in Journals /\ inbox \in Boxes /\ hist \in Hists
      /\ blips \in 0 .. MaxBlips
  BY DEF IInv, Shape
<1>2. /\ Of(e, c) \in Records /\ att[e].known \in Journals /\ Of(e, c) = att[e].call[c]
  BY <1>1 DEF Attempts, Of
<1>3. \A phase \in Phase :
        /\ To(e, c, phase) \in Records /\ To(e, c, phase).at = phase
        /\ To(e, c, phase).id = Of(e, c).id
        /\ To(e, c, phase).verdict = Of(e, c).verdict
        /\ To(e, c, phase).value = Of(e, c).value
  BY <1>2 DEF To, Records
<1>4. \A status \in {"ok", "denied", "error"} :
        /\ Finds(e, c, status) \in Records /\ Finds(e, c, status).at = "result"
        /\ Finds(e, c, status).id = Of(e, c).id
        /\ Finds(e, c, status).verdict = Of(e, c).verdict
  <2> SUFFICES ASSUME NEW status \in {"ok", "denied", "error"}
               PROVE  /\ Finds(e, c, status) \in Records /\ Finds(e, c, status).at = "result"
                      /\ Finds(e, c, status).id = Of(e, c).id
                      /\ Finds(e, c, status).verdict = Of(e, c).verdict
    OBVIOUS
  <2>1. [by |-> e, status |-> status] \in Result /\ "result" \in Phase
    BY DEF Result, Phase
  <2> QED BY <1>2, <2>1 DEF Finds, Records
<1>5. Blank \in Entry /\ NoResult \in Result
  BY DEF Blank, Entry, Result
<1> QED BY <1>1, <1>2, <1>3, <1>4, <1>5

-----------------------------------------------------------------------------
(* The steps of a call.                                                    *)

\* A result that was read long ago is still the journal's.
LEMMA ReplayInv ==
    ASSUME IInv, NEW e \in Epoch, NEW c \in Call, Replay(e, c)
    PROVE  IInv'
<1> DEFINE done == [To(e, c, "done") EXCEPT !.value = Kept(e, c).value]
<1>1. /\ att[e].phase = "batch" /\ att[e].call[c].at = "start"
      /\ Kept(e, c).state = "completed" /\ UNCHANGED <<turn, run, inbox, hist>>
      /\ Commit(e, c, journal, done, To(e, c, "raised"))
  BY DEF Replay, At
<1>2. journal.entry[c] = Kept(e, c)
  BY <1>1 DEF IInv, EntriesInv, KnownIsTrue, Kept
<1>3. /\ done \in Records /\ done.at = "done" /\ done.value = journal.entry[c].value
      /\ To(e, c, "raised") \in Records /\ To(e, c, "raised").at = "raised"
  <2>1. "done" \in Phase /\ "raised" \in Phase
    BY DEF Phase, Over
  <2>2. journal.entry[c].value \in Result
    BY CallFacts DEF Journals, Entry
  <2>3. /\ To(e, c, "raised") \in Records /\ To(e, c, "raised").at = "raised"
        /\ To(e, c, "done") \in Records /\ To(e, c, "done").at = "done"
    BY <2>1, CallFacts
  <2> QED BY <1>2, <2>2, <2>3 DEF Records
<1> HIDE DEF done
<1>4. /\ att' \in Attempts /\ blips' \in 0 .. MaxBlips /\ CallMoves(e, c)
      /\ journal' = journal /\ journal \in Journals
      /\ \/ att'[e].call[c] = done
         \/ att'[e].call[c].at \in {"lost", "raised"}
  BY <1>1, <1>3, CallFacts, CommitFacts
<1>5. /\ att'[e].call[c].at \in {"done", "lost", "raised"}
      /\ att'[e].call[c].at = "done" =>
           att'[e].call[c].value = journal.entry[c].value
  BY <1>3, <1>4
<1>6. EntriesInv'
  BY <1>1, <1>2, <1>4, <1>5, EntriesQuiet DEF Holds, Held
<1>7. NamesInv'
  BY <1>1, <1>4, <1>5, NamesQuiet
<1>8. Spent' = Spent /\ inbox \in Boxes /\ hist \in Hists
  BY <1>1, CallFacts DEF Spent, SentFor
<1> QED BY <1>1, <1>4, <1>5, <1>6, <1>7, <1>8, CallStep

\* Where a body begins.
LEMMA BodyFacts ==
    ASSUME IInv, NEW e \in Epoch, NEW c \in Call
    PROVE  /\ Body(e, c) \in Records /\ Body(e, c).at \in {"name", "run"}
           /\ Body(e, c).at = "name" <=> c \in turn.risky
           /\ To(e, c, "raised") \in Records /\ To(e, c, "raised").at = "raised"
<1>1. "name" \in Phase /\ "run" \in Phase /\ "raised" \in Phase
  BY DEF Phase, Over
<1> QED BY <1>1, CallFacts DEF Body

\* What a call writes into its entry when it lets go of it.
LEMMA LetGoFacts ==
    ASSUME IInv, NEW c \in Call, NEW entry \in Entry
    PROVE  LET j == [journal EXCEPT !.entry[c] = entry]
           IN  /\ j \in Journals /\ j.entry[c] = entry
               /\ j.id = journal.id /\ j.asked = journal.asked
               /\ j.decided = journal.decided
               /\ \A d \in Call : d # c => j.entry[d] = journal.entry[d]
<1>1. journal \in Journals
  BY DEF IInv, Shape
<1>2. [journal EXCEPT !.entry[c] = entry]
        = [journal EXCEPT !.entry = [journal.entry EXCEPT ![c] = entry]]
  OBVIOUS
<1> QED BY <1>1, <1>2 DEF Journals

\* A call in doubt is begun again only if that is safe; if its second beginning cannot be
\* logged, its intent is taken back.
LEMMA ResumeInv ==
    ASSUME IInv, NEW e \in Epoch, NEW c \in Call, Resume(e, c)
    PROVE  IInv'
<1> DEFINE j == [journal EXCEPT !.entry[c] = Blank]
<1>1. /\ att[e].phase = "batch" /\ att[e].call[c].at = "start"
      /\ Kept(e, c).state = "pending" /\ UNCHANGED <<turn, run, inbox, hist>>
  BY DEF Resume, At
<1>2. /\ Blank \in Entry /\ Blank.state = "absent"
  BY CallFacts DEF Blank
<1>3. /\ j \in Journals /\ j.entry[c] = Blank
      /\ j.id = journal.id /\ j.asked = journal.asked /\ j.decided = journal.decided
      /\ \A d \in Call : d # c => j.entry[d] = journal.entry[d]
  BY <1>2, LetGoFacts
<1>4. /\ att' \in Attempts /\ blips' \in 0 .. MaxBlips /\ CallMoves(e, c)
      /\ journal' \in Journals
      /\ \/ journal' = journal
         \/ /\ journal' = j /\ Fenced(e) /\ c \notin Once
            /\ att'[e].call[c].at = "raised"
      /\ \/ att'[e].call[c].at \in {"orphan", "lost", "raised"}
         \/ att'[e].call[c] = Body(e, c) /\ c \notin Once
  <2>1. CASE /\ c \in turn.idempotent
             /\ Commit(e, c, journal, Body(e, c), To(e, c, "raised"))
    BY <1>1, <2>1, BodyFacts, CallFacts, CommitFacts DEF Once
  <2>2. CASE /\ c \in turn.idempotent
             /\ Fenced(e) /\ blips < MaxBlips /\ blips' = blips + 1 /\ journal' = j
             /\ Go(e, c, To(e, c, "raised"))
    <3>1. MaxBlips \in Nat /\ blips \in 0 .. MaxBlips
      BY BoundAssumption, CallFacts
    <3>2. blips' \in 0 .. MaxBlips
      BY <2>2, <3>1
    <3>3. To(e, c, "raised") \in Records /\ To(e, c, "raised").at = "raised"
      BY BodyFacts
    <3>4. /\ att' \in Attempts /\ att'[e].call[c].at = "raised"
          /\ \A g \in Epoch :
               /\ att'[g].phase = att[g].phase /\ att'[g].known = att[g].known
               /\ \A d \in Call : g # e \/ d # c => att'[g].call[d] = att[g].call[d]
      BY <2>2, <3>3, CallFacts, GoFacts
    <3>5. CallMoves(e, c)
      BY <1>1, <3>4 DEF CallMoves
    <3> HIDE DEF j
    <3> QED BY <1>3, <2>2, <3>2, <3>4, <3>5 DEF Once
  <2>3. CASE c \notin turn.idempotent
    <3>1. Go(e, c, To(e, c, "orphan")) /\ UNCHANGED <<journal, blips>>
      BY <2>3 DEF Resume
    <3>2. To(e, c, "orphan") \in Records /\ To(e, c, "orphan").at = "orphan"
      BY CallFacts DEF Phase, Over
    <3> QED BY <1>1, <3>1, <3>2, CallFacts, GoFacts DEF CallMoves
  <2> QED BY <2>1, <2>2, <2>3 DEF Resume
<1> HIDE DEF j
<1>5. Fenced(e) => journal.entry[c].state = "pending"
  BY <1>1 DEF IInv, EntriesInv, FreshAhead, Kept
<1>6. /\ att'[e].call[c].at \in {"orphan", "lost", "raised", "name", "run"}
      /\ att'[e].call[c].at \in {"name", "run"} =>
           /\ c \notin Once /\ journal' = journal
           /\ att'[e].call[c].at = "name" <=> c \in turn.risky
  BY <1>4, BodyFacts
<1>7. /\ \A d \in Call : /\ d # c => journal'.entry[d] = journal.entry[d]
                         /\ journal'.id[d] = journal.id[d]
                         /\ journal'.asked[d] = journal.asked[d]
                         /\ journal'.decided[d] = journal.decided[d]
      /\ \/ journal'.entry[c] = journal.entry[c]
         \/ Fenced(e) /\ journal.entry[c].state # "completed" /\ c \notin Once
  BY <1>3, <1>4, <1>5
<1>8. EntriesInv'
  <2>1. c \in Once => /\ hist.ran[c] <= 1
                      /\ journal'.entry[c].state = "absent" => hist.ran[c] = 0
    BY <1>7 DEF IInv, EntriesInv, Accounts
  <2>2. Holds(e, c)' => c \notin Once /\ journal' = journal
    BY <1>6 DEF Holds, Held
  <2> QED BY <1>1, <1>4, <1>5, <1>6, <1>7, <2>1, <2>2, EntriesStep
<1>9. NamesInv'
  BY <1>1, <1>4, <1>6, <1>7, NamesQuiet
<1>10. Spent' = Spent /\ inbox \in Boxes /\ hist \in Hists
  BY <1>1, CallFacts DEF Spent, SentFor
<1> QED BY <1>1, <1>4, <1>6, <1>8, <1>9, <1>10, CallStep

\* Only the attempt that holds the lease begins a call that the journal does not know.
LEMMA IntendInv ==
    ASSUME IInv, NEW e \in Epoch, NEW c \in Call, Intend(e, c)
    PROVE  IInv'
<1> DEFINE j == [journal EXCEPT !.entry[c].state = "pending"]
<1>1. /\ att[e].phase = "batch" /\ att[e].call[c].at = "start"
      /\ Kept(e, c).state = "absent" /\ UNCHANGED <<turn, run, inbox, hist>>
      /\ Commit(e, c, j, Body(e, c), To(e, c, "raised"))
  BY DEF Intend, At
<1>2. /\ j \in Journals /\ j.entry[c].state = "pending"
      /\ j.id = journal.id /\ j.asked = journal.asked /\ j.decided = journal.decided
      /\ \A d \in Call : d # c => j.entry[d] = journal.entry[d]
  <2> DEFINE entry == [journal.entry[c] EXCEPT !.state = "pending"]
  <2>1. journal \in Journals /\ entry \in Entry /\ entry.state = "pending"
    BY CallFacts DEF Journals, Entry
  <2>2. j = [journal EXCEPT !.entry = [journal.entry EXCEPT ![c] = entry]]
    OBVIOUS
  <2> HIDE DEF entry
  <2> QED BY <2>1, <2>2 DEF Journals
<1> HIDE DEF j
<1>3. /\ att' \in Attempts /\ blips' \in 0 .. MaxBlips /\ CallMoves(e, c)
      /\ journal' \in Journals
      /\ \/ Fenced(e) /\ journal' = j /\ att'[e].call[c] = Body(e, c)
         \/ journal' = journal /\ att'[e].call[c].at = "lost"
         \/ Fenced(e) /\ journal' \in {j, journal} /\ att'[e].call[c].at = "raised"
  BY <1>1, <1>2, BodyFacts, CommitFacts
<1>4. Fenced(e) => journal.entry[c].state = "absent"
  BY <1>1 DEF IInv, EntriesInv, FreshAhead, Kept
<1>5. /\ att'[e].call[c].at \in {"lost", "raised", "name", "run"}
      /\ att'[e].call[c].at \in {"name", "run"} =>
           /\ Fenced(e) /\ journal' = j
           /\ att'[e].call[c].at = "name" <=> c \in turn.risky
      /\ journal' = journal \/ (journal' = j /\ Fenced(e))
  BY <1>3, BodyFacts
<1>6. /\ \A d \in Call : /\ d # c => journal'.entry[d] = journal.entry[d]
                         /\ journal'.id[d] = journal.id[d]
                         /\ journal'.asked[d] = journal.asked[d]
                         /\ journal'.decided[d] = journal.decided[d]
      /\ \/ journal'.entry[c] = journal.entry[c]
         \/ /\ Fenced(e) /\ journal.entry[c].state = "absent"
            /\ journal'.entry[c].state = "pending"
      /\ Holds(e, c)' => /\ journal.entry[c].state = "absent"
                         /\ journal'.entry[c].state = "pending"
  BY <1>2, <1>4, <1>5 DEF Holds, Held
<1>7. EntriesInv'
  <2>1. c \in Once => /\ hist.ran[c] <= 1
                      /\ journal'.entry[c].state = "absent" => hist.ran[c] = 0
                      /\ Holds(e, c)' => hist.ran[c] = 0
    BY <1>6 DEF IInv, EntriesInv, Accounts
  <2> QED BY <1>1, <1>3, <1>5, <1>6, <2>1, EntriesStep
<1>8. NamesInv'
  BY <1>1, <1>3, <1>5, <1>6, NamesQuiet
<1>9. Spent' = Spent /\ inbox \in Boxes /\ hist \in Hists
  BY <1>1, CallFacts DEF Spent, SentFor
<1> QED BY <1>1, <1>3, <1>5, <1>7, <1>8, <1>9, CallStep

\* A request is given a name once, by an attempt that holds the lease.
LEMMA NameRequestInv ==
    ASSUME IInv, NEW e \in Epoch, NEW c \in Call, NameRequest(e, c)
    PROVE  IInv'
<1> DEFINE known == att[e].known.id[c]
           named(id) == [To(e, c, "ask") EXCEPT !.id = id]
           j == [journal EXCEPT !.id[c] = e]
<1>1. /\ att[e].phase = "batch" /\ att[e].call[c].at = "name"
      /\ UNCHANGED <<turn, run, inbox, hist>>
  BY DEF NameRequest, At
<1>2. /\ "ask" \in Phase /\ "result" \in Phase /\ known \in Epoch \cup {NoId}
      /\ Finds(e, c, "error") \in Records /\ Finds(e, c, "error").at = "result"
  BY CallFacts DEF Phase, Journals
<1>3. \A id \in Epoch \cup {NoId} :
        named(id) \in Records /\ named(id).at = "ask" /\ named(id).id = id
  <2>1. To(e, c, "ask") \in Records /\ To(e, c, "ask").at = "ask"
    BY <1>2, CallFacts
  <2> QED BY <2>1 DEF Records
<1>4. /\ j \in Journals /\ j.id[c] = e
      /\ j.entry = journal.entry /\ j.asked = journal.asked /\ j.decided = journal.decided
      /\ \A d \in Call : d # c => j.id[d] = journal.id[d]
  <2>1. journal \in Journals
    BY CallFacts
  <2>2. j = [journal EXCEPT !.id = [journal.id EXCEPT ![c] = e]]
    OBVIOUS
  <2> QED BY <2>1, <2>2 DEF Journals
<1>5. /\ Fenced(e) => journal.id[c] = known
      /\ known # NoId => journal.id[c] = known
      /\ c \in turn.risky /\ e # NoId
  BY <1>1, BoundFacts DEF IInv, NamesInv, IdsAreKnown, NamesAgree
<1>6. /\ att' \in Attempts /\ journal' \in Journals /\ blips' \in 0 .. MaxBlips
      /\ CallMoves(e, c)
      /\ \/ /\ journal' = journal /\ known # NoId /\ att'[e].call[c].at = "ask"
            /\ att'[e].call[c].id = known
         \/ /\ Fenced(e) /\ journal' = j /\ known = NoId /\ att'[e].call[c].at = "ask"
            /\ att'[e].call[c].id = e
         \/ journal' = journal /\ att'[e].call[c].at = "lost"
         \/ /\ Fenced(e) /\ journal' \in {j, journal} /\ known = NoId
            /\ att'[e].call[c].at = "result"
  <2>1. CASE known # NoId
    <3>1. Go(e, c, named(known)) /\ UNCHANGED <<journal, blips>>
      BY <2>1 DEF NameRequest
    <3>2. named(known) \in Records /\ named(known).at = "ask" /\ named(known).id = known
      BY <1>2, <1>3
    <3> HIDE DEF named, known
    <3> QED BY <1>1, <2>1, <3>1, <3>2, CallFacts, GoFacts DEF CallMoves
  <2>2. CASE known = NoId
    <3>1. Commit(e, c, j, named(e), Finds(e, c, "error"))
      BY <2>2 DEF NameRequest
    <3>2. named(e) \in Records /\ named(e).at = "ask" /\ named(e).id = e
      BY <1>3
    <3> HIDE DEF named, known, j
    <3> QED BY <1>1, <1>2, <1>4, <2>2, <3>1, <3>2, CommitFacts
  <2> QED BY <2>1, <2>2
<1> HIDE DEF named, known, j
<1>7. /\ att'[e].call[c].at \in {"ask", "lost", "result"}
      /\ att'[e].call[c].at = "ask" =>
           att'[e].call[c].id # NoId /\ att'[e].call[c].id = journal'.id[c]
      /\ journal'.entry = journal.entry /\ journal'.asked = journal.asked
      /\ journal'.decided = journal.decided
      /\ \A d \in Call : d # c => journal'.id[d] = journal.id[d]
      /\ \/ journal'.id[c] = journal.id[c]
         \/ Fenced(e) /\ journal.id[c] = NoId /\ c \in turn.risky
  BY <1>4, <1>5, <1>6
<1>8. EntriesInv'
  BY <1>1, <1>6, <1>7, EntriesQuiet DEF Holds, Held
<1>9. inbox' \in Boxes /\ hist' \in Hists /\ Spent' = Spent
  BY <1>1, CallFacts DEF Spent, SentFor
<1>10. NamesInv'
  BY <1>1, <1>6, <1>7, <1>9, NamesStep
<1> QED BY <1>1, <1>6, <1>7, <1>8, <1>9, <1>10, CallStep

\* The request is shown under its name, at most once.
LEMMA AskPersonInv ==
    ASSUME IInv, NEW e \in Epoch, NEW c \in Call, AskPerson(e, c)
    PROVE  IInv'
<1> DEFINE asked == IF journal.asked[c] = NoId THEN Of(e, c).id ELSE journal.asked[c]
           j == [journal EXCEPT !.asked[c] = asked]
<1>1. /\ att[e].phase = "batch" /\ att[e].call[c].at = "ask"
      /\ UNCHANGED <<turn, run, inbox, hist>>
      /\ Commit(e, c, j, To(e, c, "listen"), To(e, c, "listen"))
  BY DEF AskPerson, At
<1>2. /\ Of(e, c).id # NoId /\ Of(e, c).id = journal.id[c] /\ Of(e, c) = att[e].call[c]
      /\ asked = journal.asked[c] \/ asked = journal.id[c]
      /\ asked \in Epoch \cup {NoId}
  <2>1. /\ Of(e, c).id # NoId /\ Of(e, c).id = journal.id[c] /\ Of(e, c) = att[e].call[c]
    BY <1>1, CallFacts DEF IInv, NamesInv, NamesAgree
  <2>2. journal.asked[c] \in Epoch \cup {NoId} /\ Of(e, c).id \in Epoch \cup {NoId}
    BY CallFacts DEF Journals, Records
  <2> QED BY <2>1, <2>2
<1> HIDE DEF asked
<1>3. /\ j \in Journals /\ j.asked[c] = asked
      /\ j.entry = journal.entry /\ j.id = journal.id /\ j.decided = journal.decided
      /\ \A d \in Call : d # c => j.asked[d] = journal.asked[d]
  <2>1. journal \in Journals
    BY CallFacts
  <2>2. j = [journal EXCEPT !.asked = [journal.asked EXCEPT ![c] = asked]]
    OBVIOUS
  <2> QED BY <1>2, <2>1, <2>2 DEF Journals
<1>4. /\ To(e, c, "listen") \in Records /\ To(e, c, "listen").at = "listen"
      /\ To(e, c, "listen").id = Of(e, c).id
  BY CallFacts DEF Phase
<1> HIDE DEF j
<1>5. /\ att' \in Attempts /\ journal' \in Journals /\ blips' \in 0 .. MaxBlips
      /\ CallMoves(e, c) /\ journal' \in {j, journal}
      /\ \/ att'[e].call[c].at = "lost"
         \/ att'[e].call[c].at = "listen" /\ att'[e].call[c].id = Of(e, c).id
  BY <1>1, <1>3, <1>4, CommitFacts
<1>6. /\ journal'.entry = journal.entry /\ journal'.id = journal.id
      /\ journal'.decided = journal.decided
      /\ \A d \in Call : d # c => journal'.asked[d] = journal.asked[d]
      /\ journal'.asked[c] = journal.asked[c] \/ journal'.asked[c] = journal'.id[c]
      /\ att'[e].call[c].at \in {"lost", "listen"}
      /\ att'[e].call[c].at = "listen" =>
           att'[e].call[c].id # NoId /\ att'[e].call[c].id = journal'.id[c]
  BY <1>2, <1>3, <1>5
<1>7. EntriesInv'
  BY <1>1, <1>5, <1>6, EntriesQuiet DEF Holds, Held
<1>8. inbox' \in Boxes /\ hist' \in Hists /\ Spent' = Spent
  BY <1>1, CallFacts DEF Spent, SentFor
<1>9. NamesInv'
  BY <1>1, <1>5, <1>6, <1>8, NamesStep
<1> QED BY <1>1, <1>5, <1>6, <1>7, <1>8, <1>9, CallStep

\* The answers to a request that was named, and the claim of the first of them.
LEMMA AnswersFacts ==
    ASSUME IInv, NEW e \in Epoch, NEW c \in Call
    PROVE  /\ Answers(e, c) \in SUBSET Nat
           /\ Answers(e, c) # {} =>
                /\ First(Answers(e, c)) \in DOMAIN inbox.sent
                /\ inbox.sent[First(Answers(e, c))].decision \in Decision
                /\ inbox.sent[First(Answers(e, c))].name[1] = c
                /\ journal.id[c] # NoId
           /\ att[e].call[c].id = journal.id[c] => (Answers(e, c) # {} <=> SentFor(c))
<1>1. /\ inbox.sent \in Seq(Sent) /\ DOMAIN inbox.sent \in SUBSET Nat
      /\ \A i \in DOMAIN inbox.sent : inbox.sent[i] \in Sent
  <2>1. inbox.sent \in Seq(Sent)
    BY CallFacts DEF Boxes
  <2> QED BY <2>1, LenProperties, ElementOfSeq
<1>2. Answers(e, c) \in SUBSET Nat /\ Answers(e, c) \subseteq DOMAIN inbox.sent
  BY <1>1 DEF Answers
<1>3. \A i \in DOMAIN inbox.sent :
        /\ inbox.sent[i].decision \in Decision
        /\ inbox.sent[i].name = <<inbox.sent[i].name[1], inbox.sent[i].name[2]>>
        /\ inbox.sent[i].name[2] = journal.id[inbox.sent[i].name[1]]
        /\ inbox.sent[i].name[2] # NoId
  BY <1>1, BoundFacts DEF Sent, IInv, NamesInv, SentIsNamed
<1>4. \A i \in Answers(e, c) : inbox.sent[i].name[1] = c /\ journal.id[c] # NoId
  <2> SUFFICES ASSUME NEW i \in Answers(e, c)
               PROVE  inbox.sent[i].name[1] = c /\ journal.id[c] # NoId
    OBVIOUS
  <2>1. i \in DOMAIN inbox.sent /\ inbox.sent[i].name = <<c, Of(e, c).id>>
    BY DEF Answers
  <2>2. inbox.sent[i].name[1] = c
    BY <2>1
  <2> QED BY <1>3, <2>1, <2>2
<1>5. ASSUME att[e].call[c].id = journal.id[c], SentFor(c)
      PROVE  Answers(e, c) # {}
  <2>1. PICK i \in DOMAIN inbox.sent : inbox.sent[i].name[1] = c
    BY <1>5 DEF SentFor
  <2>2. inbox.sent[i].name = <<c, journal.id[c]>>
    BY <1>3, <2>1
  <2> QED BY <1>5, <2>1, <2>2, CallFacts DEF Answers
<1>6. Answers(e, c) # {} => SentFor(c)
  BY <1>2, <1>4 DEF SentFor
<1>7. Answers(e, c) # {} => First(Answers(e, c)) \in Answers(e, c)
  BY <1>2, FirstFacts
<1> QED BY <1>2, <1>3, <1>4, <1>5, <1>6, <1>7

\* The oldest decision sent for a call, and its claim.
Oldest(e, c) == inbox.sent[First(Answers(e, c))].decision

ClaimOldest(e, c) ==
    inbox' = [inbox EXCEPT !.sent = Without(@, First(Answers(e, c))),
                           !.claim[c] = Oldest(e, c)]

\* Claiming a decision takes it out of the inbox, and charges nothing anew.
LEMMA ClaimFacts ==
    ASSUME IInv, NEW e \in Epoch, NEW c \in Call, Answers(e, c) # {}, UNCHANGED turn,
           ClaimOldest(e, c), NEW d, d = Oldest(e, c)
    PROVE  /\ d \in Decision /\ d # "none" /\ c \in turn.risky
           /\ inbox' \in Boxes /\ inbox'.count = inbox.count /\ inbox'.claim[c] = d
           /\ \A x \in Call : x # c => inbox'.claim[x] = inbox.claim[x]
           /\ \A i \in DOMAIN inbox'.sent :
                \E k \in DOMAIN inbox.sent : inbox'.sent[i] = inbox.sent[k]
           /\ Spent' = Spent
<1> DEFINE i == First(Answers(e, c))
           s == inbox.sent
<1>1. /\ i \in DOMAIN s /\ d \in Decision /\ s[i].name[1] = c /\ journal.id[c] # NoId
      /\ s \in Seq(Sent) /\ inbox \in Boxes
  BY AnswersFacts, CallFacts DEF Boxes, Oldest
<1>2. d # "none" /\ c \in turn.risky
  BY <1>1, DecisionFacts DEF IInv, NamesInv, NamesAgree
<1> HIDE DEF i
<1>3. /\ Without(s, i) \in Seq(Sent)
      /\ \A k \in DOMAIN Without(s, i) : \E l \in DOMAIN s : Without(s, i)[k] = s[l]
      /\ \A l \in DOMAIN s : l # i =>
           \E k \in DOMAIN Without(s, i) : Without(s, i)[k] = s[l]
  BY <1>1, WithoutFacts
<1>4. /\ inbox' \in Boxes /\ inbox'.count = inbox.count /\ inbox'.claim[c] = d
      /\ \A x \in Call : x # c => inbox'.claim[x] = inbox.claim[x]
      /\ inbox'.sent = Without(s, i)
  <2> DEFINE claims == [inbox.claim EXCEPT ![c] = d]
  <2>1. inbox' = [inbox EXCEPT !.sent = Without(s, i), !.claim = claims]
    BY DEF i, ClaimOldest
  <2>2. /\ claims \in [Call -> Decision \cup {"none"}] /\ claims[c] = d
        /\ \A x \in Call : x # c => claims[x] = inbox.claim[x]
    BY <1>1 DEF Boxes
  <2> HIDE DEF claims
  <2> QED BY <1>1, <1>3, <2>1, <2>2 DEF Boxes
<1>5. \A x \in Call : x # c => (SentFor(x)' <=> SentFor(x))
  <2> SUFFICES ASSUME NEW x \in Call, x # c
               PROVE  SentFor(x)' <=> SentFor(x)
    OBVIOUS
  <2>1. ASSUME SentFor(x) PROVE SentFor(x)'
    <3>1. PICK l \in DOMAIN s : s[l].name[1] = x
      BY <2>1 DEF SentFor
    <3>2. l # i
      BY <1>1, <3>1
    <3> QED BY <1>3, <1>4, <3>1, <3>2 DEF SentFor
  <2>2. ASSUME SentFor(x)' PROVE SentFor(x)
    BY <1>3, <1>4, <2>2 DEF SentFor
  <2> QED BY <2>1, <2>2
<1>6. c \in Spent /\ c \in Spent'
  BY <1>1, <1>2, <1>4 DEF Spent, SentFor
<1>7. \A x \in turn.risky : x # c => (x \in Spent' <=> x \in Spent)
  BY <1>4, <1>5, TurnFacts DEF Spent, IInv, Shape
<1>8. Spent' = Spent
  BY <1>6, <1>7 DEF Spent
<1> QED BY <1>1, <1>2, <1>3, <1>4, <1>8

\* All attempts hear the decision that one of them claimed first.
LEMMA ConsumeInv ==
    ASSUME IInv, NEW e \in Epoch, NEW c \in Call, Consume(e, c)
    PROVE  IInv'
<1> DEFINE heard(d) == [To(e, c, "heard") EXCEPT !.verdict = d]
<1>1. /\ att[e].phase = "batch" /\ att[e].call[c].at = "listen"
      /\ UNCHANGED <<turn, run, journal, blips, hist>>
  BY DEF Consume, At
<1>2. journal.id[c] # NoId /\ c \in turn.risky
  BY <1>1 DEF IInv, NamesInv, NamesAgree
<1>3. PICK d \in Decision :
        /\ Go(e, c, heard(d)) /\ inbox' \in Boxes /\ inbox'.count = inbox.count
        /\ inbox'.claim[c] = d /\ d # "none" /\ Spent' = Spent
        /\ \A x \in Call : x # c => inbox'.claim[x] = inbox.claim[x]
        /\ inbox'.claim[c] = inbox.claim[c] \/ inbox.claim[c] = "none"
        /\ \A i \in DOMAIN inbox'.sent :
             \E k \in DOMAIN inbox.sent : inbox'.sent[i] = inbox.sent[k]
  <2>1. CASE inbox.claim[c] # "none"
    <3>1. Go(e, c, heard(inbox.claim[c])) /\ inbox' = inbox
      BY <2>1 DEF Consume
    <3>2. inbox.claim[c] \in Decision /\ inbox \in Boxes
      BY <2>1, CallFacts DEF Boxes
    <3>3. Spent' = Spent
      BY <1>1, <3>1 DEF Spent, SentFor
    <3> HIDE DEF heard
    <3> QED BY <2>1, <3>1, <3>2, <3>3
  <2>2. CASE inbox.claim[c] = "none"
    <3> DEFINE d == Oldest(e, c)
    <3>1. /\ Answers(e, c) # {} /\ Go(e, c, heard(d))
          /\ ClaimOldest(e, c)
      BY <2>2 DEF Consume, ClaimOldest, Oldest
    <3>2. turn' = turn
      BY <1>1
    <3> HIDE DEF heard, d
    <3>3. d = Oldest(e, c)
      BY DEF d
    <3>4. /\ d \in Decision /\ d # "none"
          /\ inbox' \in Boxes /\ inbox'.count = inbox.count /\ inbox'.claim[c] = d
          /\ \A x \in Call : x # c => inbox'.claim[x] = inbox.claim[x]
          /\ \A i \in DOMAIN inbox'.sent :
               \E k \in DOMAIN inbox.sent : inbox'.sent[i] = inbox.sent[k]
          /\ Spent' = Spent
      BY <3>1, <3>2, <3>3, ClaimFacts
    <3> QED BY <2>2, <3>1, <3>4
  <2> QED BY <2>1, <2>2
<1>4. heard(d) \in Records /\ heard(d).at = "heard" /\ heard(d).verdict = d
  <2>1. To(e, c, "heard") \in Records /\ To(e, c, "heard").at = "heard"
    BY CallFacts DEF Phase
  <2> QED BY <2>1 DEF Records
<1> HIDE DEF heard
<1>5. /\ att' \in Attempts /\ CallMoves(e, c) /\ att'[e].call[c].at = "heard"
      /\ att'[e].call[c].verdict = d
  BY <1>1, <1>3, <1>4, CallFacts, GoFacts DEF CallMoves
<1>6. EntriesInv'
  BY <1>1, <1>5, EntriesQuiet DEF Holds, Held
<1>7. NamesInv'
  BY <1>1, <1>2, <1>3, <1>5, NamesStep
<1>8. journal' \in Journals /\ hist' \in Hists /\ blips' \in 0 .. MaxBlips
  BY <1>1, CallFacts
<1> QED BY <1>3, <1>5, <1>6, <1>7, <1>8, CallStep

\* A call that finds no answer goes to sleep, and nothing was charged for it.
LEMMA NoAnswerInv ==
    ASSUME IInv, NEW e \in Epoch, NEW c \in Call, NoAnswer(e, c)
    PROVE  IInv'
<1>1. /\ att[e].phase = "batch" /\ att[e].call[c].at = "listen"
      /\ inbox.claim[c] = "none" /\ Answers(e, c) = {}
      /\ Go(e, c, To(e, c, "suspending"))
      /\ UNCHANGED <<turn, run, journal, inbox, blips, hist>>
  BY DEF NoAnswer, At
<1>2. att[e].call[c].id = journal.id[c]
  BY <1>1 DEF IInv, NamesInv, NamesAgree
<1>3. c \notin Spent
  BY <1>1, <1>2, AnswersFacts DEF Spent
<1>4. /\ To(e, c, "suspending") \in Records /\ To(e, c, "suspending").at = "suspending"
      /\ To(e, c, "suspending").id = att[e].call[c].id
  BY CallFacts DEF Phase
<1>5. /\ att' \in Attempts /\ CallMoves(e, c) /\ att'[e].call[c].at = "suspending"
      /\ att'[e].call[c].id = att[e].call[c].id
  BY <1>1, <1>4, CallFacts, GoFacts DEF CallMoves
<1>6. EntriesInv'
  BY <1>1, <1>5, EntriesQuiet DEF Holds, Held
<1>7. NamesInv'
  BY <1>1, <1>5, NamesQuiet
<1>8. /\ journal' \in Journals /\ hist' \in Hists /\ blips' \in 0 .. MaxBlips
      /\ inbox' \in Boxes /\ inbox'.count = inbox.count
      /\ Spent' = Spent
  BY <1>1, CallFacts DEF Spent, SentFor
<1> QED BY <1>3, <1>5, <1>6, <1>7, <1>8, CallStep

\* A claim that fails may have been made: its decision is still the one all will hear.
LEMMA ConsumeFailsInv ==
    ASSUME IInv, NEW e \in Epoch, NEW c \in Call, ConsumeFails(e, c)
    PROVE  IInv'
<1>1. /\ att[e].phase = "batch" /\ att[e].call[c].at = "listen"
      /\ blips < MaxBlips /\ blips' = blips + 1 /\ Go(e, c, Finds(e, c, "error"))
      /\ UNCHANGED <<turn, run, journal, hist>>
  BY DEF ConsumeFails, At
<1>2. /\ inbox' \in Boxes /\ inbox'.count = inbox.count /\ Spent' = Spent
      /\ \A x \in Call : x # c => inbox'.claim[x] = inbox.claim[x]
      /\ inbox'.claim[c] = inbox.claim[c] \/ inbox.claim[c] = "none"
      /\ \A i \in DOMAIN inbox'.sent :
           \E k \in DOMAIN inbox.sent : inbox'.sent[i] = inbox.sent[k]
  <2>1. CASE UNCHANGED inbox
    BY <1>1, <2>1, CallFacts DEF Spent, SentFor
  <2>2. CASE ~UNCHANGED inbox
    <3> DEFINE d == Oldest(e, c)
    <3>1. /\ Answers(e, c) # {} /\ inbox.claim[c] = "none"
          /\ ClaimOldest(e, c)
      BY <2>2 DEF ConsumeFails, ClaimOldest, Oldest
    <3>2. turn' = turn
      BY <1>1
    <3> HIDE DEF d
    <3>3. d = Oldest(e, c)
      BY DEF d
    <3>4. /\ inbox' \in Boxes /\ inbox'.count = inbox.count /\ inbox'.claim[c] = d
          /\ \A x \in Call : x # c => inbox'.claim[x] = inbox.claim[x]
          /\ \A i \in DOMAIN inbox'.sent :
               \E k \in DOMAIN inbox.sent : inbox'.sent[i] = inbox.sent[k]
          /\ Spent' = Spent
      BY <3>1, <3>2, <3>3, ClaimFacts
    <3> QED BY <3>1, <3>4
  <2> QED BY <2>1, <2>2
<1>3. Finds(e, c, "error") \in Records /\ Finds(e, c, "error").at = "result"
  BY CallFacts
<1>4. att' \in Attempts /\ CallMoves(e, c) /\ att'[e].call[c].at = "result"
  BY <1>1, <1>3, CallFacts, GoFacts DEF CallMoves
<1>5. EntriesInv'
  BY <1>1, <1>4, EntriesQuiet DEF Holds, Held
<1>6. NamesInv'
  BY <1>1, <1>2, <1>4, NamesStep
<1>7. journal' \in Journals /\ hist' \in Hists /\ blips' \in 0 .. MaxBlips
  BY <1>1, CallFacts, BoundFacts
<1> QED BY <1>2, <1>4, <1>5, <1>6, <1>7, CallStep

\* The journal shows the decision that was claimed before the tool runs under it.
LEMMA LogDecisionInv ==
    ASSUME IInv, NEW e \in Epoch, NEW c \in Call, LogDecision(e, c)
    PROVE  IInv'
<1> DEFINE d == Of(e, c).verdict
           decided == IF journal.decided[c] = "none" THEN d ELSE journal.decided[c]
           j == [journal EXCEPT !.decided[c] = decided]
           next == IF d = "deny" THEN Finds(e, c, "denied") ELSE To(e, c, "run")
<1>1. /\ att[e].phase = "batch" /\ att[e].call[c].at = "heard"
      /\ UNCHANGED <<turn, run, inbox, hist>>
      /\ Commit(e, c, j, next, Finds(e, c, "error"))
  BY DEF LogDecision, At
<1>2. /\ d = inbox.claim[c] /\ d # "none" /\ d \in Decision \cup {"none"}
      /\ journal.decided[c] # "none" => journal.decided[c] = d
  <2>1. /\ att[e].call[c].verdict = inbox.claim[c] /\ inbox.claim[c] # "none"
        /\ journal.decided[c] # "none" => journal.decided[c] = inbox.claim[c]
    BY <1>1 DEF IInv, NamesInv, DecisionsAgree
  <2>2. inbox.claim[c] \in Decision \cup {"none"}
    BY CallFacts DEF Boxes
  <2> QED BY <2>1, <2>2, CallFacts
<1>3. decided = d
  BY <1>2
<1>4. /\ next \in Records /\ next.at \in {"result", "run"} /\ next.verdict = d
      /\ next.at = "run" => d # "deny"
      /\ Finds(e, c, "error") \in Records /\ Finds(e, c, "error").at = "result"
  BY CallFacts DEF Phase
<1> HIDE DEF d, decided, next
<1>5. /\ j \in Journals /\ j.decided[c] = d
      /\ j.entry = journal.entry /\ j.id = journal.id /\ j.asked = journal.asked
      /\ \A x \in Call : x # c => j.decided[x] = journal.decided[x]
  <2>1. journal \in Journals
    BY CallFacts
  <2>2. j = [journal EXCEPT !.decided = [journal.decided EXCEPT ![c] = d]]
    BY <1>3
  <2> QED BY <1>2, <2>1, <2>2 DEF Journals
<1> HIDE DEF j
<1>6. /\ att' \in Attempts /\ journal' \in Journals /\ blips' \in 0 .. MaxBlips
      /\ CallMoves(e, c)
      /\ \/ Fenced(e) /\ journal' = j /\ att'[e].call[c] = next
         \/ journal' = journal /\ att'[e].call[c].at = "lost"
         \/ /\ Fenced(e) /\ journal' \in {j, journal}
            /\ att'[e].call[c] = Finds(e, c, "error")
  BY <1>1, <1>4, <1>5, CommitFacts
<1>7. /\ att'[e].call[c].at \in {"lost", "result", "run"}
      /\ att'[e].call[c].at = "run" =>
           /\ att'[e].call[c].verdict = journal'.decided[c]
           /\ journal'.decided[c] \notin {"none", "deny"}
      /\ journal' = j \/ journal' = journal
  BY <1>2, <1>4, <1>5, <1>6
<1>8. /\ journal'.entry = journal.entry /\ journal'.id = journal.id
      /\ journal'.asked = journal.asked
      /\ \A x \in Call : x # c => journal'.decided[x] = journal.decided[x]
      /\ \/ journal'.decided[c] = journal.decided[c]
         \/ journal.decided[c] = "none" /\ journal'.decided[c] = inbox.claim[c]
  BY <1>2, <1>5, <1>7
<1>9. EntriesInv'
  BY <1>1, <1>6, <1>7, <1>8, EntriesQuiet DEF Holds, Held
<1>10. inbox' \in Boxes /\ hist' \in Hists /\ Spent' = Spent
  BY <1>1, CallFacts DEF Spent, SentFor
<1>11. NamesInv'
  BY <1>1, <1>6, <1>7, <1>8, <1>10, NamesStep
<1> QED BY <1>1, <1>6, <1>7, <1>9, <1>10, <1>11, CallStep

\* The tool runs: once, if it is not idempotent, and under the decision of its request.
LEMMA ExecuteInv ==
    ASSUME IInv, NEW e \in Epoch, NEW c \in Call, Execute(e, c)
    PROVE  IInv'
<1> DEFINE ran   == hist.ran[c] + 1
           under == hist.under[c] \cup {Of(e, c).verdict}
<1>1. /\ att[e].phase = "batch" /\ att[e].call[c].at = "run"
      /\ Go(e, c, Finds(e, c, "ok"))
      /\ hist' = [hist EXCEPT !.ran[c] = ran, !.under[c] = under]
      /\ UNCHANGED <<turn, run, journal, inbox, blips>>
  BY DEF Execute, At
<1>2. /\ ran \in Nat /\ under \in SUBSET (Decision \cup {"none"}) /\ hist \in Hists
      /\ c \in Once => ran = 1 /\ hist.ran[c] = 0
      /\ c \in turn.risky =>
           under \subseteq hist.under[c] \cup ({journal.decided[c]} \ {"none", "deny"})
  <2>1. hist \in Hists /\ Of(e, c) \in Records /\ Of(e, c) = att[e].call[c]
    BY CallFacts
  <2>2. ran \in Nat /\ under \in SUBSET (Decision \cup {"none"})
    BY <2>1 DEF Hists, Records
  <2>3. c \in Once => hist.ran[c] = 0
    BY <1>1 DEF IInv, EntriesInv, Accounts, Holds, Held
  <2>4. c \in turn.risky => Of(e, c).verdict \in {journal.decided[c]} \ {"none", "deny"}
    BY <1>1, <2>1 DEF IInv, NamesInv, DecisionsAgree
  <2> QED BY <2>1, <2>2, <2>3, <2>4
<1> HIDE DEF ran, under
<1>3. /\ hist' \in Hists /\ hist'.ran[c] = ran /\ hist'.under[c] = under
      /\ hist'.told = hist.told
      /\ \A d \in Call : d # c => /\ hist'.ran[d] = hist.ran[d]
                                  /\ hist'.under[d] = hist.under[d]
  <2>1. hist' = [hist EXCEPT !.ran = [hist.ran EXCEPT ![c] = ran],
                             !.under = [hist.under EXCEPT ![c] = under]]
    BY <1>1
  <2> QED BY <1>2, <2>1 DEF Hists
<1>4. Finds(e, c, "ok") \in Records /\ Finds(e, c, "ok").at = "result"
  BY CallFacts
<1>5. /\ att' \in Attempts /\ CallMoves(e, c) /\ att'[e].call[c].at = "result"
  BY <1>1, <1>4, CallFacts, GoFacts DEF CallMoves
<1>6. EntriesInv'
  <2>1. Holds(e, c) /\ Holds(e, c)'
    BY <1>1, <1>5 DEF Holds, Held
  <2>2. Fenced(e) \/ c \in Once => journal.entry[c].state = "pending"
    BY <2>1 DEF IInv, EntriesInv, HeldIsPending
  <2>3. c \in Once => /\ hist'.ran[c] <= 1
                      /\ journal'.entry[c].state = "absent" => hist'.ran[c] = 0
    BY <1>1, <1>2, <1>3, <2>2
  <2> QED BY <1>1, <1>3, <1>5, <2>1, <2>2, <2>3, EntriesStep
<1>7. inbox' \in Boxes /\ inbox'.count = inbox.count /\ Spent' = Spent
      /\ journal' \in Journals /\ blips' \in 0 .. MaxBlips
  BY <1>1, CallFacts DEF Spent, SentFor
<1>8. NamesInv'
  BY <1>1, <1>2, <1>3, <1>5, <1>7, NamesStep
<1> QED BY <1>3, <1>5, <1>6, <1>7, <1>8, CallStep

\* The outcome is recorded under the lease: the call is done.
LEMMA RecordResultInv ==
    ASSUME IInv, NEW e \in Epoch, NEW c \in Call, RecordResult(e, c)
    PROVE  IInv'
<1> DEFINE entry == [state |-> "completed", value |-> Of(e, c).value]
           j == [journal EXCEPT !.entry[c] = entry]
<1>1. /\ att[e].phase = "batch" /\ att[e].call[c].at = "result"
      /\ UNCHANGED <<turn, run, inbox, hist>>
      /\ Commit(e, c, j, To(e, c, "done"), To(e, c, "raised"))
  BY DEF RecordResult, At
<1>2. /\ entry \in Entry /\ entry.state = "completed" /\ entry.value = Of(e, c).value
      /\ To(e, c, "done") \in Records /\ To(e, c, "done").at = "done"
      /\ To(e, c, "done").value = Of(e, c).value
      /\ To(e, c, "raised") \in Records /\ To(e, c, "raised").at = "raised"
  BY CallFacts DEF Phase, Over, Records, Entry
<1> HIDE DEF entry
<1>3. /\ j \in Journals /\ j.entry[c] = entry
      /\ j.id = journal.id /\ j.asked = journal.asked /\ j.decided = journal.decided
      /\ \A d \in Call : d # c => j.entry[d] = journal.entry[d]
  BY <1>2, LetGoFacts
<1> HIDE DEF j
<1>4. /\ att' \in Attempts /\ journal' \in Journals /\ blips' \in 0 .. MaxBlips
      /\ CallMoves(e, c)
      /\ \/ Fenced(e) /\ journal' = j /\ att'[e].call[c] = To(e, c, "done")
         \/ journal' = journal /\ att'[e].call[c].at = "lost"
         \/ Fenced(e) /\ journal' \in {j, journal} /\ att'[e].call[c] = To(e, c, "raised")
  BY <1>1, <1>2, <1>3, CommitFacts
<1>5. /\ att'[e].call[c].at \in {"done", "lost", "raised"}
      /\ att'[e].call[c].at = "done" =>
           journal' = j /\ att'[e].call[c].value = entry.value
      /\ journal' = journal \/ (Fenced(e) /\ journal' = j)
  BY <1>2, <1>4
<1>6. Holds(e, c) /\ (Fenced(e) => journal.entry[c].state = "pending")
  BY <1>1 DEF Holds, Held, IInv, EntriesInv, HeldIsPending
<1>7. /\ \A d \in Call : /\ d # c => journal'.entry[d] = journal.entry[d]
                         /\ journal'.id[d] = journal.id[d]
                         /\ journal'.asked[d] = journal.asked[d]
                         /\ journal'.decided[d] = journal.decided[d]
      /\ \/ journal'.entry[c] = journal.entry[c]
         \/ /\ Fenced(e) /\ journal.entry[c].state # "completed"
            /\ journal'.entry[c].state = "completed"
      /\ att'[e].call[c].at = "done" =>
           /\ journal'.entry[c].state = "completed"
           /\ journal'.entry[c].value = att'[e].call[c].value
  BY <1>2, <1>3, <1>5, <1>6
<1>8. EntriesInv'
  <2>1. c \in Once => /\ hist.ran[c] <= 1
                      /\ journal'.entry[c].state = "absent" => hist.ran[c] = 0
    BY <1>7 DEF IInv, EntriesInv, Accounts
  <2>2. ~Holds(e, c)'
    BY <1>5 DEF Holds, Held
  <2> QED BY <1>1, <1>4, <1>6, <1>7, <2>1, <2>2, EntriesStep
<1>9. NamesInv'
  BY <1>1, <1>4, <1>5, <1>7, NamesQuiet
<1>10. Spent' = Spent /\ inbox \in Boxes /\ hist \in Hists
  BY <1>1, CallFacts DEF Spent, SentFor
<1> QED BY <1>1, <1>4, <1>5, <1>8, <1>9, <1>10, CallStep

\* The intent of a call that waits is taken back under the lease, and its tool had not run.
LEMMA TakeBackInv ==
    ASSUME IInv, NEW e \in Epoch, NEW c \in Call, TakeBack(e, c)
    PROVE  IInv'
<1> DEFINE j == [journal EXCEPT !.entry[c] = Blank]
<1>1. /\ att[e].phase = "batch" /\ att[e].call[c].at = "suspending"
      /\ UNCHANGED <<turn, run, inbox, hist>>
      /\ Commit(e, c, j, To(e, c, "suspended"), To(e, c, "suspended"))
  BY DEF TakeBack, At
<1>2. /\ Blank \in Entry /\ Blank.state = "absent" /\ Of(e, c) = att[e].call[c]
      /\ To(e, c, "suspended") \in Records /\ To(e, c, "suspended").at = "suspended"
      /\ To(e, c, "suspended").id = att[e].call[c].id
  BY CallFacts DEF Phase, Over, Blank
<1>3. /\ j \in Journals /\ j.entry[c] = Blank
      /\ j.id = journal.id /\ j.asked = journal.asked /\ j.decided = journal.decided
      /\ \A d \in Call : d # c => j.entry[d] = journal.entry[d]
  BY <1>2, LetGoFacts
<1> HIDE DEF j
<1>4. /\ att' \in Attempts /\ journal' \in Journals /\ blips' \in 0 .. MaxBlips
      /\ CallMoves(e, c)
      /\ journal' = journal \/ (Fenced(e) /\ journal' = j)
      /\ \/ att'[e].call[c] = To(e, c, "suspended")
         \/ att'[e].call[c].at = "lost"
  BY <1>1, <1>2, <1>3, CommitFacts
<1>5. /\ att'[e].call[c].at \in {"suspended", "lost"}
      /\ att'[e].call[c].at = "suspended" => att'[e].call[c].id = att[e].call[c].id
  BY <1>2, <1>4
<1>6. /\ Holds(e, c) /\ (Fenced(e) => journal.entry[c].state = "pending")
      /\ c \in Once => hist.ran[c] = 0
  BY <1>1 DEF Holds, Held, IInv, EntriesInv, HeldIsPending, Accounts
<1>7. /\ \A d \in Call : /\ d # c => journal'.entry[d] = journal.entry[d]
                         /\ journal'.id[d] = journal.id[d]
                         /\ journal'.asked[d] = journal.asked[d]
                         /\ journal'.decided[d] = journal.decided[d]
      /\ \/ journal'.entry[c] = journal.entry[c]
         \/ Fenced(e) /\ journal.entry[c].state # "completed"
  BY <1>3, <1>4, <1>6
<1>8. EntriesInv'
  <2>1. ~Holds(e, c)'
    BY <1>5 DEF Holds, Held
  <2> QED BY <1>1, <1>4, <1>5, <1>6, <1>7, <2>1, EntriesStep
<1>9. NamesInv'
  BY <1>1, <1>4, <1>5, <1>7, NamesQuiet
<1>10. Spent' = Spent /\ inbox \in Boxes /\ hist \in Hists
  BY <1>1, CallFacts DEF Spent, SentFor
<1> QED BY <1>1, <1>4, <1>5, <1>8, <1>9, <1>10, CallStep

-----------------------------------------------------------------------------
(* The steps of the queue, of the people and of whole attempts.            *)

\* An attempt that begins or ends has all its calls at their start.
LEMMA AttemptFacts ==
    ASSUME NEW phase \in {"gone", "batch"}, NEW known \in Journals
    PROVE  /\ Attempt(phase, known) \in [phase : {"off", "batch", "gone"}, known : Journals,
                                         call : [Call -> Records]]
           /\ Attempt(phase, known).phase = phase /\ Attempt(phase, known).known = known
           /\ \A c \in Call : Attempt(phase, known).call[c].at = "start"
<1>1. Fresh \in Records /\ Fresh.at = "start"
  BY DEF Fresh, Records, Phase, Result
<1> HIDE DEF Fresh
<1> QED BY <1>1 DEF Attempt

\* The journal that a lost attempt is left with.
LEMMA EmptyFacts ==
    /\ Empty \in Journals
    /\ \A c \in Call : Empty.entry[c].state = "absent" /\ Empty.id[c] = NoId
BY DEF Empty, Journals, Blank, Entry, Result

\* Attempts begin with what the journal says, or end; and nobody but one that begins
\* gains the right to commit.
LEMMA RestartStep ==
    ASSUME IInv, UNCHANGED <<turn, journal>>, inbox'.claim = inbox.claim, SentIsNamed',
           \A g \in Epoch : \/ att'[g] = att[g]
                            \/ att'[g] = Attempt("gone", Empty)
                            \/ att'[g] = Attempt("batch", journal),
           \A g \in Epoch : Fenced(g)' => Fenced(g) \/ att'[g] = Attempt("batch", journal),
           hist'.ran = hist.ran, hist'.under = hist.under,
           \A c \in Call :
              \/ hist'.told[c] = hist.told[c]
              \/ /\ journal.entry[c].state = "completed"
                 /\ hist'.told[c] = hist.told[c] \cup {journal.entry[c].value}
    PROVE  EntriesInv' /\ NamesInv'
<1>1. journal \in Journals /\ Once' = Once
  BY DEF IInv, Shape, Once
<1>2. \A g \in Epoch :
        \/ att'[g] = att[g]
        \/ /\ \A c \in Call : att'[g].call[c].at = "start"
           /\ \/ att'[g].phase = "gone" /\ att'[g].known = Empty
              \/ att'[g].phase = "batch" /\ att'[g].known = journal
  BY <1>1, AttemptFacts, EmptyFacts
<1>3. \A g \in Epoch : Fenced(g)' => \/ Fenced(g)
                                     \/ /\ att'[g].known = journal
                                        /\ \A c \in Call : att'[g].call[c].at = "start"
  BY <1>1, AttemptFacts
<1>4. \A g \in Epoch, c \in Call : att'[g].call[c].at # "start" => att'[g] = att[g]
  BY <1>2
<1>5. \A g \in Epoch, c \in Call :
        Holds(g, c)' => Holds(g, c) /\ att'[g] = att[g] /\ (Fenced(g)' => Fenced(g))
  BY <1>3, <1>4 DEF Holds, Held
<1>6. KnownIsTrue'
  BY <1>2, EmptyFacts DEF IInv, EntriesInv, KnownIsTrue
<1>7. FreshAhead'
  <2> SUFFICES ASSUME NEW g \in Epoch, NEW c \in Call, Fenced(g)',
                      att'[g].phase = "batch", att'[g].call[c].at = "start"
               PROVE  journal.entry[c] = att'[g].known.entry[c]
    BY DEF FreshAhead
  <2>1. CASE att'[g].known = journal
    BY <2>1
  <2>2. CASE att'[g].known # journal
    <3>1. att'[g] = att[g] /\ Fenced(g)
      BY <1>2, <1>3, <2>2
    <3> QED BY <3>1 DEF IInv, EntriesInv, FreshAhead
  <2> QED BY <2>1, <2>2
<1>8. HeldIsPending'
  BY <1>1, <1>5 DEF IInv, EntriesInv, HeldIsPending
<1>9. OneHolder'
  <2> SUFFICES ASSUME NEW c \in Once, NEW g \in Epoch, NEW h \in Epoch,
                      Holds(g, c)', Holds(h, c)'
               PROVE  g = h
    BY <1>1 DEF OneHolder
  <2>1. Holds(g, c) /\ Holds(h, c)
    BY <1>5 DEF Once
  <2> QED BY <2>1 DEF IInv, EntriesInv, OneHolder
<1>10. Accounts'
  <2> SUFFICES ASSUME NEW c \in Once
               PROVE  /\ hist.ran[c] <= 1
                      /\ journal.entry[c].state = "absent" => hist.ran[c] = 0
                      /\ \A g \in Epoch : Holds(g, c)' /\ att'[g].call[c].at # "result"
                                            => hist.ran[c] = 0
    BY <1>1 DEF Accounts
  <2>1. c \in Call
    BY DEF Once
  <2> QED BY <1>5, <2>1 DEF IInv, EntriesInv, Accounts
<1>11. AnswersAgree'
  <2> SUFFICES ASSUME NEW c \in Call
               PROVE  /\ hist'.told[c] # {} => /\ journal.entry[c].state = "completed"
                                               /\ hist'.told[c] = {journal.entry[c].value}
                      /\ \A g \in Epoch : att'[g].call[c].at = "done" =>
                           /\ journal.entry[c].state = "completed"
                           /\ journal.entry[c].value = att'[g].call[c].value
    BY DEF AnswersAgree
  <2>1. hist.told[c] = {} \/ hist.told[c] = {journal.entry[c].value}
    BY DEF IInv, EntriesInv, AnswersAgree
  <2>2. hist'.told[c] # {} => /\ journal.entry[c].state = "completed"
                              /\ hist'.told[c] = {journal.entry[c].value}
    BY <2>1 DEF IInv, EntriesInv, AnswersAgree
  <2>3. \A g \in Epoch : att'[g].call[c].at = "done" => att'[g] = att[g]
    BY <1>4
  <2> QED BY <2>2, <2>3 DEF IInv, EntriesInv, AnswersAgree
<1>12. IdsAreKnown'
  <2> SUFFICES ASSUME NEW g \in Epoch, NEW c \in Call
               PROVE  /\ att'[g].known.id[c] # NoId => journal.id[c] = att'[g].known.id[c]
                      /\ Fenced(g)' /\ att'[g].phase = "batch"
                           /\ att'[g].call[c].at \in {"start", "name"}
                           => journal.id[c] = att'[g].known.id[c]
    BY DEF IdsAreKnown
  <2>1. CASE att'[g] = att[g] /\ (Fenced(g)' => Fenced(g))
    BY <2>1 DEF IInv, NamesInv, IdsAreKnown
  <2>2. CASE att'[g].known = journal
    BY <2>2
  <2>3. CASE att'[g].known = Empty /\ att'[g].phase = "gone"
    BY <2>3, EmptyFacts
  <2> QED BY <1>2, <1>3, <2>1, <2>2, <2>3
<1>13. NamesAgree'
  BY <1>4 DEF IInv, NamesInv, NamesAgree
<1>14. DecisionsAgree'
  BY <1>4 DEF IInv, NamesInv, DecisionsAgree
<1>15. HeldToDecision'
  BY DEF IInv, NamesInv, HeldToDecision
<1> QED BY <1>6, <1>7, <1>8, <1>9, <1>10, <1>11, <1>12, <1>13, <1>14, <1>15
        DEF EntriesInv, NamesInv

\* The run's row changes under the same epoch: what makes the run pending is charged.
LEMMA LeasesStep ==
    ASSUME IInv, NEW row \in Rows, run' = row, row.epoch = run.epoch, Spent' = Spent,
           row.expired >= run.expired, row.retries >= run.retries,
           row.status = "pending" \/ (row.status = "suspended" /\ row.wake[1] \in Spent \cup {0})
             => run.epoch <= row.expired + row.retries + Cardinality(Spent),
           \A g \in Epoch, c \in Call :
              Fenced(g)' /\ att'[g].call[c].at \in {"suspending", "suspended"} =>
                 Fenced(g) /\ att[g].call[c].at \in {"suspending", "suspended"}
    PROVE  LeasesAreCharged'
<1>1. Charges' = row.expired + row.retries + Cardinality(Spent)
  BY DEF Charges
<1>2. row.expired \in Nat /\ row.retries \in Nat
  BY BoundFacts, TurnFacts DEF Rows, IInv, Shape
<1>3. Charges' \in Nat /\ Charges' >= Charges
  BY <1>1, <1>2, ChargesFacts
<1>4. run.epoch <= 1 + Charges'
  BY <1>3, ChargesFacts
<1>5. run.epoch <= Charges => run.epoch <= Charges'
  BY <1>3, ChargesFacts
<1>6. ASSUME NEW g \in Epoch, NEW c \in Spent, Fenced(g)',
             att'[g].call[c].at \in {"suspending", "suspended"}
      PROVE  run.epoch <= Charges'
  <2>1. c \in Call
    BY TurnFacts DEF Spent, IInv, Shape
  <2>2. Fenced(g) /\ att[g].call[c].at \in {"suspending", "suspended"}
    BY <1>6, <2>1
  <2> QED BY <1>5, <2>2 DEF IInv, LeasesAreCharged
<1> QED BY <1>1, <1>4, <1>6 DEF LeasesAreCharged

\* A lease begins an attempt, and was charged for.
LEMMA LeaseInv ==
    ASSUME IInv, Lease
    PROVE  IInv'
<1> DEFINE n == run.epoch + 1
<1>1. /\ run.status = "pending" /\ run.epoch <= Charges /\ run \in Rows
      /\ run' = [run EXCEPT !.status = "running", !.epoch = n]
      /\ att' = [att EXCEPT ![n] = Attempt("batch", journal)]
      /\ UNCHANGED <<turn, journal, inbox, blips, hist>>
  BY DEF Lease, IInv, Shape, LeasesAreCharged
<1>2. n \in Epoch /\ n \in 0 .. MaxLease
  <2>1. /\ run.expired \in Nat /\ run.expired <= MaxExpiries
        /\ run.retries \in Nat /\ run.retries <= MaxRetries
    BY <1>1, BoundFacts, TurnFacts DEF Rows, IInv, Shape
  <2>2. /\ Cardinality(Spent) \in Nat /\ Cardinality(Call) \in Nat
        /\ Cardinality(Spent) <= Cardinality(Call)
    BY SpentFacts, BoundFacts DEF IInv
  <2>3. run.epoch \in Nat /\ run.epoch <= run.expired + run.retries + Cardinality(Spent)
    BY <1>1, ChargesFacts
  <2>4. PICK x \in Nat, r \in Nat, s \in Nat, k \in Nat :
           x = run.expired /\ r = run.retries /\ s = Cardinality(Spent) /\ k = Cardinality(Call)
    BY <2>1, <2>2
  <2>5. MaxExpiries \in Nat /\ MaxRetries \in Nat /\ MaxLease \in Nat /\ Epoch = 1 .. MaxLease
    BY BoundFacts
  <2>6. MaxLease = 1 + MaxExpiries + MaxRetries + k
    BY <2>4 DEF MaxLease
  <2>7. run.epoch \in Nat /\ run.epoch <= x + r + s
    BY <2>3, <2>4
  <2>8. x <= MaxExpiries /\ r <= MaxRetries /\ s <= k
    BY <2>1, <2>2, <2>4
  <2>9. x + r + s <= MaxExpiries + MaxRetries + k
    BY <2>5, <2>8
  <2>10. run.epoch + 1 <= MaxLease
    BY <2>5, <2>6, <2>7, <2>9
  <2> QED BY <2>5, <2>7, <2>10
<1> HIDE DEF n
<1>3. /\ run' \in Rows /\ run'.epoch = n /\ run'.status = "running"
      /\ run'.expired = run.expired /\ run'.retries = run.retries
  BY <1>1, <1>2 DEF Rows
<1>4. /\ att \in Attempts /\ journal \in Journals /\ att' \in Attempts
      /\ att'[n] = Attempt("batch", journal)
      /\ \A g \in Epoch : g # n => att'[g] = att[g]
  BY <1>1, <1>2, AttemptFacts DEF IInv, Shape, Attempts
<1>5. \A g \in Epoch : Fenced(g)' => g = n
  BY <1>3 DEF Fenced
<1>6. Spent' = Spent /\ Charges' = Charges
  BY <1>1, <1>3 DEF Spent, SentFor, Charges
<1>7. LeasesAreCharged'
  <2>1. \A c \in Call : att'[n].call[c].at = "start"
    BY <1>4, AttemptFacts
  <2>2. \A c \in Spent : c \in Call
    BY TurnFacts DEF Spent, IInv, Shape
  <2>3. \A g \in Epoch, c \in Spent :
          ~(Fenced(g)' /\ att'[g].call[c].at \in {"suspending", "suspended"})
    BY <1>5, <2>1, <2>2
  <2>4. run'.epoch <= 1 + Charges'
    BY <1>1, <1>3, <1>6, ChargesFacts DEF n
  <2> QED BY <1>3, <1>6, <2>3, <2>4 DEF LeasesAreCharged
<1>8. SentIsNamed'
  BY <1>1 DEF IInv, NamesInv, SentIsNamed
<1>9. EntriesInv' /\ NamesInv'
  BY <1>1, <1>4, <1>5, <1>8, RestartStep
<1>10. Shape'
  BY <1>1, <1>3, <1>4 DEF IInv, Shape, Rows
<1> QED BY <1>7, <1>9, <1>10 DEF IInv

\* A lease that expires, or a retry whose time has come.
LEMMA ExpireOrRetryInv ==
    ASSUME IInv, Expire \/ RetryTimer
    PROVE  IInv'
<1>1. run \in Rows /\ hist \in Hists /\ run.expired \in Nat
  BY ChargesFacts DEF IInv, Shape
<1>2. /\ run' \in Rows /\ run'.epoch = run.epoch /\ run'.status = "pending"
      /\ run'.retries = run.retries /\ hist' \in Hists /\ hist'.ran = hist.ran
      /\ hist'.under = hist.under /\ hist'.told = hist.told
      /\ \/ run'.expired = run.expired + 1
         \/ run'.expired = run.expired /\ run.epoch <= Charges
      /\ UNCHANGED <<turn, journal, inbox, att, blips>>
  <2>1. CASE Expire
    <3>1. run.expired + 1 \in 0 .. MaxExpiries
      BY <1>1, <2>1, BoundFacts DEF Expire
    <3>2. /\ run' = [run EXCEPT !.status = "pending", !.expired = run.expired + 1]
          /\ hist' = [hist EXCEPT !.outlived = hist.outlived
                                               \/ att[run.epoch].phase = "batch"]
          /\ UNCHANGED <<turn, journal, inbox, att, blips>>
      BY <2>1 DEF Expire
    <3>3. run' \in Rows /\ run'.epoch = run.epoch /\ run'.status = "pending"
          /\ run'.retries = run.retries /\ run'.expired = run.expired + 1
      BY <1>1, <3>1, <3>2 DEF Rows
    <3>4. /\ hist' \in Hists /\ hist'.ran = hist.ran
          /\ hist'.under = hist.under /\ hist'.told = hist.told
      <4> DEFINE o == hist.outlived \/ att[run.epoch].phase = "batch"
      <4>1. o \in BOOLEAN /\ hist' = [hist EXCEPT !.outlived = o]
        BY <1>1, <3>2 DEF Hists
      <4> HIDE DEF o
      <4> QED BY <1>1, <4>1 DEF Hists
    <3> QED BY <3>2, <3>3, <3>4
  <2>2. CASE RetryTimer
    <3>1. run.status = "suspended" /\ run.wake[1] = 0
      BY <2>2 DEF RetryTimer
    <3>2. run.epoch <= Charges
      BY <3>1 DEF IInv, LeasesAreCharged
    <3> QED BY <1>1, <2>2, <3>2 DEF RetryTimer, Rows
  <2> QED BY <2>1, <2>2
<1>3. Spent' = Spent
  BY <1>2 DEF Spent, SentFor
<1>4. \A g \in Epoch : ~Fenced(g)'
  BY <1>2 DEF Fenced
<1>5. LeasesAreCharged'
  <2>1. /\ run'.expired >= run.expired /\ run'.retries >= run.retries
        /\ run.epoch <= run'.expired + run'.retries + Cardinality(Spent)
    BY <1>2, ChargesFacts
  <2> DEFINE row == run'
  <2>2. row \in Rows /\ row.epoch = run.epoch /\ row.status = "pending"
    BY <1>2
  <2> QED BY <1>2, <1>3, <1>4, <2>1, LeasesStep
<1>6. SentIsNamed'
  BY <1>2 DEF IInv, NamesInv, SentIsNamed
<1>7. EntriesInv' /\ NamesInv'
  BY <1>2, <1>4, <1>6, RestartStep
<1>8. Shape'
  BY <1>2 DEF IInv, Shape, Rows
<1> QED BY <1>5, <1>7, <1>8 DEF IInv

\* A decision is sent for a request by its name; the first for a call is charged to it.
LEMMA DecideInv ==
    ASSUME IInv, NEW c \in Call, NEW d \in Decision, Decide(c, d)
    PROVE  IInv'
<1> DEFINE name == <<c, journal.asked[c]>>
           item == [name |-> name, decision |-> d]
<1>1. /\ journal.asked[c] # NoId /\ inbox.count[c] < turn.decisions
      /\ inbox' = [inbox EXCEPT !.sent = Append(inbox.sent, item),
                                !.count[c] = inbox.count[c] + 1]
      /\ run' = [run EXCEPT !.status = IF run.status = "suspended" /\ run.wake = name
                                       THEN "pending" ELSE run.status]
      /\ UNCHANGED <<turn, journal, att, blips, hist>>
  BY DEF Decide
<1>2. /\ run \in Rows /\ journal \in Journals /\ inbox \in Boxes /\ turn \in Turns
      /\ \A x \in Call : inbox.count[x] <= turn.decisions
  BY DEF IInv, Shape
<1>3. journal.asked[c] = journal.id[c] /\ c \in turn.risky
  BY <1>1 DEF IInv, NamesInv, NamesAgree
<1>4. /\ item \in Sent /\ item.name[1] = c /\ item.name[2] = journal.id[c]
      /\ name[1] = c
  <2>1. journal.asked[c] \in Epoch
    BY <1>1, <1>2 DEF Journals
  <2> QED BY <1>3, <2>1 DEF Sent
<1> HIDE DEF item, name
<1>5. /\ inbox.sent \in Seq(Sent) /\ inbox'.sent = Append(inbox.sent, item)
      /\ inbox' \in Boxes /\ inbox'.claim = inbox.claim
      /\ \A x \in Call : inbox'.count[x] <= turn.decisions
  <2> DEFINE counts == [inbox.count EXCEPT ![c] = inbox.count[c] + 1]
             sent   == Append(inbox.sent, item)
  <2>1. inbox' = [inbox EXCEPT !.sent = sent, !.count = counts]
    BY <1>1
  <2>2. inbox.sent \in Seq(Sent) /\ sent \in Seq(Sent)
    BY <1>2, <1>4, AppendProperties DEF Boxes
  <2>3. /\ inbox.count \in [Call -> Nat] /\ counts \in [Call -> Nat]
        /\ counts[c] = inbox.count[c] + 1
        /\ \A x \in Call : x # c => counts[x] = inbox.count[x]
    BY <1>2 DEF Boxes
  <2>4. \A x \in Call : counts[x] <= turn.decisions
    <3>1. inbox.count[c] \in Nat /\ turn.decisions \in Nat
      BY <1>2, <2>3, TurnFacts
    <3>2. counts[c] <= turn.decisions
      BY <1>1, <2>3, <3>1
    <3> QED BY <1>2, <2>3, <3>2
  <2>5. sent = Append(inbox.sent, item)
    OBVIOUS
  <2> HIDE DEF counts, sent
  <2> QED BY <1>2, <2>1, <2>2, <2>3, <2>4, <2>5 DEF Boxes
<1>6. /\ DOMAIN inbox.sent = 1 .. Len(inbox.sent) /\ Len(inbox.sent) \in Nat
      /\ DOMAIN inbox'.sent = 1 .. Len(inbox.sent) + 1
      /\ inbox'.sent[Len(inbox.sent) + 1] = item
      /\ \A i \in 1 .. Len(inbox.sent) : inbox'.sent[i] = inbox.sent[i]
  <2>1. /\ Append(inbox.sent, item) \in Seq(Sent)
        /\ Len(Append(inbox.sent, item)) = Len(inbox.sent) + 1
        /\ \A i \in 1 .. Len(inbox.sent) : Append(inbox.sent, item)[i] = inbox.sent[i]
        /\ Append(inbox.sent, item)[Len(inbox.sent) + 1] = item
    BY <1>4, <1>5, AppendProperties
  <2> QED BY <1>5, <2>1, LenProperties
<1>7. Spent' = Spent \cup {c}
  <2>1. \A x \in Call : x # c => (SentFor(x)' <=> SentFor(x))
    <3> SUFFICES ASSUME NEW x \in Call, x # c PROVE SentFor(x)' <=> SentFor(x)
      OBVIOUS
    <3>1. ASSUME SentFor(x) PROVE SentFor(x)'
      <4>1. PICK i \in 1 .. Len(inbox.sent) : inbox.sent[i].name[1] = x
        BY <1>6, <3>1 DEF SentFor
      <4>2. i \in DOMAIN inbox'.sent /\ inbox'.sent[i].name[1] = x
        BY <1>6, <4>1
      <4> QED BY <4>2 DEF SentFor
    <3>2. ASSUME SentFor(x)' PROVE SentFor(x)
      <4>1. PICK i \in 1 .. Len(inbox.sent) + 1 : inbox'.sent[i].name[1] = x
        BY <1>6, <3>2 DEF SentFor
      <4>2. i # Len(inbox.sent) + 1
        BY <1>4, <1>6, <4>1
      <4>3. i \in 1 .. Len(inbox.sent)
        BY <1>6, <4>2
      <4> QED BY <1>6, <4>1, <4>3 DEF SentFor
    <3> QED BY <3>1, <3>2
  <2>2. SentFor(c)'
    <3>1. Len(inbox.sent) + 1 \in DOMAIN inbox'.sent
      BY <1>6
    <3> QED BY <1>4, <1>6, <3>1 DEF SentFor
  <2>3. turn.risky \subseteq Call
    BY <1>2, TurnFacts
  <2> QED BY <1>1, <1>3, <1>5, <2>1, <2>2, <2>3 DEF Spent
<1>8. Cardinality(Spent') = IF c \in Spent THEN Cardinality(Spent) ELSE Cardinality(Spent) + 1
  <2>1. IsFiniteSet(Spent)
    BY SpentFacts DEF IInv
  <2>2. Cardinality(Spent \cup {c})
          = IF c \in Spent THEN Cardinality(Spent) ELSE Cardinality(Spent) + 1
    BY <2>1, FS_AddElement
  <2> QED BY <1>7, <2>2
<1>9. /\ run' \in Rows /\ run'.epoch = run.epoch /\ run'.wake = run.wake
      /\ run'.expired = run.expired /\ run'.retries = run.retries
      /\ \/ run'.status = run.status
         \/ run.status = "suspended" /\ run.wake[1] = c /\ run'.status = "pending"
  BY <1>1, <1>2, <1>4 DEF Rows
<1>10. \A g \in Epoch : Fenced(g)' => Fenced(g)
  BY <1>9 DEF Fenced
<1>11. LeasesAreCharged'
  <2>1. Charges' = run.expired + run.retries + Cardinality(Spent')
    BY <1>9 DEF Charges
  <2>2. CASE c \in Spent
    <3>1. Spent' = Spent /\ Charges' = Charges
      BY <1>7, <1>9, <2>2 DEF Charges
    <3>2. run'.status = "pending" => run.epoch <= Charges
      BY <1>9, <2>2 DEF IInv, LeasesAreCharged
    <3> QED BY <1>1, <1>9, <1>10, <3>1, <3>2 DEF IInv, LeasesAreCharged
  <2>3. CASE c \notin Spent
    <3>1. Charges' \in Nat /\ Charges' = Charges + 1
      BY <1>8, <2>1, <2>3, ChargesFacts
    <3>2. run.epoch <= Charges' /\ run.epoch <= 1 + Charges'
      BY <3>1, ChargesFacts
    <3> QED BY <1>9, <3>2 DEF LeasesAreCharged
  <2> QED BY <2>2, <2>3
<1>12. SentIsNamed'
  <2> SUFFICES ASSUME NEW i \in 1 .. Len(inbox.sent) + 1
               PROVE  inbox'.sent[i].name[2] = journal.id[inbox'.sent[i].name[1]]
    BY <1>1, <1>6 DEF SentIsNamed
  <2>1. CASE i \in 1 .. Len(inbox.sent)
    BY <1>6, <2>1 DEF IInv, NamesInv, SentIsNamed
  <2>2. CASE i = Len(inbox.sent) + 1
    BY <1>4, <1>6, <2>2
  <2> QED BY <1>6, <2>1, <2>2
<1>13. EntriesInv' /\ NamesInv'
  BY <1>1, <1>5, <1>10, <1>12, RestartStep
<1>14. Shape'
  BY <1>1, <1>5, <1>9 DEF IInv, Shape, Rows
<1> QED BY <1>11, <1>13, <1>14 DEF IInv

\* An attempt ends, leaving its run's row as it is or with what the end makes of it.
LEMMA EndStep ==
    ASSUME IInv, NEW e \in Epoch, UNCHANGED <<turn, journal, inbox>>,
           att' = [att EXCEPT ![e] = Attempt("gone", Empty)],
           blips' \in 0 .. MaxBlips, hist' \in Hists, hist'.ran = hist.ran,
           hist'.under = hist.under,
           \A c \in Call :
              \/ hist'.told[c] = hist.told[c]
              \/ /\ journal.entry[c].state = "completed"
                 /\ hist'.told[c] = hist.told[c] \cup {journal.entry[c].value},
           NEW row \in Rows, run' = row, row.epoch = run.epoch,
           row.status = "running" => run.status = "running",
           row.expired >= run.expired, row.retries >= run.retries,
           row.status = "pending" \/ (row.status = "suspended" /\ row.wake[1] \in Spent \cup {0})
             => run.epoch <= row.expired + row.retries + Cardinality(Spent)
    PROVE  IInv'
<1>1. att \in Attempts
  BY DEF IInv, Shape
<1>2. /\ att' \in Attempts /\ att'[e] = Attempt("gone", Empty)
      /\ \A g \in Epoch : g # e => att'[g] = att[g]
  BY <1>1, AttemptFacts, EmptyFacts DEF Attempts
<1>3. \A g \in Epoch : Fenced(g)' => Fenced(g)
  BY DEF Fenced
<1>4. Spent' = Spent
  BY DEF Spent, SentFor
<1>5. \A g \in Epoch, c \in Call :
        Fenced(g)' /\ att'[g].call[c].at \in {"suspending", "suspended"} =>
           Fenced(g) /\ att[g].call[c].at \in {"suspending", "suspended"}
  <2>1. \A c \in Call : att'[e].call[c].at = "start"
    BY <1>2, AttemptFacts, EmptyFacts
  <2> QED BY <1>2, <1>3, <2>1
<1>6. LeasesAreCharged'
  BY <1>4, <1>5, LeasesStep
<1>7. SentIsNamed'
  BY DEF IInv, NamesInv, SentIsNamed
<1>8. EntriesInv' /\ NamesInv'
  BY <1>2, <1>3, <1>7, RestartStep
<1>9. Shape'
  BY <1>2 DEF IInv, Shape, Rows
<1> QED BY <1>6, <1>8, <1>9 DEF IInv

\* A row that is left as it is needs no new charge.
LEMMA LeftFacts ==
    ASSUME IInv
    PROVE  /\ run \in Rows
           /\ run.status = "pending" \/ (run.status = "suspended"
                                         /\ run.wake[1] \in Spent \cup {0})
                => run.epoch <= run.expired + run.retries + Cardinality(Spent)
           /\ run.expired >= run.expired /\ run.retries >= run.retries
<1>1. run \in Rows
  BY DEF IInv, Shape
<1>2. run.status = "pending" \/ (run.status = "suspended" /\ run.wake[1] \in Spent \cup {0})
        => run.epoch <= Charges
  BY DEF IInv, LeasesAreCharged
<1> QED BY <1>1, <1>2, ChargesFacts

\* An attempt that dies leaves everything else as it is.
LEMMA DieInv ==
    ASSUME IInv, NEW e \in Epoch, Die(e)
    PROVE  IInv'
<1>1. /\ UNCHANGED <<turn, run, journal, inbox, blips, hist>>
      /\ att' = [att EXCEPT ![e] = Attempt("gone", Empty)]
  BY DEF Die
<1>2. blips \in 0 .. MaxBlips /\ hist \in Hists
  BY DEF IInv, Shape
<1> DEFINE row == run
<1>3. /\ run' = row /\ row \in Rows /\ row.epoch = run.epoch /\ row.status = run.status
      /\ row.expired >= run.expired /\ row.retries >= run.retries
      /\ row.status = "pending" \/ (row.status = "suspended"
                                    /\ row.wake[1] \in Spent \cup {0})
           => run.epoch <= row.expired + row.retries + Cardinality(Spent)
  BY <1>1, LeftFacts
<1> HIDE DEF row
<1> QED BY <1>1, <1>2, <1>3, EndStep

\* What the end of a batch may make of its run: what the next lemma needs of a row.
GoodRow(row) ==
    /\ row \in Rows /\ row.epoch = run.epoch
    /\ row.status = "running" => run.status = "running"
    /\ row.expired >= run.expired /\ row.retries >= run.retries
    /\ row.status = "pending" \/ (row.status = "suspended" /\ row.wake[1] \in Spent \cup {0})
         => run.epoch <= row.expired + row.retries + Cardinality(Spent)

\* The end of a batch commits a row, or leaves the one there is.
LEMMA EndWithInv ==
    ASSUME IInv, NEW e \in Epoch, NEW row, NEW failed, EndWith(e, row, failed),
           Fenced(e) => GoodRow(row) /\ \A r \in failed : GoodRow(r),
           hist' \in Hists, hist'.ran = hist.ran, hist'.under = hist.under,
           \A c \in Call :
              \/ hist'.told[c] = hist.told[c]
              \/ /\ journal.entry[c].state = "completed"
                 /\ hist'.told[c] = hist.told[c] \cup {journal.entry[c].value}
    PROVE  IInv'
<1>1. /\ att' = [att EXCEPT ![e] = Attempt("gone", Empty)]
      /\ UNCHANGED <<turn, journal, inbox>>
  BY DEF EndWith
<1>2. blips' \in 0 .. MaxBlips
  <2>1. blips \in 0 .. MaxBlips
    BY DEF IInv, Shape
  <2> QED BY <2>1, BoundFacts DEF EndWith
<1>3. GoodRow(run)
  BY LeftFacts DEF GoodRow
<1>4. PICK r : GoodRow(r) /\ run' = r
  BY <1>3 DEF EndWith
<1> QED BY <1>1, <1>2, <1>4, EndStep DEF GoodRow

\* A failed attempt is charged to the retry it causes, or ends the run.
LEMMA FailedFacts ==
    ASSUME IInv
    PROVE  /\ GoodRow(Retried) /\ GoodRow([run EXCEPT !.status = "failed"])
           /\ GoodRow([run EXCEPT !.status = "completed"]) /\ GoodRow(run)
           /\ \A r \in Left : GoodRow(r)
<1>1. run \in Rows /\ GoodRow(run)
  BY LeftFacts DEF GoodRow
<1>2. ASSUME NEW status \in Ended PROVE GoodRow([run EXCEPT !.status = status])
  <2> DEFINE row == [run EXCEPT !.status = status]
  <2>1. /\ row \in Rows /\ row.status = status /\ row.epoch = run.epoch
        /\ row.expired = run.expired /\ row.retries = run.retries
    BY <1>1 DEF Rows
  <2>2. status \notin {"pending", "suspended", "running"}
    BY DEF Ended
  <2>3. row.expired >= run.expired /\ row.retries >= run.retries
    BY <2>1, ChargesFacts
  <2> HIDE DEF row
  <2>4. GoodRow(row)
    BY <2>1, <2>2, <2>3 DEF GoodRow
  <2> QED BY <2>4 DEF row
<1>3. GoodRow([run EXCEPT !.status = "failed"]) /\ GoodRow([run EXCEPT !.status = "completed"])
  BY <1>2 DEF Ended
<1>4. GoodRow(Retried)
  <2> DEFINE row == [run EXCEPT !.status = "suspended", !.wake = <<0, NoId>>,
                                !.retries = @ + 1]
  <2>1. CASE run.retries < turn.retries
    <3>1. run.retries + 1 \in 0 .. turn.retries
      BY <2>1, ChargesFacts, TurnFacts DEF IInv, Shape
    <3>2. row \in Rows /\ row.epoch = run.epoch /\ row.status = "suspended"
          /\ row.expired = run.expired /\ row.retries = run.retries + 1
      BY <1>1, <3>1 DEF Rows
    <3>3. /\ row.expired >= run.expired /\ row.retries >= run.retries
          /\ run.epoch <= row.expired + row.retries + Cardinality(Spent)
      BY <3>2, ChargesFacts
    <3>4. Retried = row
      BY <2>1 DEF Retried
    <3> HIDE DEF row
    <3> QED BY <3>2, <3>3, <3>4 DEF GoodRow
  <2>2. CASE ~(run.retries < turn.retries)
    BY <1>3, <2>2 DEF Retried
  <2> QED BY <2>1, <2>2
<1> QED BY <1>1, <1>3, <1>4 DEF Left

\* A batch that raises fails its run, or charges it a retry.
LEMMA BatchRaisesInv ==
    ASSUME IInv, NEW e \in Epoch, BatchRaises(e)
    PROVE  IInv'
<1> DEFINE c   == First(Calls(e, {"orphan", "raised"}))
           row == IF Of(e, c).at = "orphan" THEN [run EXCEPT !.status = "failed"] ELSE Retried
<1>1. EndWith(e, row, Left) /\ hist' = hist
  BY DEF BatchRaises
<1>2. GoodRow(row) /\ \A r \in Left : GoodRow(r)
  BY FailedFacts
<1>3. hist \in Hists
  BY DEF IInv, Shape
<1> HIDE DEF row, c
<1> QED BY <1>1, <1>2, <1>3, EndWithInv

\* A batch that sleeps does so on a request that nobody has answered, or is charged for it.
LEMMA BatchSleepsInv ==
    ASSUME IInv, NEW e \in Epoch, BatchSleeps(e)
    PROVE  IInv'
<1> DEFINE c   == First(Calls(e, {"suspended", "lost"}))
           row == IF Of(e, c).at = "lost" THEN run
                  ELSE [run EXCEPT !.status = IF Answers(e, c) # {} THEN "pending"
                                              ELSE "suspended",
                                   !.wake = <<c, Of(e, c).id>>]
<1>1. /\ EndWith(e, row, Left) /\ hist' = hist
      /\ Calls(e, {"suspended", "lost"}) # {}
  BY DEF BatchSleeps
<1>2. c \in Call /\ att[e].call[c].at \in {"suspended", "lost"}
  <2>1. Calls(e, {"suspended", "lost"}) \in SUBSET Nat
    BY BoundFacts DEF Calls
  <2>2. c \in Calls(e, {"suspended", "lost"})
    BY <1>1, <2>1, FirstFacts
  <2> QED BY <2>2 DEF Calls
<1> HIDE DEF c
<1>3. Fenced(e) => GoodRow(row)
  <2> SUFFICES ASSUME Fenced(e) PROVE GoodRow(row)
    OBVIOUS
  <2>1. CASE Of(e, c).at = "lost"
    BY <2>1, FailedFacts
  <2>2. CASE Of(e, c).at # "lost"
    <3>1. /\ Of(e, c) = att[e].call[c] /\ att[e].call[c].at = "suspended"
          /\ Of(e, c).id # NoId /\ Of(e, c).id = journal.id[c] /\ c \in turn.risky
          /\ Of(e, c).id \in Epoch \cup {NoId}
      BY <1>2, <2>2, CallFacts DEF IInv, NamesInv, NamesAgree, Records
    <3>2. Answers(e, c) # {} => c \in Spent
      BY <1>2, <3>1, AnswersFacts DEF Spent
    <3>3. c \in Spent => run.epoch <= run.expired + run.retries + Cardinality(Spent)
      BY <3>1, ChargesFacts DEF IInv, LeasesAreCharged
    <3>4. run \in Rows /\ <<c, Of(e, c).id>> \in (Call \cup {0}) \X (Epoch \cup {NoId})
      BY <1>2, <3>1 DEF IInv, Shape
    <3>5. /\ row \in Rows /\ row.epoch = run.epoch /\ row.wake[1] = c
          /\ row.expired = run.expired /\ row.retries = run.retries
          /\ row.status \in {"pending", "suspended"}
          /\ row.status = "pending" => Answers(e, c) # {}
      BY <2>2, <3>4 DEF Rows
    <3>6. row.expired >= run.expired /\ row.retries >= run.retries
      BY <3>5, ChargesFacts
    <3>7. c # 0
      BY <1>2, BoundFacts
    <3> HIDE DEF row
    <3> QED BY <3>2, <3>3, <3>5, <3>6, <3>7 DEF GoodRow
  <2> QED BY <2>1, <2>2
<1>4. hist \in Hists /\ \A r \in Left : GoodRow(r)
  BY FailedFacts DEF IInv, Shape
<1> HIDE DEF row
<1> QED BY <1>1, <1>3, <1>4, EndWithInv

\* A batch that returns tells the model what the journal says of each call.
LEMMA BatchReturnsInv ==
    ASSUME IInv, NEW e \in Epoch, BatchReturns(e)
    PROVE  IInv'
<1> DEFINE row == [run EXCEPT !.status = "completed"]
<1>1. /\ Calls(e, {"done"}) = Call /\ hist' = [hist EXCEPT !.told = Told(e)]
      /\ EndWith(e, row, {Retried})
  BY DEF BatchReturns
<1>2. \A c \in Call : att[e].call[c].at = "done"
  BY <1>1 DEF Calls
<1>3. \A c \in Call : /\ journal.entry[c].state = "completed"
                      /\ Of(e, c).value = journal.entry[c].value
                      /\ Of(e, c).value \in Result
  BY <1>2, CallFacts DEF IInv, EntriesInv, AnswersAgree, Records
<1>4. /\ Told(e) \in [Call -> SUBSET Result]
      /\ \A c \in Call : Told(e)[c] = hist.told[c] \cup {journal.entry[c].value}
  BY <1>3, CallFacts DEF Told, Hists
<1>5. /\ hist' \in Hists /\ hist'.ran = hist.ran /\ hist'.under = hist.under
      /\ hist'.told = Told(e)
  <2> DEFINE t == Told(e)
  <2>1. hist \in Hists
    BY DEF IInv, Shape
  <2>2. t \in [Call -> SUBSET Result] /\ hist' = [hist EXCEPT !.told = t]
    BY <1>1, <1>4
  <2>3. hist'.told = t => hist'.told = Told(e)
    OBVIOUS
  <2> HIDE DEF t
  <2> QED BY <2>1, <2>2, <2>3 DEF Hists
<1>6. GoodRow(row) /\ \A r \in {Retried} : GoodRow(r)
  BY FailedFacts
<1> HIDE DEF row
<1> QED BY <1>1, <1>3, <1>4, <1>5, <1>6, EndWithInv

-----------------------------------------------------------------------------
(* The invariant holds of every turn.                                      *)

\* It holds before the first lease.
LEMMA InitIInv == Init => IInv
<1> SUFFICES ASSUME Init PROVE IInv
  OBVIOUS
<1> USE DEF Init
<1>1. turn \in Turns /\ journal = Empty /\ blips = 0 /\ blips \in 0 .. MaxBlips
  BY BoundFacts
<1>2. run \in Rows /\ run.epoch = 0 /\ run.status = "pending" /\ run.expired = 0
      /\ run.retries = 0
  <2>1. 0 \in 0 .. MaxLease /\ 0 \in 0 .. turn.retries /\ 0 \in 0 .. MaxExpiries
    BY <1>1, BoundFacts, TurnFacts
  <2>2. <<0, NoId>> \in (Call \cup {0}) \X (Epoch \cup {NoId})
    OBVIOUS
  <2> QED BY <2>1, <2>2 DEF Rows
<1>3. /\ inbox \in Boxes /\ DOMAIN inbox.sent = {}
      /\ \A c \in Call : inbox.count[c] = 0 /\ inbox.claim[c] = "none"
  <2>1. <<>> \in Seq(Sent) /\ DOMAIN <<>> = {}
    BY EmptySeq
  <2> QED BY <2>1 DEF Boxes
<1>4. hist \in Hists /\ \A c \in Call : /\ hist.ran[c] = 0 /\ hist.under[c] = {}
                                        /\ hist.told[c] = {}
  BY DEF Hists
<1>5. /\ att \in Attempts
      /\ \A e \in Epoch, c \in Call : /\ att[e].call[c].at = "start"
                                      /\ att[e].phase = "off" /\ att[e].known = Empty
  <2> DEFINE off == Attempt("off", Empty)
  <2>1. Fresh \in Records /\ Fresh.at = "start"
    BY DEF Fresh, Records, Phase, Result
  <2>2. /\ off \in [phase : {"off", "batch", "gone"}, known : Journals,
                    call : [Call -> Records]]
        /\ off.phase = "off" /\ off.known = Empty
        /\ \A c \in Call : off.call[c].at = "start"
    BY <2>1, EmptyFacts DEF Attempt
  <2>3. att = [e \in Epoch |-> off]
    OBVIOUS
  <2> HIDE DEF off, Init
  <2> QED BY <2>2, <2>3 DEF Attempts
<1> HIDE DEF Init
<1>6. Shape
  <2>1. \A c \in Call : inbox.count[c] <= turn.decisions
    BY <1>1, <1>3, TurnFacts
  <2> QED BY <1>1, <1>2, <1>3, <1>4, <1>5, <2>1, EmptyFacts DEF Shape
<1>7. \A e \in Epoch : ~Fenced(e)
  BY <1>2 DEF Fenced
<1>8. LeasesAreCharged
  <2>1. Charges \in Nat
    BY <1>2, <1>6, SpentFacts DEF Charges
  <2> QED BY <1>2, <1>7, <2>1 DEF LeasesAreCharged
<1>9. \A e \in Epoch, c \in Call : ~Holds(e, c)
  BY <1>5 DEF Holds, Held
<1>10. EntriesInv
  <2>1. KnownIsTrue /\ FreshAhead /\ HeldIsPending
    BY <1>5, <1>7, <1>9, EmptyFacts DEF KnownIsTrue, FreshAhead, HeldIsPending
  <2>2. OneHolder /\ Accounts /\ AnswersAgree
    BY <1>4, <1>5, <1>9 DEF OneHolder, Accounts, AnswersAgree, Once
  <2> QED BY <2>1, <2>2 DEF EntriesInv
<1>11. NamesInv
  <2>1. \A c \in Call : journal.id[c] = NoId /\ journal.asked[c] = NoId
                        /\ journal.decided[c] = "none"
    BY <1>1 DEF Empty
  <2>2. IdsAreKnown /\ NamesAgree /\ SentIsNamed
    BY <1>1, <1>3, <1>5, <1>7, <2>1 DEF IdsAreKnown, NamesAgree, SentIsNamed
  <2>3. DecisionsAgree
    BY <1>5, <2>1 DEF DecisionsAgree
  <2>4. HeldToDecision
    BY <1>1, <1>4, TurnFacts DEF HeldToDecision
  <2> QED BY <2>2, <2>3, <2>4 DEF NamesInv
<1> QED BY <1>6, <1>8, <1>10, <1>11 DEF IInv

\* Every step keeps it.
LEMMA NextInv == IInv /\ [Next]_vars => IInv'
<1> SUFFICES ASSUME IInv, [Next]_vars PROVE IInv'
  OBVIOUS
<1>1. CASE Lease
  BY <1>1, LeaseInv
<1>2. CASE Expire \/ RetryTimer
  BY <1>2, ExpireOrRetryInv
<1>3. ASSUME NEW c \in Call, NEW d \in Decision, Decide(c, d) PROVE IInv'
  BY <1>3, DecideInv
<1>4. ASSUME NEW e \in Epoch, Ends(e) PROVE IInv'
  BY <1>4, BatchRaisesInv, BatchSleepsInv, BatchReturnsInv DEF Ends
<1>5. ASSUME NEW e \in Epoch, Die(e) PROVE IInv'
  BY <1>5, DieInv
<1>6. ASSUME NEW e \in Epoch, NEW c \in Call, Does(e, c) PROVE IInv'
  <2>1. CASE Replay(e, c)
    BY <2>1, ReplayInv
  <2>2. CASE Resume(e, c)
    BY <2>2, ResumeInv
  <2>3. CASE Intend(e, c)
    BY <2>3, IntendInv
  <2>4. CASE NameRequest(e, c)
    BY <2>4, NameRequestInv
  <2>5. CASE AskPerson(e, c)
    BY <2>5, AskPersonInv
  <2>6. CASE Consume(e, c)
    BY <2>6, ConsumeInv
  <2>7. CASE NoAnswer(e, c)
    BY <2>7, NoAnswerInv
  <2>8. CASE ConsumeFails(e, c)
    BY <2>8, ConsumeFailsInv
  <2>9. CASE LogDecision(e, c)
    BY <2>9, LogDecisionInv
  <2>10. CASE Execute(e, c)
    BY <2>10, ExecuteInv
  <2>11. CASE RecordResult(e, c)
    BY <2>11, RecordResultInv
  <2>12. CASE TakeBack(e, c)
    BY <2>12, TakeBackInv
  <2> QED BY <1>6, <2>1, <2>2, <2>3, <2>4, <2>5, <2>6, <2>7, <2>8, <2>9, <2>10, <2>11,
             <2>12 DEF Does
<1>7. CASE UNCHANGED vars
  <2>1. UNCHANGED <<turn, run, journal, inbox, att, blips, hist>>
    BY <1>7 DEF vars
  <2>2. Shape' /\ SentIsNamed'
    BY <2>1 DEF IInv, Shape, Rows, NamesInv, SentIsNamed
  <2>3. LeasesAreCharged'
    <3>1. Spent' = Spent
      BY <2>1 DEF Spent, SentFor
    <3>2. Charges' = Charges
      BY <2>1, <3>1 DEF Charges
    <3>3. LeasesAreCharged
      BY DEF IInv
    <3> QED BY <2>1, <3>1, <3>2, <3>3 DEF LeasesAreCharged, Fenced
  <2>4. EntriesInv' /\ NamesInv'
    BY <2>1, <2>2, RestartStep DEF Fenced
  <2> QED BY <2>2, <2>3, <2>4 DEF IInv
<1> QED BY <1>1, <1>2, <1>3, <1>4, <1>5, <1>6, <1>7 DEF Next

\* The inductive invariant holds of every behaviour, whatever the turn and its calls.
THEOREM InvariantHolds == Spec => []IInv
BY InitIInv, NextInv, PTL DEF Spec

\* The shapes, and the bound on the leases: every one but the first follows an expiry, a
\* retry, or the one sleep on a risky call (tool_batch, _journal_decision).
THEOREM ToolBatchIsTyped == Spec => []TypeOK
<1>1. IInv => TypeOK
  <2> SUFFICES ASSUME IInv PROVE TypeOK
    OBVIOUS
  <2>1. run.epoch <= 1 + run.expired + run.retries + Cardinality(turn.risky)
    BY ChargesFacts, SpentFacts DEF IInv
  <2>2. \A i \in DOMAIN inbox.sent :
          inbox.sent[i] \in [name : Call \X Epoch, decision : Decision]
    <3>1. inbox.sent \in Seq(Sent)
      BY DEF IInv, Shape, Boxes
    <3>2. \A i \in DOMAIN inbox.sent : inbox.sent[i] \in Sent
      BY <3>1, LenProperties, ElementOfSeq
    <3> QED BY <3>2 DEF Sent
  <2>3. inbox.count \in [Call -> 0 .. turn.decisions]
    <3>1. inbox.count \in [Call -> Nat] /\ turn.decisions \in Nat
      BY TurnFacts DEF IInv, Shape, Boxes
    <3>2. \A c \in Call : inbox.count[c] \in 0 .. turn.decisions
      BY <3>1 DEF IInv, Shape
    <3> QED BY <3>1, <3>2
  <2>4. \A e \in Epoch :
          /\ att[e].phase \in {"off", "batch", "gone"}
          /\ att[e].call \in [Call -> Records]
    BY DEF IInv, Shape, Attempts
  <2>5. turn \in Turns /\ run \in Rows /\ journal \in Journals /\ blips \in 0 .. MaxBlips
    BY DEF IInv, Shape
  <2>6. inbox.claim \in [Call -> Decision \cup {"none"}]
    BY DEF IInv, Shape, Boxes
  <2> QED BY <2>1, <2>2, <2>3, <2>4, <2>5, <2>6 DEF Rows, Journals, Records, TypeOK
<1> QED BY <1>1, InvariantHolds, PTL

\* Journal.effect under the forked paths of tool_batch runs a tool that is not idempotent
\* at most once for a call.
THEOREM ToolsRunOnce == Spec => []RunsOnce
<1>1. IInv => RunsOnce
  BY DEF IInv, EntriesInv, Accounts, Once, RunsOnce
<1> QED BY <1>1, InvariantHolds, PTL

\* A risky tool runs only under the decision the journal shows (_journal_decision).
THEOREM ToolsObeyDecisions == Spec => []HeldToDecision
<1>1. IInv => HeldToDecision
  BY DEF IInv, NamesInv
<1> QED BY <1>1, InvariantHolds, PTL

\* The model is told one result of each call, in whichever attempts the batch returned.
THEOREM ResultsAreToldOnce == Spec => []ToldOnce
<1>1. ASSUME IInv, NEW c \in Call PROVE Cardinality(hist.told[c]) <= 1
  <2>1. hist.told[c] = {} \/ hist.told[c] = {journal.entry[c].value}
    BY <1>1 DEF IInv, EntriesInv, AnswersAgree
  <2>2. Cardinality({}) = 0 /\ Cardinality({journal.entry[c].value}) = 1
    BY FS_EmptySet, FS_Singleton
  <2> QED BY <2>1, <2>2
<1>2. IInv => ToldOnce
  BY <1>1 DEF ToldOnce
<1> QED BY <1>2, InvariantHolds, PTL
=============================================================================
