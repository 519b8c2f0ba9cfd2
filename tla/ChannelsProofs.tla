---------------------------- MODULE ChannelsProofs ----------------------------
(***************************************************************************)
(* What holds of Channels for any people, members, modes and bounds.       *)
(***************************************************************************)
EXTENDS Channels, FiniteSetTheorems, SequenceTheorems, WellFoundedInduction, TLAPS

-----------------------------------------------------------------------------
(* The inductive invariant.                                                *)

Entries == [kind : {"message", "system", "edit", "reaction", "tombstone"},
            by : People \cup Agents \cup {System}, about : Nat \cup SUBSET Agents,
            words : SUBSET Nat, depth : Nat, deleted : BOOLEAN,
            due : SUBSET Agents, woke : SUBSET Agents, direct : SUBSET Agents]
Wakes   == [seq : Nat, direct : BOOLEAN]
Runs    == [stage : {"idle", "read", "post", "done"}, batch : Seq(Wakes), turn : Nat,
            round : Nat, upTo : Nat, to : SUBSET (Agents \cup {Everyone}), landed : BOOLEAN,
            pc : {"start", "in", "marked", "stale", "over"}, seen : SUBSET Nat]

Shape ==
    /\ log \in Seq(Entries) /\ paused \in BOOLEAN
    /\ cursor \in [Agents -> Nat] /\ engaged \subseteq Agents /\ noticed \subseteq Agents
    /\ inbox \in [Agents -> SUBSET Wakes] /\ \A m \in Agents : IsFiniteSet(inbox[m])
    /\ run \in [Agents -> Runs] /\ left \in [Agents -> Nat]

\* An entry holds its own words, or those of the message it edits, and those of no
\* message that was deleted; and it wakes members it concerns, never its writer.
LogFits ==
    \A s \in Seqs :
      /\ log[s].by = System <=> log[s].kind = "system"
      /\ log[s].woke \subseteq log[s].due \ {log[s].by} /\ log[s].direct \subseteq log[s].woke
      /\ \A w \in log[s].words : w = s \/ (log[s].kind = "edit" /\ w = log[s].about)
      /\ log[s].kind = "message" => log[s].depth <= Breaker

\* A message is at least as deep as the number of messages, it included, that members
\* have written without a person among them.
Unbroken(s, t) == {x \in s .. t : IsMessage(x)}
NoPerson(s, t) == \A x \in s .. t : IsMessage(x) => log[x].by \in Agents

DepthsFit ==
    \A s, t \in Seqs : s <= t /\ IsMessage(t) /\ NoPerson(s, t)
                         => Cardinality(Unbroken(s, t)) <= log[t].depth

\* A member's own messages are behind its cursor: they never look new to it.
Own(m) == {s \in Seqs : IsMessage(s) /\ log[s].by = m}

CursorsFit ==
    \A m \in Agents : cursor[m] <= Len(log) /\ \A s \in Own(m) : s <= cursor[m]

InboxesFit ==
    \A m \in Agents : \A w \in inbox[m] :
      /\ w.seq \in Seqs /\ m \in log[w.seq].woke
      /\ w.direct <=> m \in log[w.seq].direct

\* A member that counts as told has a notice since which nothing woke it.
Told(m, n, t) ==
    /\ log[n].kind = "system" /\ m \in log[n].about
    /\ \A x \in n .. t : m \notin log[x].woke

NoticesFit == \A m \in noticed : \E n \in Seqs : Told(m, n, Len(log))

\* What m has read of the log, or left behind.
Read(m, s) == s <= cursor[m] \/ LeftBehind(m, s)

\* What a run of m has drained is in the inbox until it completes; its addressed wakes
\* are read, or left behind, once it is past them; what it has read is newer than whatever
\* it said; and an answer that has not landed was thought of after words of others that
\* m has not answered yet.
RunFits(m, r) ==
    /\ r.upTo <= Len(log)
    /\ \A i \in DOMAIN r.batch : r.batch[i] \in inbox[m]
    /\ r.stage \in {"read", "post"} => r.turn \in DOMAIN r.batch
    /\ r.pc = "marked" => r.stage = "read"
    /\ \A i \in DOMAIN r.batch : (i < r.turn \/ r.stage = "done") /\ r.batch[i].direct
                                   => Read(m, r.batch[i].seq)
    /\ r.stage = "post" \/ r.pc = "marked" =>
         \A i \in DOMAIN r.batch : Read(m, r.batch[i].seq)
    /\ r.pc = "marked" => r.seen \subseteq Seqs /\ \A x \in r.seen, s \in Own(m) : s < x
    /\ r.stage = "post" /\ ~r.landed =>
         /\ r.upTo \in Seqs /\ IsSpoken(r.upTo) /\ log[r.upTo].by # m
         /\ \A s \in Own(m) : s < r.upTo

RunsFit == \A m \in Agents : RunFits(m, run[m])

LogInv == LogFits /\ ErasedEverywhere /\ DepthsFit /\ NeverRepeatsItself

IInv == /\ Shape /\ LogInv /\ CursorsFit /\ InboxesFit
        /\ NoticesFit /\ SilenceIsExplained /\ MentionIsKept /\ RunsFit

-----------------------------------------------------------------------------
(* Facts used throughout.                                                  *)

\* A finite set of positions has a last one.
LEMMA MaxFacts ==
    ASSUME NEW n \in Nat, NEW S \in SUBSET (0 .. n), S # {}
    PROVE  Max(S) \in S /\ \A y \in S : y <= Max(S)
<1> DEFINE R == OpToRel(<, Nat)
           T == {n - x : x \in S}
<1>1. IsWellFoundedOn(R, Nat)
  BY NatLessThanWellFounded
<1>2. \A x, y \in Nat : <<y, x>> \in R <=> y < x
  BY DEF OpToRel
<1> HIDE DEF R
<1>0. \A x \in S : x \in Int /\ n - x \in Nat
  OBVIOUS
<1>3. T \in SUBSET Nat /\ T # {}
  BY <1>0
<1>4. PICK z \in T : \A y \in T : ~ (<<y, z>> \in R)
  <2> HIDE DEF T
  <2> QED BY <1>1, <1>3, WFMin
<1>5. \A y \in T : ~(y < z) /\ z \in Nat /\ y \in Nat
  <2> HIDE DEF T
  <2> QED BY <1>2, <1>3, <1>4
<1>6. PICK x \in S : z = n - x
  OBVIOUS
<1>7. \A y \in S : y <= x
  <2>1. ASSUME NEW y \in S PROVE y <= x
    <3>1. n - y \in T
      OBVIOUS
    <3>2. ~(n - y < z)
      BY <1>5, <3>1
    <3> QED BY <1>6, <3>2
  <2> QED BY <2>1
<1>8. x >= x /\ \A y \in S : x >= y
  BY <1>7
<1>9. Max(S) \in S /\ \A y \in S : Max(S) >= y
  BY <1>8 DEF Max
<1>10. \A y \in S : Max(S) \in Int /\ y \in Int
  BY <1>0, <1>9
<1> QED BY <1>9, <1>10

\* The log is a sequence of entries.
LEMMA LogFacts ==
    ASSUME log \in Seq(Entries)
    PROVE  /\ Len(log) \in Nat /\ DOMAIN log = 1 .. Len(log)
           /\ \A s \in Seqs : log[s] \in Entries
           /\ \A s \in Seqs : s \in Nat /\ s <= Len(log) /\ 1 <= s
BY LenProperties, ElementOfSeq DEF Seqs

\* One more entry.
LEMMA AppendFacts ==
    ASSUME NEW E, NEW l \in Seq(E), NEW a \in E
    PROVE  /\ Append(l, a) \in Seq(E) /\ Len(Append(l, a)) = Len(l) + 1
           /\ \A i \in 1 .. Len(l) : Append(l, a)[i] = l[i]
           /\ Append(l, a)[Len(l) + 1] = a
BY AppendProperties

\* One more entry, and perhaps another.
LEMMA AppendTwoFacts ==
    ASSUME NEW E, NEW l \in Seq(E), NEW a \in E, NEW b \in E, NEW c \in BOOLEAN,
           NEW r, r = Append(l, a) \o (IF c THEN <<>> ELSE <<b>>)
    PROVE  /\ r \in Seq(E) /\ Len(r) = IF c THEN Len(l) + 1 ELSE Len(l) + 2
           /\ \A i \in 1 .. Len(l) : r[i] = l[i]
           /\ r[Len(l) + 1] = a
           /\ ~c => r[Len(l) + 2] = b
<1> DEFINE p == Append(l, a)
<1>1. /\ p \in Seq(E) /\ Len(p) = Len(l) + 1 /\ Len(l) \in Nat
      /\ \A i \in 1 .. Len(l) : p[i] = l[i]
      /\ p[Len(l) + 1] = a
  BY AppendFacts, LenProperties
<1> HIDE DEF p
<1>2. CASE c
  <2>1. r = p \o <<>>
    BY <1>2 DEF p
  <2>2. r = p
    BY <1>1, <2>1, ConcatEmptySeq
  <2> QED BY <1>1, <1>2, <2>2
<1>3. CASE ~c
  <2>1. r = p \o <<b>> /\ <<b>> \in Seq(E) /\ Len(<<b>>) = 1 /\ <<b>>[1] = b
    BY <1>3 DEF p
  <2>2. /\ r \in Seq(E) /\ Len(r) = Len(p) + 1
        /\ \A i \in 1 .. Len(p) + 1 : r[i] = IF i <= Len(p) THEN p[i] ELSE <<b>>[i - Len(p)]
    <3>1. /\ p \o <<b>> \in Seq(E) /\ Len(p \o <<b>>) = Len(p) + Len(<<b>>)
          /\ \A i \in 1 .. Len(p) + Len(<<b>>) : (p \o <<b>>)[i] =
                     IF i <= Len(p) THEN p[i] ELSE <<b>>[i - Len(p)]
      BY <1>1, <2>1, ConcatProperties
    <3> QED BY <2>1, <3>1
  <2>3. \A i \in 1 .. Len(l) : r[i] = p[i]
    BY <1>1, <2>2
  <2>4. r[Len(l) + 1] = p[Len(l) + 1]
    BY <1>1, <2>2
  <2>5. r[Len(l) + 2] = b
    <3>1. /\ Len(l) + 2 \in 1 .. Len(p) + 1 /\ ~(Len(l) + 2 <= Len(p))
          /\ Len(l) + 2 - Len(p) = 1
      BY <1>1
    <3> QED BY <2>1, <2>2, <3>1
  <2> QED BY <1>1, <1>3, <2>2, <2>3, <2>4, <2>5
<1> QED BY <1>2, <1>3

-----------------------------------------------------------------------------
(* The log grows: entries are added, and of an old one only the text may go. *)

Same(e, f) ==
    /\ f.kind = e.kind /\ f.by = e.by /\ f.about = e.about /\ f.depth = e.depth
    /\ f.due = e.due /\ f.woke = e.woke /\ f.direct = e.direct

Grows ==
    /\ log' \in Seq(Entries) /\ Len(log) <= Len(log')
    /\ \A s \in Seqs : Same(log[s], log'[s]) /\ log'[s].words \subseteq log[s].words

\* A log that stays as it is grows by nothing.
LEMMA UnchangedGrows ==
    ASSUME log \in Seq(Entries), UNCHANGED log
    PROVE  Grows
BY LogFacts DEF Grows, Same

\* The old entries stay where they are, and say of each other what they said.
LEMMA OldEntries ==
    ASSUME Shape, Grows
    PROVE  /\ Len(log) \in Nat /\ Len(log') \in Nat /\ Seqs \subseteq Seqs'
           /\ \A s \in Seqs' : s \in Nat /\ (s \in Seqs <=> s <= Len(log))
           /\ \A s \in Seqs : /\ IsMessage(s)' <=> IsMessage(s)
                              /\ IsSpoken(s)' <=> IsSpoken(s)
                              /\ log'[s].by = log[s].by
           /\ \A s, t \in Seqs : s .. t \subseteq Seqs
<1>1. Len(log) \in Nat /\ Len(log') \in Nat /\ Seqs = 1 .. Len(log) /\ Seqs' = 1 .. Len(log')
      /\ Len(log) <= Len(log')
  BY LenProperties DEF Shape, Grows, Seqs
<1>2. \A s \in Seqs : Same(log[s], log'[s])
  BY DEF Grows
<1> QED BY <1>1, <1>2 DEF Same, IsMessage, IsSpoken

\* What the old entries owe to each other they still do.
LEMMA OldProperties ==
    ASSUME IInv, Grows
    PROVE  /\ \A s, t \in Seqs : s <= t /\ IsMessage(t)' /\ NoPerson(s, t)'
                                   => Cardinality(Unbroken(s, t)') <= log'[t].depth
           /\ \A s, t \in Seqs :
                s < t /\ IsMessage(s)' /\ IsMessage(t)' /\ log'[s].by = log'[t].by
                  /\ log'[s].by \in Agents
                  => \E x \in s .. t : IsSpoken(x)' /\ log'[x].by # log'[s].by
           /\ \A s \in Seqs : \A m \in log'[s].due \ log'[s].woke :
                \E n \in Seqs' : /\ n <= s + 1
                                 /\ log'[n].kind = "system" /\ m \in log'[n].about
                                 /\ \A x \in n .. s : m \notin log'[x].woke
           /\ \A m, n, t : n \in Seqs /\ t \in Seqs /\ Told(m, n, t) => Told(m, n, t)'
           /\ \A s \in Seqs :
                /\ log'[s].by = System <=> log'[s].kind = "system"
                /\ log'[s].woke \subseteq log'[s].due \ {log'[s].by}
                /\ log'[s].direct \subseteq log'[s].woke
                /\ \A w \in log'[s].words : w = s \/ (log'[s].kind = "edit" /\ w = log'[s].about)
                /\ log'[s].kind = "message" => log'[s].depth <= Breaker
<1> USE OldEntries DEF IInv
<1>1. \A s \in Seqs : Same(log[s], log'[s]) /\ log'[s].words \subseteq log[s].words
  BY DEF Grows
<1>2. ASSUME NEW s \in Seqs, NEW t \in Seqs, s <= t, IsMessage(t)', NoPerson(s, t)'
      PROVE  Cardinality(Unbroken(s, t)') <= log'[t].depth
  <2>1. s .. t \subseteq Seqs
    OBVIOUS
  <2>2. IsMessage(t) /\ NoPerson(s, t) /\ Unbroken(s, t)' = Unbroken(s, t)
    BY <1>2, <2>1 DEF NoPerson, Unbroken
  <2> QED BY <1>1, <1>2, <2>2 DEF LogInv, DepthsFit, Same
<1>3. ASSUME NEW s \in Seqs, NEW t \in Seqs,
             s < t, IsMessage(s)', IsMessage(t)', log'[s].by = log'[t].by, log'[s].by \in Agents
      PROVE  \E x \in s .. t : IsSpoken(x)' /\ log'[x].by # log'[s].by
  <2>1. PICK x \in s .. t : IsSpoken(x) /\ log[x].by # log[s].by
    BY <1>3 DEF LogInv, NeverRepeatsItself
  <2> QED BY <2>1
<1>4. ASSUME NEW s \in Seqs, NEW m \in log'[s].due \ log'[s].woke
      PROVE  \E n \in Seqs' : /\ n <= s + 1
                              /\ log'[n].kind = "system" /\ m \in log'[n].about
                              /\ \A x \in n .. s : m \notin log'[x].woke
  <2>1. m \in log[s].due \ log[s].woke
    BY <1>1 DEF Same
  <2>2. PICK n \in Seqs : /\ n <= s + 1
                          /\ log[n].kind = "system" /\ m \in log[n].about
                          /\ \A x \in n .. s : m \notin log[x].woke
    BY <2>1 DEF SilenceIsExplained
  <2>3. \A x \in n .. s : x \in Seqs
    OBVIOUS
  <2>4. log'[n].kind = "system" /\ m \in log'[n].about
    BY <1>1, <2>2 DEF Same
  <2>5. \A x \in n .. s : m \notin log'[x].woke
    BY <1>1, <2>2, <2>3 DEF Same
  <2>6. n \in Seqs'
    OBVIOUS
  <2> QED BY <2>2, <2>4, <2>5, <2>6
<1>5. ASSUME NEW m, NEW n \in Seqs, NEW t \in Seqs, Told(m, n, t)
      PROVE  Told(m, n, t)'
  <2>1. \A x \in n .. t : x \in Seqs
    OBVIOUS
  <2> QED BY <1>1, <1>5, <2>1 DEF Told, Same
<1>6. ASSUME NEW s \in Seqs
      PROVE  /\ log'[s].by = System <=> log'[s].kind = "system"
             /\ log'[s].woke \subseteq log'[s].due \ {log'[s].by}
             /\ log'[s].direct \subseteq log'[s].woke
             /\ \A w \in log'[s].words : w = s \/ (log'[s].kind = "edit" /\ w = log'[s].about)
             /\ log'[s].kind = "message" => log'[s].depth <= Breaker
  BY <1>1 DEF LogInv, LogFits, Same
<1> QED BY <1>2, <1>3, <1>4, <1>5, <1>6

\* A run keeps what it has while the log, its inbox and its cursor grow, if its member
\* says nothing or the run has nothing more to read or to say.
LEMMA RunKept ==
    ASSUME IInv, Grows, NEW m \in Agents, NEW r \in Runs, RunFits(m, r),
           inbox[m] \subseteq inbox'[m], cursor'[m] \in Nat, cursor[m] <= cursor'[m],
           left'[m] = left[m],
           Own(m)' = Own(m) \/ (r.pc # "marked" /\ (r.stage = "post" => r.landed))
    PROVE  RunFits(m, r)'
<1>1. cursor[m] \in Nat /\ r.upTo \in Nat /\ \A i \in DOMAIN r.batch : r.batch[i].seq \in Nat
  <2>1. \A i \in DOMAIN r.batch : r.batch[i] \in Wakes
    BY DEF RunFits, IInv, Shape
  <2> QED BY <2>1 DEF IInv, Shape, Runs, Wakes
<1>2. Len(log) \in Nat /\ Len(log') \in Nat /\ Len(log) <= Len(log')
  BY OldEntries DEF IInv, Grows
<1>3. r.upTo <= Len(log')
  BY <1>1, <1>2 DEF RunFits
<1>4. \A i \in DOMAIN r.batch : Read(m, r.batch[i].seq) => Read(m, r.batch[i].seq)'
  BY <1>1 DEF Read, LeftBehind
<1>5. /\ \A i \in DOMAIN r.batch : r.batch[i] \in inbox'[m]
      /\ r.stage \in {"read", "post"} => r.turn \in DOMAIN r.batch
      /\ r.pc = "marked" => r.stage = "read"
      /\ \A i \in DOMAIN r.batch : (i < r.turn \/ r.stage = "done") /\ r.batch[i].direct
                                     => Read(m, r.batch[i].seq)'
      /\ r.stage = "post" \/ r.pc = "marked" =>
           \A i \in DOMAIN r.batch : Read(m, r.batch[i].seq)'
  BY <1>4 DEF RunFits
<1>6. r.pc = "marked" => r.seen \subseteq Seqs' /\ \A x \in r.seen, s \in Own(m)' : s < x
  BY OldEntries DEF RunFits, IInv
<1>7. r.stage = "post" /\ ~r.landed =>
         /\ r.upTo \in Seqs' /\ IsSpoken(r.upTo)' /\ log'[r.upTo].by # m
         /\ \A s \in Own(m)' : s < r.upTo
  BY OldEntries DEF RunFits, IInv
<1> QED BY <1>3, <1>5, <1>6, <1>7 DEF RunFits, IsSpoken
-----------------------------------------------------------------------------
(* The steps of a run that leave the store alone.                          *)

\* It is enough that the run fits.
LEMMA RunStep ==
    ASSUME IInv, UNCHANGED store, NEW m \in Agents, NEW r \in Runs,
           run' = [run EXCEPT ![m] = r], RunFits(m, r)
    PROVE  IInv'
<1>1. /\ log' = log /\ paused' = paused /\ cursor' = cursor /\ engaged' = engaged
      /\ noticed' = noticed /\ inbox' = inbox /\ left' = left
  BY DEF store
<1>2. Shape'
  BY <1>1 DEF IInv, Shape
<1>3. /\ LogInv' /\ InboxesFit' /\ NoticesFit' /\ SilenceIsExplained' /\ MentionIsKept'
      /\ CursorsFit'
  <2>1. LogInv'
    BY <1>1 DEF IInv, LogInv, LogFits, ErasedEverywhere, DepthsFit, NeverRepeatsItself, Seqs,
                IsMessage, IsSpoken, NoPerson, Unbroken
  <2>2. InboxesFit' /\ MentionIsKept'
    BY <1>1 DEF IInv, InboxesFit, Seqs, MentionIsKept, LeftBehind
  <2>3. NoticesFit' /\ SilenceIsExplained'
    BY <1>1 DEF IInv, NoticesFit, Told, SilenceIsExplained, Seqs
  <2>4. CursorsFit'
    BY <1>1 DEF IInv, CursorsFit, Own, Seqs, IsMessage
  <2> QED BY <2>1, <2>2, <2>3, <2>4
<1>4. ASSUME NEW k \in Agents PROVE RunFits(k, run[k])'
  <2>1. \A q : RunFits(k, q) => /\ q.upTo <= Len(log')
                                /\ RunFits(k, q)
    BY <1>1 DEF RunFits
  <2>2. RunFits(k, run'[k])
    BY DEF IInv, RunsFit, Shape
  <2>3. RunFits(k, run[k])' <=> RunFits(k, run'[k])
    BY <1>1 DEF RunFits, Own, Seqs, IsMessage, IsSpoken, Read, LeftBehind
  <2> QED BY <2>2, <2>3
<1> QED BY <1>2, <1>3, <1>4 DEF IInv, RunsFit

\* What a run is once its inbox is drained.
LEMMA DrainStep ==
    ASSUME IInv, ChannelsAssumption, NEW m \in Agents, Drain(m)
    PROVE  IInv'
<1>1. PICK b \in Orders(inbox[m]) :
         run' = [run EXCEPT ![m] = [Idle EXCEPT !.stage = "read", !.batch = b]]
  BY DEF Drain
<1>2. Cardinality(inbox[m]) \in Nat /\ inbox[m] \subseteq Wakes /\ inbox[m] # {}
  BY FS_CardinalityType DEF IInv, Shape, Drain
<1>3. Cardinality(inbox[m]) # 0
  BY <1>2, FS_EmptySet DEF IInv, Shape
<1>4. b \in [1 .. Cardinality(inbox[m]) -> inbox[m]]
  BY DEF Orders
<1>5. b \in Seq(Wakes) /\ DOMAIN b = 1 .. Cardinality(inbox[m])
  BY <1>2, <1>4, SeqDef
<1> DEFINE r == [Idle EXCEPT !.stage = "read", !.batch = b]
<1>6. /\ r \in Runs /\ r.batch = b /\ r.stage = "read" /\ r.turn = 1 /\ r.pc = "start"
      /\ r.upTo = 0
  BY <1>5 DEF Idle, Runs
<1>7. run' = [run EXCEPT ![m] = r]
  BY <1>1
<1> HIDE DEF r
<1>8. Len(log) \in Nat
  BY LogFacts DEF IInv, Shape
<1>9. RunFits(m, r)
  BY <1>2, <1>3, <1>4, <1>5, <1>6, <1>8 DEF RunFits
<1> QED BY <1>6, <1>7, <1>9, RunStep DEF Drain

\* The runs and what they have drained, unfolded.
LEMMA RunFacts ==
    ASSUME IInv, NEW m \in Agents
    PROVE  /\ run[m] \in Runs /\ RunFits(m, run[m]) /\ cursor[m] \in Nat /\ Len(log) \in Nat
           /\ run[m].batch \in Seq(Wakes) /\ Len(run[m].batch) \in Nat
           /\ DOMAIN run[m].batch = 1 .. Len(run[m].batch)
           /\ \A i \in DOMAIN run[m].batch : run[m].batch[i] \in Wakes
<1>1. run[m] \in Runs /\ RunFits(m, run[m]) /\ cursor[m] \in Nat
  BY DEF IInv, Shape, RunsFit
<1>2. Len(log) \in Nat
  BY LogFacts DEF IInv, Shape
<1>3. run[m].batch \in Seq(Wakes)
  BY <1>1 DEF Runs
<1>4. /\ Len(run[m].batch) \in Nat /\ DOMAIN run[m].batch = 1 .. Len(run[m].batch)
      /\ \A i \in DOMAIN run[m].batch : run[m].batch[i] \in Wakes
  BY <1>3, LenProperties, ElementOfSeq
<1> QED BY <1>1, <1>2, <1>3, <1>4

\* What a handler leaves that has read everything in its batch.
LEMMA AfterFits ==
    ASSUME IInv, NEW m \in Agents, NEW r \in Runs, r.turn \in DOMAIN r.batch,
           \A i \in DOMAIN r.batch : r.batch[i] \in inbox[m] /\ Read(m, r.batch[i].seq)
    PROVE  AfterHandler(r) \in Runs /\ RunFits(m, AfterHandler(r))
<1>1. /\ r.batch \in Seq(Wakes) /\ r.turn \in Nat /\ Len(r.batch) \in Nat
      /\ DOMAIN r.batch = 1 .. Len(r.batch) /\ Len(log) \in Nat
  BY LenProperties, RunFacts DEF Runs
<1> DEFINE a == [Idle EXCEPT !.stage = "read", !.batch = r.batch, !.turn = r.turn + 1]
           e == [Idle EXCEPT !.stage = "done", !.batch = r.batch]
<1>2. /\ a \in Runs /\ a.stage = "read" /\ a.batch = r.batch /\ a.turn = r.turn + 1
      /\ a.pc = "start" /\ a.upTo = 0
  <2>1. r.turn + 1 \in Nat
    BY <1>1
  <2>2. a \in Runs
    BY <1>1, <2>1 DEF Idle, Runs
  <2> QED BY <2>2 DEF Idle
<1>3. e \in Runs /\ e.stage = "done" /\ e.batch = r.batch /\ e.pc = "start" /\ e.upTo = 0
  BY <1>1 DEF Idle, Runs
<1>4. AfterHandler(r) = IF r.turn < Len(r.batch) THEN a ELSE e
  BY DEF AfterHandler, AtEnd
<1> HIDE DEF a, e
<1>5. r.turn < Len(r.batch) => RunFits(m, a)
  BY <1>1, <1>2 DEF RunFits, Read, LeftBehind
<1>6. RunFits(m, e)
  BY <1>1, <1>3 DEF RunFits
<1> QED BY <1>2, <1>3, <1>4, <1>5, <1>6

\* A member that is busy skips a wake that was not addressed to it.
LEMMA LeaveUnreadStep ==
    ASSUME IInv, NEW m \in Agents, LeaveUnread(m)
    PROVE  IInv'
<1> DEFINE old == run[m]
           a == [old EXCEPT !.turn = old.turn + 1]
           e == [Idle EXCEPT !.stage = "done", !.batch = old.batch]
<1>1. /\ old \in Runs /\ RunFits(m, old) /\ cursor[m] \in Nat /\ Len(log) \in Nat
      /\ Len(old.batch) \in Nat /\ DOMAIN old.batch = 1 .. Len(old.batch)
      /\ \A i \in DOMAIN old.batch : old.batch[i] \in Wakes
  BY RunFacts
<1>2. /\ old.stage \in {"read", "post"} /\ old.pc = "start" /\ UNCHANGED store
      /\ ~ old.batch[old.turn].direct
  BY DEF LeaveUnread, MayWait, Wake
<1>3. run' = [run EXCEPT ![m] = IF old.turn < Len(old.batch) THEN a ELSE e]
  BY DEF LeaveUnread, PassedOver, AtEnd
<1>4. /\ a \in Runs /\ a.turn = old.turn + 1 /\ a.stage = old.stage /\ a.batch = old.batch
      /\ a.pc = "start" /\ a.upTo = old.upTo /\ a.landed = old.landed /\ old.turn \in Nat
  <2> HIDE DEF old
  <2>1. old.turn \in Nat /\ old.turn + 1 \in Nat
    BY <1>1 DEF Runs
  <2>2. a \in Runs
    BY <1>1, <2>1 DEF Runs
  <2>3. /\ a.turn = old.turn + 1 /\ a.stage = old.stage /\ a.batch = old.batch
        /\ a.pc = old.pc /\ a.upTo = old.upTo /\ a.landed = old.landed
    BY <1>1 DEF Runs
  <2> QED BY <1>2, <2>1, <2>2, <2>3
<1>5. e \in Runs /\ e.stage = "done" /\ e.batch = old.batch /\ e.pc = "start" /\ e.upTo = 0
  BY <1>1 DEF Idle, Runs
<1> HIDE DEF old, a, e
<1>6. old.turn \in 1 .. Len(old.batch)
  BY <1>1, <1>2 DEF RunFits
<1>7. CASE old.turn < Len(old.batch)
  <2>1. \A i \in DOMAIN old.batch : i < old.turn + 1 => i < old.turn \/ i = old.turn
    BY <1>1, <1>4
  <2>2. RunFits(m, a)
    BY <1>1, <1>2, <1>4, <1>6, <1>7, <2>1 DEF RunFits
  <2> QED BY <1>2, <1>3, <1>4, <1>7, <2>2, RunStep
<1>8. CASE ~(old.turn < Len(old.batch))
  <2>1. \A i \in DOMAIN old.batch : i < old.turn \/ i = old.turn
    BY <1>1, <1>4, <1>6, <1>8
  <2>2. RunFits(m, e)
    BY <1>1, <1>2, <1>5, <2>1 DEF RunFits
  <2> QED BY <1>2, <1>3, <1>5, <1>8, <2>2, RunStep
<1> QED BY <1>7, <1>8

\* What is answered was said by somebody else, after whatever the member said.
LEMMA ThinkStep ==
    ASSUME IInv, ChannelsAssumption, NEW m \in Agents, Think(m)
    PROVE  IInv'
<1> DEFINE old == run[m]
           spoken == {s \in old.seen : IsSpoken(s)}
<1>1. /\ old \in Runs /\ RunFits(m, old) /\ cursor[m] \in Nat /\ Len(log) \in Nat
      /\ Len(old.batch) \in Nat /\ DOMAIN old.batch = 1 .. Len(old.batch)
      /\ \A i \in DOMAIN old.batch : old.batch[i] \in Wakes
  BY RunFacts
<1>2. old.stage = "read" /\ old.pc = "marked" /\ UNCHANGED store
  BY DEF Think, InAttempt
<1>3. /\ \/ run' = [run EXCEPT ![m] = AfterHandler(old)]
         \/ /\ spoken # {}
            /\ \E to \in Addressings :
                 run' = [run EXCEPT ![m] = [old EXCEPT !.stage = "post", !.pc = "in",
                              !.upTo = Max(spoken), !.to = to \ {m}, !.seen = {}]]
  BY DEF Think
<1> HIDE DEF old
<1>4. CASE run' = [run EXCEPT ![m] = AfterHandler(old)]
  <2>1. /\ old.turn \in DOMAIN old.batch
        /\ \A i \in DOMAIN old.batch : old.batch[i] \in inbox[m] /\ Read(m, old.batch[i].seq)
    BY <1>1, <1>2 DEF RunFits
  <2>2. AfterHandler(old) \in Runs /\ RunFits(m, AfterHandler(old))
    BY <1>1, <2>1, AfterFits
  <2> QED BY <1>2, <1>4, <2>2, RunStep
<1>5. ASSUME spoken # {}, NEW to \in Addressings,
             run' = [run EXCEPT ![m] = [old EXCEPT !.stage = "post", !.pc = "in",
                              !.upTo = Max(spoken), !.to = to \ {m}, !.seen = {}]]
      PROVE  IInv'
  <2>1. spoken \subseteq Seqs /\ \A x \in spoken, s \in Own(m) : s < x
    BY <1>1, <1>2 DEF RunFits
  <2>2. spoken \subseteq 0 .. Len(log)
    BY <2>1, <1>1 DEF Seqs
  <2>3. Max(spoken) \in spoken
    <3> HIDE DEF spoken
    <3> QED BY <1>1, <1>5, <2>2, MaxFacts
  <2> DEFINE x == Max(spoken)
  <2>4. x \in Seqs /\ IsSpoken(x) /\ \A s \in Own(m) : s < x
    BY <2>1, <2>3
  <2>5. log[x].by # m
    <3>1. CASE IsMessage(x)
      <4>1. x \notin Own(m)
        <5> HIDE DEF x
        <5>1. x \in Nat
          BY <2>4, <1>1 DEF Seqs
        <5> QED BY <2>4, <5>1
      <4> QED BY <2>4, <3>1, <4>1 DEF Own
    <3>2. CASE ~IsMessage(x)
      <4>1. log[x].by = System
        BY <2>4, <3>2 DEF IInv, LogInv, LogFits, IsSpoken, IsMessage
      <4> QED BY <4>1 DEF ChannelsAssumption
    <3> QED BY <3>1, <3>2
  <2> DEFINE r == [old EXCEPT !.stage = "post", !.pc = "in", !.upTo = x, !.to = to \ {m},
                              !.seen = {}]
  <2>6. x \in Nat /\ x <= Len(log) /\ to \ {m} \subseteq Agents \cup {Everyone}
    BY <2>4, <1>1 DEF Seqs, ChannelsAssumption
  <2>7. run' = [run EXCEPT ![m] = r]
    BY <1>5
  <2> HIDE DEF x
  <2>8. /\ r \in Runs /\ r.stage = "post" /\ r.pc = "in" /\ r.upTo = x
        /\ r.batch = old.batch /\ r.turn = old.turn
    BY <1>1, <2>6 DEF Runs
  <2> HIDE DEF r, spoken
  <2>9. RunFits(m, r)
    BY <1>1, <1>2, <2>4, <2>5, <2>6, <2>8 DEF RunFits
  <2> QED BY <1>2, <2>7, <2>8, <2>9, RunStep
<1> QED BY <1>3, <1>4, <1>5

\* The outcome of a post is recorded.
LEMMA RecordPostStep ==
    ASSUME IInv, ChannelsAssumption, NEW m \in Agents, RecordPost(m)
    PROVE  IInv'
<1> DEFINE old == run[m]
           q == [old EXCEPT !.landed = FALSE]
           a == [q EXCEPT !.stage = "read", !.round = q.round + 1, !.pc = "in"]
<1>1. /\ old \in Runs /\ RunFits(m, old) /\ cursor[m] \in Nat /\ Len(log) \in Nat
      /\ Len(old.batch) \in Nat /\ DOMAIN old.batch = 1 .. Len(old.batch)
      /\ \A i \in DOMAIN old.batch : old.batch[i] \in Wakes
  BY RunFacts
<1>2. old.stage = "post" /\ old.pc \in {"stale", "over"} /\ UNCHANGED store
  BY DEF RecordPost
<1>3. \/ run' = [run EXCEPT ![m] = a]
      \/ run' = [run EXCEPT ![m] = AfterHandler(q)]
  BY DEF RecordPost
<1> HIDE DEF old
<1>4. /\ q \in Runs /\ q.batch = old.batch /\ q.turn = old.turn
      /\ a \in Runs /\ a.batch = old.batch /\ a.turn = old.turn /\ a.stage = "read"
      /\ a.pc = "in" /\ a.upTo = old.upTo
  <2>1. /\ q \in Runs /\ q.batch = old.batch /\ q.turn = old.turn /\ q.upTo = old.upTo
        /\ q.round \in Nat
    BY <1>1 DEF Runs
  <2> HIDE DEF q
  <2>2. q.round + 1 \in Nat
    BY <2>1
  <2>3. a \in Runs
    BY <2>1, <2>2 DEF Runs
  <2>4. /\ a.batch = q.batch /\ a.turn = q.turn /\ a.stage = "read" /\ a.pc = "in"
        /\ a.upTo = q.upTo
    BY <2>1 DEF Runs
  <2> QED BY <2>1, <2>3, <2>4
<1> HIDE DEF q, a
<1>5. RunFits(m, a)
  BY <1>1, <1>2, <1>4 DEF RunFits
<1>6. AfterHandler(q) \in Runs /\ RunFits(m, AfterHandler(q))
  <2>1. /\ q.turn \in DOMAIN q.batch
        /\ \A i \in DOMAIN q.batch : q.batch[i] \in inbox[m] /\ Read(m, q.batch[i].seq)
    BY <1>1, <1>2, <1>4 DEF RunFits
  <2> QED BY <1>4, <2>1, AfterFits
<1> QED BY <1>2, <1>3, <1>4, <1>5, <1>6, RunStep

\* An attempt ends, and the next one starts from the journal.
LEMMA CrashStep ==
    ASSUME IInv, NEW m \in Agents, Crash(m)
    PROVE  IInv'
<1> DEFINE old == run[m]
           r == [old EXCEPT !.pc = "start", !.seen = {}]
<1>1. old \in Runs /\ RunFits(m, old) /\ UNCHANGED store
  BY RunFacts DEF Crash
<1>2. run' = [run EXCEPT ![m] = r]
  BY DEF Crash
<1> HIDE DEF old
<1>3. /\ r \in Runs /\ r.pc = "start" /\ r.stage = old.stage /\ r.batch = old.batch
      /\ r.turn = old.turn /\ r.upTo = old.upTo /\ r.landed = old.landed
  BY <1>1 DEF Runs
<1> HIDE DEF r
<1>4. RunFits(m, r)
  BY <1>1, <1>3 DEF RunFits
<1> QED BY <1>1, <1>2, <1>3, <1>4, RunStep

\* What a post makes of the run.
LEMMA PostRun ==
    ASSUME IInv, NEW m \in Agents, Post(m)
    PROVE  /\ run[m].stage = "post"
           /\ \E r \in Runs : /\ run' = [run EXCEPT ![m] = r]
                              /\ r.stage = "post" /\ r.pc \in {"stale", "over"}
                              /\ r.batch = run[m].batch /\ r.turn = run[m].turn
                              /\ r.upTo = run[m].upTo
                              /\ r.landed <=> run[m].landed \/ PostOutcome(m) = "posted"
<1> DEFINE old == run[m]
           p   == IF PostOutcome(m) = "stale" THEN "stale" ELSE "over"
           l   == old.landed \/ PostOutcome(m) = "posted"
           r   == [old EXCEPT !.pc = p, !.landed = l]
<1>1. old \in Runs /\ run \in [Agents -> Runs]
  BY DEF IInv, Shape
<1>2. old.stage = "post" /\ run' = [run EXCEPT ![m].pc = p, ![m].landed = l]
  BY DEF Post, InAttempt
<1>3. p \in {"stale", "over"} /\ l \in BOOLEAN
  OBVIOUS
<1> HIDE DEF p, l
<1>4. run' = [run EXCEPT ![m] = r]
  BY <1>1, <1>2
<1> HIDE DEF old
<1>5. /\ r \in Runs /\ r.pc = p /\ r.stage = "post" /\ r.batch = old.batch
      /\ r.turn = old.turn /\ r.upTo = old.upTo /\ r.landed = l
  BY <1>1, <1>2, <1>3 DEF Runs
<1>6. l <=> old.landed \/ PostOutcome(m) = "posted"
  BY DEF l
<1> HIDE DEF r
<1> QED BY <1>2, <1>3, <1>4, <1>5, <1>6 DEF old

\* It fits while nothing was posted.
LEMMA RefusedRun ==
    ASSUME IInv, NEW m \in Agents, Post(m), PostOutcome(m) # "posted"
    PROVE  \E r \in Runs : run' = [run EXCEPT ![m] = r] /\ RunFits(m, r)
<1>1. PICK r \in Runs : /\ run' = [run EXCEPT ![m] = r]
                        /\ r.stage = "post" /\ r.pc \in {"stale", "over"}
                        /\ r.batch = run[m].batch /\ r.turn = run[m].turn
                        /\ r.upTo = run[m].upTo
                        /\ r.landed <=> run[m].landed
  BY PostRun
<1>2. RunFits(m, run[m]) /\ run[m].stage = "post"
  BY PostRun, RunFacts
<1>3. RunFits(m, r)
  BY <1>1, <1>2 DEF RunFits
<1> QED BY <1>1, <1>3

\* A post that writes nothing: it landed before, the channel is paused, or it is stale.
LEMMA RefusedStep ==
    ASSUME IInv, NEW m \in Agents, Post(m), PostOutcome(m) \notin {"posted", "tripped"}
    PROVE  IInv'
<1>1. UNCHANGED store
  BY DEF Post
<1> QED BY <1>1, RefusedRun, RunStep

-----------------------------------------------------------------------------
(* Reading, and the end of a run: the log stays as it is.                  *)

\* What is said of the log alone goes on to hold.
LEMMA LogStays ==
    ASSUME IInv, log' = log, noticed' = noticed
    PROVE  LogInv' /\ NoticesFit' /\ SilenceIsExplained'
<1>1. LogInv'
  BY DEF IInv, LogInv, LogFits, ErasedEverywhere, DepthsFit, NeverRepeatsItself, Seqs,
         IsMessage, IsSpoken, NoPerson, Unbroken
<1>2. NoticesFit' /\ SilenceIsExplained'
  BY DEF IInv, NoticesFit, Told, SilenceIsExplained, Seqs
<1> QED BY <1>1, <1>2

\* The cursor passes what the read returned; what was there beyond it is left behind.
LEMMA ReadChannelStep ==
    ASSUME IInv, NEW m \in Agents, ReadChannel(m)
    PROVE  IInv'
<1> DEFINE old == run[m]
           new == Page(m)
           c   == Max({cursor[m]} \cup new)
           r   == [old EXCEPT !.pc = "marked", !.seen = new]
<1>1. /\ old \in Runs /\ RunFits(m, old) /\ cursor[m] \in Nat /\ Len(log) \in Nat
      /\ DOMAIN old.batch = 1 .. Len(old.batch)
      /\ \A i \in DOMAIN old.batch : old.batch[i] \in Wakes
  BY RunFacts
<1>2. /\ log' = log /\ paused' = paused /\ engaged' = engaged /\ noticed' = noticed
      /\ inbox' = inbox /\ old.stage = "read"
      /\ cursor' = [cursor EXCEPT ![m] = c]
      /\ left' = [left EXCEPT ![m] = IF cursor[m] + ReadLimit < Len(log) THEN Len(log) ELSE 0]
  BY DEF ReadChannel, InAttempt
<1>3. run' = [run EXCEPT ![m] = r]
  <2>1. run' = [run EXCEPT ![m].pc = "marked", ![m].seen = new]
    BY DEF ReadChannel
  <2>2. run \in [Agents -> Runs]
    BY DEF IInv, Shape
  <2> HIDE DEF new
  <2> QED BY <2>1, <2>2
<1>4. cursor[m] <= Len(log) /\ \A s \in Own(m) : s <= cursor[m]
  BY DEF IInv, CursorsFit
<1>5. /\ {cursor[m]} \cup new \subseteq 0 .. Len(log) /\ {cursor[m]} \cup new # {}
      /\ new \subseteq Nat /\ new \subseteq Seqs
  BY <1>1, <1>4 DEF Seqs, Page
<1>6. /\ c \in {cursor[m]} \cup new /\ cursor[m] <= c /\ \A s \in new : s <= c
  <2> HIDE DEF new
  <2> QED BY <1>1, <1>5, MaxFacts
<1>7. /\ c \in Nat /\ c <= Len(log) /\ cursor[m] <= c
      /\ \A s \in Seqs : s <= c \/ cursor[m] + ReadLimit < Len(log)
  <2>1. c \in 0 .. Len(log)
    BY <1>5, <1>6
  <2> HIDE DEF c
  <2>2. ASSUME NEW s \in Seqs, ~(cursor[m] + ReadLimit < Len(log)) PROVE s <= c
    <3>1. s \in Nat /\ s <= Len(log) /\ ReadLimit \in Nat
      BY <1>1, ChannelsAssumption DEF Seqs, ChannelsAssumption
    <3>2. s <= cursor[m] \/ s \in new
      BY <1>1, <2>2, <3>1 DEF Page
    <3> QED BY <1>1, <1>6, <2>1, <3>1, <3>2
  <2> QED BY <1>1, <1>6, <2>1, <2>2
<1> HIDE DEF c
<1>8. r \in Runs /\ r.pc = "marked" /\ r.stage = "read" /\ r.batch = old.batch
      /\ r.turn = old.turn /\ r.upTo = old.upTo /\ r.seen = new
  <2> HIDE DEF new, old
  <2> QED BY <1>1, <1>2, <1>5 DEF Runs
<1>9. \A x \in r.seen, s \in Own(m) : s < x
  <2>1. ASSUME NEW x \in new, NEW s \in Own(m) PROVE s < x
    <3>1. s \in Nat /\ x \in Nat /\ x > cursor[m] /\ s <= cursor[m]
      BY <1>1, <1>4 DEF Own, Seqs, Page
    <3> QED BY <1>1, <3>1
  <2> HIDE DEF new, r
  <2> QED BY <1>8, <2>1
<1> HIDE DEF r, new, old
<1>10. /\ Seqs' = Seqs /\ \A k : Own(k)' = Own(k)
  BY <1>2 DEF Own, Seqs, IsMessage
<1>11. Shape'
  BY <1>2, <1>3, <1>7, <1>8 DEF IInv, Shape
<1>12. LogInv' /\ NoticesFit' /\ SilenceIsExplained'
  BY <1>2, LogStays
<1>13. cursor \in [Agents -> Nat] /\ left \in [Agents -> Nat]
  BY DEF IInv, Shape
<1>21. \A s \in Seqs : Read(m, s)'
  <2>1. ASSUME NEW s \in Seqs PROVE s <= cursor'[m] \/ s <= left'[m]
    <3>1. s \in Nat /\ s <= Len(log)
      BY <1>1 DEF Seqs
    <3> QED BY <1>1, <1>2, <1>7, <1>13, <3>1
  <2> QED BY <2>1 DEF Read, LeftBehind
<1>14. CursorsFit'
  <2>1. ASSUME NEW k \in Agents
        PROVE  cursor'[k] <= Len(log) /\ \A s \in Own(k) : s <= cursor'[k]
    <3>1. CASE k = m
      <4>1. cursor'[m] = c
        BY <1>2, <1>13
      <4>2. ASSUME NEW s \in Own(m) PROVE s <= c
        <5>1. s \in Nat /\ s <= cursor[m]
          BY <1>1, <1>4 DEF Own, Seqs
        <5> QED BY <1>1, <1>7, <5>1
      <4> QED BY <1>7, <3>1, <4>1, <4>2
    <3>2. CASE k # m
      BY <1>2, <1>13, <3>2 DEF IInv, CursorsFit
    <3> QED BY <3>1, <3>2
  <2> QED BY <1>2, <1>10, <2>1 DEF CursorsFit
<1>15. InboxesFit'
  BY <1>2 DEF IInv, InboxesFit, Seqs
<1>16. MentionIsKept'
  <2>1. ASSUME NEW s \in Seqs, NEW k \in log[s].direct
        PROVE  cursor'[k] >= s \/ s <= left'[k] \/ \E w \in inbox[k] : w.seq = s
    <3>1. CASE k = m
      <4>1. s <= cursor'[m] \/ s <= left'[m]
        BY <1>21 DEF Read, LeftBehind
      <4>2. cursor'[m] \in Nat /\ s \in Nat
        BY <1>1, <1>2, <1>7, <1>13 DEF Seqs
      <4> QED BY <3>1, <4>1, <4>2
    <3>2. CASE k # m
      <4>1. cursor[k] >= s \/ s <= left[k] \/ \E w \in inbox[k] : w.seq = s
        BY DEF IInv, MentionIsKept, LeftBehind
      <4>2. cursor'[k] = cursor[k] /\ left'[k] = left[k]
        BY <1>2, <1>13, <3>2
      <4> QED BY <4>1, <4>2
    <3> QED BY <3>1, <3>2
  <2> QED BY <1>2, <1>10, <2>1 DEF MentionIsKept, LeftBehind
<1>17. PICK q : q = r
  OBVIOUS
<1>18. q \in Runs /\ q.pc = "marked" /\ q.stage = "read" /\ q.batch = old.batch
       /\ q.turn = old.turn /\ q.upTo = old.upTo /\ q.seen = new
  BY <1>8, <1>17
<1>19. RunFits(m, q)'
  <2>1. \A i \in DOMAIN q.batch : q.batch[i] \in inbox[m] /\ q.batch[i].seq \in Seqs
    BY <1>1, <1>18 DEF RunFits, IInv, InboxesFit
  <2>2. q.upTo <= Len(log) /\ q.turn \in DOMAIN q.batch
    BY <1>1, <1>2, <1>18 DEF RunFits
  <2>4. \A i \in DOMAIN q.batch : Read(m, q.batch[i].seq)'
    BY <1>21, <2>1
  <2>5. q.seen \subseteq Seqs /\ \A x \in q.seen, s \in Own(m) : s < x
    BY <1>5, <1>9, <1>17, <1>18
  <2> QED BY <1>2, <1>18, <1>10, <2>1, <2>2, <2>4, <2>5 DEF RunFits
<1>20. ASSUME NEW k \in Agents PROVE RunFits(k, run[k])'
  <2>1. CASE k = m
    <3>1. run'[m] = q
      BY <1>3, <1>17 DEF IInv, Shape
    <3> QED BY <1>19, <2>1, <3>1 DEF RunFits
  <2>2. CASE k # m
    <3>1. /\ run'[k] = run[k] /\ cursor'[k] = cursor[k] /\ cursor[k] \in Nat
          /\ left'[k] = left[k]
      BY <1>2, <1>3, <1>13, <2>2 DEF IInv, Shape
    <3>2. PICK o : o = run[k]
      OBVIOUS
    <3>3. o \in Runs /\ RunFits(k, o) /\ Grows
      BY <1>2, <3>2, RunFacts, UnchangedGrows DEF IInv, Shape
    <3>4. RunFits(k, o)'
      BY <1>2, <1>10, <3>1, <3>3, RunKept
    <3> QED BY <3>1, <3>2, <3>4 DEF RunFits
  <2> QED BY <2>1, <2>2
<1> QED BY <1>11, <1>12, <1>14, <1>15, <1>16, <1>20 DEF IInv, RunsFit

\* The run of a member that does nothing goes on to fit while the log grows.
LEMMA OtherRun ==
    ASSUME IInv, Grows, NEW k \in Agents, run'[k] = run[k],
           inbox[k] \subseteq inbox'[k], cursor'[k] \in Nat, cursor[k] <= cursor'[k],
           left'[k] = left[k], Own(k)' = Own(k)
    PROVE  RunFits(k, run[k])'
<1>1. PICK o : o = run[k]
  OBVIOUS
<1>2. o \in Runs /\ RunFits(k, o)
  BY <1>1, RunFacts
<1>3. RunFits(k, o)'
  BY <1>2, RunKept
<1> QED BY <1>1, <1>3 DEF RunFits

\* What a run acknowledges it has read, if it was addressed.
LEMMA CompleteStep ==
    ASSUME IInv, NEW m \in Agents, Complete(m)
    PROVE  IInv'
<1> DEFINE old == run[m]
<1>1. /\ old \in Runs /\ RunFits(m, old) /\ Len(log) \in Nat
      /\ \A i \in DOMAIN old.batch : old.batch[i] \in Wakes
  BY RunFacts
<1>2. /\ log' = log /\ paused' = paused /\ engaged' = engaged /\ noticed' = noticed
      /\ cursor' = cursor /\ left' = left
      /\ old.stage = "done" /\ run' = [run EXCEPT ![m] = Idle]
      /\ inbox' = [inbox EXCEPT ![m] = inbox[m] \ Drained(m)]
  BY DEF Complete
<1>3. /\ cursor \in [Agents -> Nat] /\ inbox \in [Agents -> SUBSET Wakes]
      /\ \A k \in Agents : IsFiniteSet(inbox[k])
  BY DEF IInv, Shape
<1>4. \A k \in Agents : inbox'[k] = IF k = m THEN inbox[k] \ Drained(m) ELSE inbox[k]
  BY <1>2, <1>3
<1>5. Shape'
  <2>1. \A k \in Agents : IsFiniteSet(inbox'[k])
    BY <1>3, <1>4, FS_Subset
  <2>2. Idle \in Runs
    BY DEF Idle, Runs
  <2>3. run' \in [Agents -> Runs]
    BY <1>2, <2>2 DEF IInv, Shape
  <2>4. inbox' \in [Agents -> SUBSET Wakes]
    BY <1>2, <1>3
  <2> QED BY <1>2, <1>3, <2>1, <2>3, <2>4 DEF IInv, Shape
<1>6. LogInv' /\ NoticesFit' /\ SilenceIsExplained'
  BY <1>2, LogStays
<1>7. Seqs' = Seqs /\ \A k : Own(k)' = Own(k)
  BY <1>2 DEF Own, Seqs, IsMessage
<1>8. CursorsFit'
  BY <1>2, <1>7 DEF IInv, CursorsFit
<1>9. InboxesFit'
  BY <1>2, <1>4, <1>7 DEF IInv, InboxesFit
<1>10. MentionIsKept'
  <2>1. ASSUME NEW s \in Seqs, NEW k \in log[s].direct
        PROVE  cursor[k] >= s \/ LeftBehind(k, s) \/ \E w \in inbox'[k] : w.seq = s
    <3>1. k \in Agents
      BY LogFacts DEF Entries, IInv, Shape
    <3>2. CASE cursor[k] >= s \/ LeftBehind(k, s)
      BY <3>2
    <3>3. ASSUME NEW w \in inbox[k], w.seq = s
          PROVE  cursor[k] >= s \/ LeftBehind(k, s) \/ \E v \in inbox'[k] : v.seq = s
      <4>1. CASE k # m \/ w \notin Drained(m)
        BY <1>4, <3>1, <3>3, <4>1
      <4>2. CASE k = m /\ w \in Drained(m)
        <5>1. PICK i \in DOMAIN old.batch : w = old.batch[i]
          BY <4>2 DEF Drained, Range
        <5>2. w.direct
          BY <3>3, <4>2 DEF IInv, InboxesFit
        <5>3. w.seq <= cursor[m] \/ LeftBehind(m, s)
          BY <1>1, <1>2, <3>3, <5>1, <5>2 DEF RunFits, Read
        <5> QED BY <1>3, <3>3, <4>2, <5>3, LogFacts DEF IInv, Shape
      <4> QED BY <4>1, <4>2
    <3> QED BY <3>2, <3>3 DEF IInv, MentionIsKept
  <2> QED BY <1>2, <1>7, <2>1 DEF MentionIsKept, LeftBehind
<1>11. ASSUME NEW k \in Agents PROVE RunFits(k, run[k])'
  <2>1. CASE k = m
    <3>1. /\ run'[m].upTo = 0 /\ run'[m].stage = "idle" /\ run'[m].batch = <<>>
          /\ run'[m].pc = "start"
      BY <1>2 DEF IInv, Shape, Idle
    <3> QED BY <1>1, <1>2, <2>1, <3>1 DEF RunFits
  <2>2. CASE k # m
    <3>1. run'[k] = run[k] /\ inbox'[k] = inbox[k] /\ cursor[k] \in Nat
      BY <1>2, <1>3, <1>4, <2>2 DEF IInv, Shape
    <3>2. Grows
      BY <1>2, UnchangedGrows DEF IInv, Shape
    <3> QED BY <1>2, <1>7, <3>1, <3>2, OtherRun
  <2> QED BY <2>1, <2>2
<1> QED BY <1>5, <1>6, <1>8, <1>9, <1>10, <1>11 DEF IInv, RunsFit

-----------------------------------------------------------------------------
(* An entry that is no message and wakes nobody.                           *)

\* It is enough that it holds no words of a deleted message, and that what the
\* members' runs become still fits.
LEMMA MarkerStep ==
    ASSUME IInv, Grows, Len(log') = Len(log) + 1, NEW e, e = log'[Len(log) + 1],
           e.kind # "message", e.due = {}, e.woke = {}, e.direct = {},
           e.by = System <=> e.kind = "system",
           \A w \in e.words : w = Len(log) + 1 \/ (e.kind = "edit" /\ w = e.about),
           ErasedEverywhere', UNCHANGED <<cursor, engaged, noticed, inbox, left>>,
           paused' \in BOOLEAN, run' \in [Agents -> Runs],
           \A k \in Agents : RunFits(k, run'[k])
    PROVE  IInv'
<1>0. PICK n : n = Len(log) + 1
  OBVIOUS
<1>1. /\ Len(log) \in Nat /\ Seqs \subseteq Seqs' /\ n \in Seqs'
      /\ \A s \in Seqs' : s \in Nat /\ (s \in Seqs \/ s = n)
      /\ \A s \in Seqs : s # n /\ s <= Len(log)
      /\ \A s \in Nat : s \in Seqs <=> 1 <= s /\ s <= Len(log)
      /\ \A s \in Nat : s \in Seqs' <=> 1 <= s /\ s <= n
  <2>1. Len(log) \in Nat
    BY LogFacts DEF IInv, Shape
  <2> QED BY <1>0, <2>1 DEF Seqs
<1>2. /\ \A s \in Seqs : /\ IsMessage(s)' <=> IsMessage(s)
                         /\ IsSpoken(s)' <=> IsSpoken(s)
                         /\ Same(log[s], log'[s])
      /\ ~IsMessage(n)'
  <2>1. ~IsMessage(n)'
    BY <1>0 DEF IsMessage
  <2> QED BY <2>1, OldEntries DEF IInv, Grows
<1>3. e = log'[n]
  BY <1>0
<1>4. Shape'
  BY DEF IInv, Shape, Grows
<1>5. LogFits'
  <2>1. ASSUME NEW s \in Seqs'
        PROVE  /\ log'[s].by = System <=> log'[s].kind = "system"
               /\ log'[s].woke \subseteq log'[s].due \ {log'[s].by}
               /\ log'[s].direct \subseteq log'[s].woke
               /\ \A w \in log'[s].words : w = s \/ (log'[s].kind = "edit" /\ w = log'[s].about)
               /\ log'[s].kind = "message" => log'[s].depth <= Breaker
    <3>1. CASE s \in Seqs
      BY <3>1, OldProperties
    <3>2. CASE s = n
      BY <1>0, <1>3, <3>2
    <3> QED BY <1>1, <3>1, <3>2
  <2> QED BY <2>1 DEF LogFits
<1>6. DepthsFit'
  <2>1. ASSUME NEW s \in Seqs', NEW t \in Seqs', s <= t, IsMessage(t)', NoPerson(s, t)'
        PROVE  Cardinality(Unbroken(s, t)') <= log'[t].depth
    <3>1. t \in Seqs
      BY <1>1, <1>2, <2>1
    <3>2. s \in Seqs
      BY <1>1, <2>1, <3>1
    <3> QED BY <2>1, <3>1, <3>2, OldProperties
  <2> QED BY <2>1 DEF DepthsFit
<1>7. NeverRepeatsItself'
  <2>1. ASSUME NEW s \in Seqs', NEW t \in Seqs',
               s < t, IsMessage(s)', IsMessage(t)', log'[s].by = log'[t].by,
               log'[s].by \in Agents
        PROVE  \E x \in s .. t : IsSpoken(x)' /\ log'[x].by # log'[s].by
    <3>1. t \in Seqs /\ s \in Seqs
      BY <1>1, <1>2, <2>1
    <3> QED BY <2>1, <3>1, OldProperties
  <2> QED BY <2>1 DEF NeverRepeatsItself
<1>8. NoticesFit'
  <2>1. ASSUME NEW m \in noticed
        PROVE  \E x \in Seqs' : Told(m, x, n)'
    <3>1. PICK x \in Seqs : Told(m, x, Len(log))
      BY DEF IInv, NoticesFit
    <3>2. PICK l : l = Len(log)
      OBVIOUS
    <3>3. x \in Nat /\ l \in Seqs
      BY <1>1, <3>2
    <3>4. Told(m, x, l)'
      BY <3>1, <3>2, <3>3, OldProperties
    <3>6. \A y \in x .. n : y \in x .. l \/ y = n
      BY <1>0, <1>1, <3>2, <3>3
    <3>5. m \notin log'[n].woke
      BY <1>3
    <3> QED BY <1>1, <3>1, <3>4, <3>5, <3>6 DEF Told
  <2> QED BY <1>0, <2>1 DEF NoticesFit
<1>9. SilenceIsExplained'
  <2>1. ASSUME NEW s \in Seqs', NEW m \in log'[s].due \ log'[s].woke
        PROVE  \E x \in Seqs' : /\ x <= s + 1
                                /\ log'[x].kind = "system" /\ m \in log'[x].about
                                /\ \A y \in x .. s : m \notin log'[y].woke
    <3>1. s \in Seqs
      BY <1>1, <1>3, <2>1
    <3> QED BY <2>1, <3>1, OldProperties
  <2> QED BY <2>1 DEF SilenceIsExplained
<1>10. \A k : Own(k)' = Own(k)
  <2>1. ASSUME NEW k, NEW s \in Seqs'
        PROVE  IsMessage(s)' /\ log'[s].by = k <=> s \in Seqs /\ IsMessage(s) /\ log[s].by = k
    BY <1>1, <1>2 DEF Same
  <2>2. \A s \in Seqs : s \in Seqs'
    BY <1>1
  <2> QED BY <2>1, <2>2 DEF Own, IsMessage
<1>11. CursorsFit'
  <2>1. cursor \in [Agents -> Nat]
    BY DEF IInv, Shape
  <2> QED BY <1>1, <1>10, <2>1 DEF IInv, CursorsFit
<1>12. InboxesFit'
  BY <1>1, <1>2 DEF IInv, InboxesFit, Same
<1>13. MentionIsKept'
  <2>1. ASSUME NEW s \in Seqs', NEW m \in log'[s].direct
        PROVE  cursor[m] >= s \/ LeftBehind(m, s) \/ \E w \in inbox[m] : w.seq = s
    <3>1. s \in Seqs /\ m \in log[s].direct
      BY <1>1, <1>2, <1>3, <2>1 DEF Same
    <3> QED BY <3>1 DEF IInv, MentionIsKept
  <2> QED BY <2>1 DEF MentionIsKept, LeftBehind
<1>14. ASSUME NEW k \in Agents PROVE RunFits(k, run[k])'
  <2>1. PICK o : o = run'[k]
    OBVIOUS
  <2>2. o \in Runs /\ RunFits(k, o) /\ cursor[k] \in Nat
    BY <2>1 DEF IInv, Shape
  <2>3. RunFits(k, o)'
    BY <1>10, <2>2, RunKept
  <2> QED BY <2>1, <2>3 DEF RunFits
<1> QED BY <1>4, <1>5, <1>6, <1>7, <1>8, <1>9, <1>11, <1>12, <1>13, <1>14
        DEF IInv, LogInv, RunsFit

\* A marker at the end of a log that is otherwise as it was.
LEMMA MarkerGrows ==
    ASSUME IInv, NEW e \in Entries, log' = Append(log, e)
    PROVE  /\ Grows /\ Len(log') = Len(log) + 1 /\ log'[Len(log) + 1] = e
           /\ \A s \in Seqs : log'[s] = log[s]
<1>1. log \in Seq(Entries) /\ Seqs = 1 .. Len(log) /\ Len(log) \in Nat
  BY LogFacts DEF IInv, Shape, Seqs
<1> QED BY <1>1, AppendFacts DEF Grows, Same

\* A marker that holds no words of a deleted message leaves nothing to be erased.
LEMMA MarkerErases ==
    ASSUME IInv, NEW e \in Entries, log' = Append(log, e), e.deleted = FALSE,
           \A w \in e.words : w \in Seqs /\ ~log[w].deleted
    PROVE  ErasedEverywhere'
<1>1. /\ Len(log') = Len(log) + 1 /\ log'[Len(log) + 1] = e
      /\ \A s \in Seqs : log'[s] = log[s]
  BY MarkerGrows
<1>2. /\ Len(log) \in Nat /\ \A s \in Seqs' : s \in Seqs \/ s = Len(log) + 1
  BY <1>1, LogFacts DEF IInv, Shape, Seqs
<1>3. ASSUME NEW s \in Seqs', NEW t \in Seqs', log'[s].deleted
      PROVE  s \notin log'[t].words
  <2>1. s \in Seqs /\ log[s].deleted
    BY <1>1, <1>2, <1>3
  <2>2. CASE t \in Seqs
    BY <1>1, <2>1, <2>2 DEF IInv, LogInv, ErasedEverywhere
  <2>3. CASE t = Len(log) + 1
    BY <1>1, <2>1, <2>3
  <2> QED BY <1>2, <2>2, <2>3
<1> QED BY <1>3 DEF ErasedEverywhere

\* The runs fit, as long as they are the same.
LEMMA RunsStay ==
    ASSUME IInv, UNCHANGED run
    PROVE  run' \in [Agents -> Runs] /\ \A k \in Agents : RunFits(k, run'[k])
BY DEF IInv, Shape, RunsFit

\* channel_edit.
LEMMA EditStep ==
    ASSUME IInv, ChannelsAssumption, NEW p \in People, NEW s \in Seqs, Edit(p, s)
    PROVE  IInv'
<1> DEFINE e == Entry("edit", p, s, {s})
<1>1. /\ log' = Append(log, e) /\ IsOwn(p, s)
      /\ UNCHANGED <<paused, cursor, engaged, noticed, inbox, run, left>>
  BY DEF Edit, Marker, OnlyLog
<1>2. s \in Nat /\ Len(log) \in Nat
  BY LogFacts DEF IInv, Shape
<1>3. /\ e \in Entries /\ e.kind = "edit" /\ e.by = p /\ e.about = s /\ e.words = {s}
      /\ e.deleted = FALSE /\ e.due = {} /\ e.woke = {} /\ e.direct = {}
  <2>1. /\ p \in People \cup Agents \cup {System} /\ s \in Nat \cup SUBSET Agents
        /\ {s} \in SUBSET Nat /\ "edit" \in {"system", "edit", "reaction", "tombstone"}
    BY <1>2
  <2>2. e = Entry("edit", p, s, {s})
    OBVIOUS
  <2> QED BY <2>1, <2>2 DEF Entry, Entries
<1> HIDE DEF e
<1>4. p # System
  BY DEF ChannelsAssumption
<1>5. /\ Grows /\ Len(log') = Len(log) + 1 /\ log'[Len(log) + 1] = e
  BY <1>1, <1>3, MarkerGrows
<1>6. ErasedEverywhere'
  BY <1>1, <1>3, MarkerErases DEF IsOwn
<1>7. paused' \in BOOLEAN
  BY <1>1 DEF IInv, Shape
<1> QED BY <1>1, <1>3, <1>4, <1>5, <1>6, <1>7, RunsStay, MarkerStep

\* channel_react.
LEMMA ReactStep ==
    ASSUME IInv, ChannelsAssumption, NEW p \in People, NEW s \in Seqs, React(p, s)
    PROVE  IInv'
<1> DEFINE e == Entry("reaction", p, s, {})
<1>1. /\ log' = Append(log, e)
      /\ UNCHANGED <<paused, cursor, engaged, noticed, inbox, run, left>>
  BY DEF React, Marker, OnlyLog
<1>2. s \in Nat /\ Len(log) \in Nat
  BY LogFacts DEF IInv, Shape
<1>3. /\ e \in Entries /\ e.kind = "reaction" /\ e.by = p /\ e.words = {}
      /\ e.deleted = FALSE /\ e.due = {} /\ e.woke = {} /\ e.direct = {}
  <2>1. /\ p \in People \cup Agents \cup {System} /\ s \in Nat \cup SUBSET Agents
        /\ {} \in SUBSET Nat /\ "reaction" \in {"system", "edit", "reaction", "tombstone"}
    BY <1>2
  <2>2. e = Entry("reaction", p, s, {})
    OBVIOUS
  <2> QED BY <2>1, <2>2 DEF Entry, Entries
<1> HIDE DEF e
<1>4. p # System
  BY DEF ChannelsAssumption
<1>5. /\ Grows /\ Len(log') = Len(log) + 1 /\ log'[Len(log) + 1] = e
  BY <1>1, <1>3, MarkerGrows
<1>6. ErasedEverywhere'
  BY <1>1, <1>3, MarkerErases
<1>7. paused' \in BOOLEAN
  BY <1>1 DEF IInv, Shape
<1> QED BY <1>1, <1>3, <1>4, <1>5, <1>6, <1>7, RunsStay, MarkerStep

\* channel_tombstone: the words are where the entry or an edit of it keeps them.
LEMMA TombstoneStep ==
    ASSUME IInv, ChannelsAssumption, NEW p \in People, NEW s \in Seqs, Tombstone(p, s)
    PROVE  IInv'
<1> DEFINE e == Entry("tombstone", p, s, {})
           l == Blanked(s)
<1>1. /\ log' = Append(l, e)
      /\ UNCHANGED <<paused, cursor, engaged, noticed, inbox, run, left>>
  BY DEF Tombstone, OnlyLog
<1>2. /\ s \in Nat /\ Len(log) \in Nat /\ Seqs = 1 .. Len(log)
      /\ \A x \in Seqs : log[x] \in Entries
  BY LogFacts DEF IInv, Shape, Seqs
<1>3. /\ e \in Entries /\ e.kind = "tombstone" /\ e.by = p /\ e.words = {}
      /\ e.deleted = FALSE /\ e.due = {} /\ e.woke = {} /\ e.direct = {}
  <2>1. /\ p \in People \cup Agents \cup {System} /\ s \in Nat \cup SUBSET Agents
        /\ {} \in SUBSET Nat /\ "tombstone" \in {"system", "edit", "reaction", "tombstone"}
    BY <1>2
  <2>2. e = Entry("tombstone", p, s, {})
    OBVIOUS
  <2> QED BY <2>1, <2>2 DEF Entry, Entries
<1> HIDE DEF e
<1>4. p # System
  BY DEF ChannelsAssumption
<1>5. /\ DOMAIN l = Seqs
      /\ \A x \in Seqs : l[x] = IF x = s THEN [log[x] EXCEPT !.words = {}, !.deleted = TRUE]
                                ELSE IF log[x].kind = "edit" /\ log[x].about = s
                                THEN [log[x] EXCEPT !.words = {}] ELSE log[x]
      /\ l = [x \in Seqs |-> l[x]]
  BY DEF Blanked
<1> HIDE DEF l
<1>6. ASSUME NEW x \in Seqs
      PROVE  /\ l[x] \in Entries /\ Same(log[x], l[x])
             /\ l[x].words \subseteq log[x].words
             /\ x = s => l[x].words = {}
             /\ log[x].kind = "edit" /\ log[x].about = s => l[x].words = {}
             /\ l[x].deleted => x = s \/ log[x].deleted
  <2>1. PICK f \in Entries : f = log[x]
    BY <1>2
  <2>2. CASE x = s
    <3>1. l[x] = [f EXCEPT !.words = {}, !.deleted = TRUE]
      BY <1>5, <2>1, <2>2
    <3> QED BY <2>1, <2>2, <3>1 DEF Entries, Same
  <2>3. CASE x # s /\ f.kind = "edit" /\ f.about = s
    <3>1. l[x] = [f EXCEPT !.words = {}]
      BY <1>5, <2>1, <2>3
    <3> QED BY <2>1, <2>3, <3>1 DEF Entries, Same
  <2>4. CASE x # s /\ ~(f.kind = "edit" /\ f.about = s)
    <3>1. l[x] = f
      BY <1>5, <2>1, <2>4
    <3> QED BY <2>1, <2>4, <3>1 DEF Same
  <2> QED BY <2>2, <2>3, <2>4
<1>7. l \in Seq(Entries) /\ Len(l) = Len(log)
  <2>1. l \in [1 .. Len(log) -> Entries]
    BY <1>2, <1>5, <1>6
  <2>2. l \in Seq(Entries)
    BY <1>2, <2>1, SeqDef
  <2>3. Len(l) \in Nat /\ 1 .. Len(l) = 1 .. Len(log)
    BY <1>2, <1>5, <2>2, LenProperties
  <2>4. Len(l) = Len(log)
    BY <1>2, <2>3
  <2> QED BY <2>2, <2>4
<1>8. /\ log' \in Seq(Entries) /\ Len(log') = Len(log) + 1 /\ log'[Len(log) + 1] = e
      /\ \A x \in Seqs : log'[x] = l[x]
  BY <1>1, <1>2, <1>3, <1>7, AppendFacts
<1>9. Grows
  BY <1>2, <1>6, <1>8 DEF Grows
<1>10. \A x \in Seqs' : x \in Seqs \/ x = Len(log) + 1
  BY <1>2, <1>8 DEF Seqs
<1>11. ASSUME NEW x \in Seqs', NEW t \in Seqs', log'[x].deleted
       PROVE  x \notin log'[t].words
  <2>1. x \in Seqs /\ (x = s \/ log[x].deleted)
    BY <1>3, <1>6, <1>8, <1>10, <1>11
  <2>2. CASE t \in Seqs
    <3>1. log'[t].words = l[t].words
      BY <1>8, <2>2
    <3>2. CASE log[x].deleted
      BY <1>6, <2>1, <2>2, <3>1, <3>2 DEF IInv, LogInv, ErasedEverywhere
    <3>3. CASE x = s
      <4>1. s \in log[t].words => t = s \/ (log[t].kind = "edit" /\ log[t].about = s)
        BY <2>2 DEF IInv, LogInv, LogFits
      <4> QED BY <1>6, <2>2, <3>1, <3>3, <4>1
    <3> QED BY <2>1, <3>2, <3>3
  <2>3. CASE t = Len(log) + 1
    BY <1>3, <1>8, <2>3
  <2> QED BY <1>10, <2>2, <2>3
<1>12. ErasedEverywhere'
  BY <1>11 DEF ErasedEverywhere
<1>13. paused' \in BOOLEAN
  BY <1>1 DEF IInv, Shape
<1> QED BY <1>1, <1>3, <1>4, <1>8, <1>9, <1>12, <1>13, RunsStay, MarkerStep

\* A post that trips the breaker: the channel is paused, and says so.
LEMMA TrippedStep ==
    ASSUME IInv, ChannelsAssumption, NEW m \in Agents, Post(m), PostOutcome(m) = "tripped"
    PROVE  IInv'
<1> DEFINE e == Entry("system", System, {}, {})
<1>1. /\ log' = Append(log, e) /\ paused' = TRUE
      /\ UNCHANGED <<reacted, cursor, engaged, noticed, inbox, left>>
  BY DEF Post, Marker
<1>2. /\ e \in Entries /\ e.kind = "system" /\ e.by = System /\ e.words = {}
      /\ e.deleted = FALSE /\ e.due = {} /\ e.woke = {} /\ e.direct = {}
  BY DEF Entry, Entries
<1> HIDE DEF e
<1>3. /\ Grows /\ Len(log') = Len(log) + 1 /\ log'[Len(log) + 1] = e
  BY <1>1, <1>2, MarkerGrows
<1>4. ErasedEverywhere'
  BY <1>1, <1>2, MarkerErases
<1>5. PICK r \in Runs : run' = [run EXCEPT ![m] = r] /\ RunFits(m, r)
  BY RefusedRun
<1>6. run' \in [Agents -> Runs] /\ \A k \in Agents : RunFits(k, run'[k])
  BY <1>5 DEF IInv, Shape, RunsFit
<1> QED BY <1>1, <1>2, <1>3, <1>4, <1>6, MarkerStep

-----------------------------------------------------------------------------
(* A message.                                                              *)

\* What channel_append writes at n: D are the members the message concerns, W those
\* it wakes, I those of the latter it addresses, and T those its notice names.
Said(n, by, depth, D, W, I, T) ==
    /\ W \subseteq D \ {by} /\ I \subseteq W
    /\ D \ W \subseteq noticed \cup T /\ W \cap T = {}
    /\ n = Len(log) + 1 /\ Grows /\ Len(log') = IF T = {} THEN n ELSE n + 1
    /\ \A s \in Seqs : log'[s] = log[s]
    /\ log'[n].kind = "message" /\ log'[n].by = by /\ log'[n].depth = depth
    /\ log'[n].words = {n} /\ log'[n].deleted = FALSE
    /\ log'[n].due = D /\ log'[n].woke = W /\ log'[n].direct = I
    /\ T # {} => log'[n + 1] = Entry("system", System, T, {})
    /\ noticed' = (noticed \ W) \cup T
    /\ engaged' \subseteq Agents
    /\ cursor' = [k \in Agents |-> IF k = by THEN n ELSE cursor[k]]
    /\ inbox' = [k \in Agents |-> inbox[k] \cup IF k \in W THEN {[seq |-> n, direct |-> k \in I]}
                                               ELSE {}]

\* And so it does.
LEMMA SpeakFacts ==
    ASSUME IInv, NEW by \in People \cup Agents, NEW depth \in Nat, NEW to, NEW about,
           Speak(by, to, about, depth)
    PROVE  \E n \in Nat, D, W, I, T \in SUBSET Agents : Said(n, by, depth, D, W, I, T)
<1>1. PICK lapsed \in SUBSET engaged, spent \in SUBSET Budgeted :
      LET seq    == Len(log) + 1
          others == Agents \ {by}
          target == IF about = 0 THEN System ELSE log[about].by
          reason == [m \in others |-> WakeReason(m, to, target, m \in engaged \ lapsed)]
          due    == {m \in others : reason[m] # "none"}
          direct == {m \in due : reason[m] = "direct"}
          silent == (due \cap spent) \ noticed
      IN  /\ log' = Append(log, [Entry("message", by, 0, {seq}) EXCEPT
                           !.depth = depth, !.due = due, !.woke = due \ spent,
                           !.direct = direct \ spent])
                      \o (IF silent = {} THEN <<>>
                          ELSE <<Entry("system", System, silent, {})>>)
          /\ cursor' = CursorAfter(by, seq)
          /\ engaged' = UNION {engaged \ lapsed, {by} \cap Agents, direct}
          /\ noticed' = NoticedAfter(due \ spent, silent)
          /\ inbox' = [m \in Agents |->
                         inbox[m] \cup IF m \in due \ spent
                                      THEN {[seq |-> seq, direct |-> m \in direct]} ELSE {}]
  BY DEF Speak
<1> DEFINE others == Agents \ {by}
           target == IF about = 0 THEN System ELSE log[about].by
           reason == [m \in others |-> WakeReason(m, to, target, m \in engaged \ lapsed)]
           due    == {m \in others : reason[m] # "none"}
           direct == {m \in due : reason[m] = "direct"}
<1>2. PICK n, D, A : n = Len(log) + 1 /\ D = due /\ A = direct
  OBVIOUS
<1>3. D \subseteq Agents \ {by} /\ A \subseteq D
  <2>1. due \subseteq others /\ direct \subseteq due
    <3> HIDE DEF reason, others
    <3> QED OBVIOUS
  <2> QED BY <1>2, <2>1
<1> DEFINE W == D \ spent
           I == A \ spent
           T == (D \cap spent) \ noticed
           e == [Entry("message", by, 0, {n}) EXCEPT
                   !.depth = depth, !.due = D, !.woke = W, !.direct = I]
           b == Entry("system", System, T, {})
<1>4. /\ log' = Append(log, e) \o (IF T = {} THEN <<>> ELSE <<b>>)
      /\ cursor' = CursorAfter(by, n)
      /\ engaged' = UNION {engaged \ lapsed, {by} \cap Agents, A}
      /\ noticed' = NoticedAfter(W, T)
      /\ inbox' = [m \in Agents |->
                     inbox[m] \cup IF m \in W THEN {[seq |-> n, direct |-> m \in A]} ELSE {}]
  BY <1>1, <1>2
<1> HIDE DEF due, direct, reason, others, target
<1>5. n \in Nat /\ log \in Seq(Entries) /\ Seqs = 1 .. Len(log) /\ Len(log) \in Nat
  BY <1>2, LogFacts DEF IInv, Shape, Seqs
<1>6. W \subseteq D \ {by} /\ I \subseteq W /\ D \ W \subseteq noticed \cup T /\ W \cap T = {}
  BY <1>3
<1>7. D \in SUBSET Agents /\ W \in SUBSET Agents /\ I \in SUBSET Agents /\ T \in SUBSET Agents
  BY <1>3
<1>8. engaged' \subseteq Agents
  BY <1>3, <1>4 DEF IInv, Shape
<1>9. /\ noticed' = (noticed \ W) \cup T
      /\ cursor' = [k \in Agents |-> IF k = by THEN n ELSE cursor[k]]
  BY <1>4 DEF NoticedAfter, CursorAfter
<1>10. \A m \in Agents : m \in W => (m \in A <=> m \in I)
  OBVIOUS
<1> HIDE DEF W, I, T
<1>11. inbox' = [k \in Agents |-> inbox[k] \cup
                     IF k \in W THEN {[seq |-> n, direct |-> k \in I]} ELSE {}]
  <2>1. ASSUME NEW k \in Agents
        PROVE  (IF k \in W THEN {[seq |-> n, direct |-> k \in A]} ELSE {}) =
               (IF k \in W THEN {[seq |-> n, direct |-> k \in I]} ELSE {})
    <3>1. CASE k \in W
      <4>1. (k \in A) = (k \in I)
        BY <1>10, <3>1
      <4> QED BY <4>1
    <3>2. CASE k \notin W
      BY <3>2
    <3> QED BY <3>1, <3>2
  <2> QED BY <1>4, <2>1
<1>12. /\ e \in Entries /\ e.kind = "message" /\ e.by = by /\ e.depth = depth
       /\ e.words = {n} /\ e.deleted = FALSE /\ e.due = D /\ e.woke = W /\ e.direct = I
  <2>1. PICK f : f = Entry("message", by, 0, {n})
    OBVIOUS
  <2>2. /\ f \in Entries /\ f.kind = "message" /\ f.by = by /\ f.words = {n}
        /\ f.deleted = FALSE
    BY <1>5, <2>1 DEF Entry, Entries
  <2>3. e = [f EXCEPT !.depth = depth, !.due = D, !.woke = W, !.direct = I]
    BY <2>1
  <2> HIDE DEF e
  <2> QED BY <1>7, <2>2, <2>3 DEF Entries
<1>13. b \in Entries
  <2>1. T \in Nat \cup SUBSET Agents
    BY <1>7
  <2> QED BY <2>1 DEF Entry, Entries
<1> DEFINE c == T = {}
<1>14. c \in BOOLEAN /\ log' = Append(log, e) \o (IF c THEN <<>> ELSE <<b>>)
  BY <1>4
<1> HIDE DEF e, b, c
<1>15. /\ log' \in Seq(Entries) /\ Len(log') = IF c THEN Len(log) + 1 ELSE Len(log) + 2
       /\ \A i \in 1 .. Len(log) : log'[i] = log[i]
       /\ log'[Len(log) + 1] = e
       /\ ~c => log'[Len(log) + 2] = b
  BY <1>5, <1>12, <1>13, <1>14, AppendTwoFacts
<1>16. /\ Len(log') = IF T = {} THEN n ELSE n + 1
       /\ \A s \in Seqs : log'[s] = log[s]
       /\ log'[n] = e
       /\ T # {} => log'[n + 1] = b
  <2>1. n + 1 = Len(log) + 2
    BY <1>2, <1>5
  <2> QED BY <1>2, <1>5, <1>15, <2>1 DEF c
<1>17. Grows
  BY <1>2, <1>5, <1>15, <1>16 DEF Grows, Same
<1>18. Said(n, by, depth, D, W, I, T)
  BY <1>2, <1>6, <1>8, <1>9, <1>11, <1>12, <1>16, <1>17 DEF Said, b
<1> QED BY <1>5, <1>7, <1>18

\* An answer is deeper than all that members have said with no person among them.
LEMMA CauseFacts ==
    ASSUME IInv
    PROVE  /\ CauseDepth \in Nat
           /\ \A s \in Nat \ {0} : NoPerson(s, Len(log)) =>
                /\ IsFiniteSet(Unbroken(s, Len(log)))
                /\ Cardinality(Unbroken(s, Len(log))) <= CauseDepth
<1> DEFINE M == {s \in Seqs : IsMessage(s)}
<1>1. /\ Len(log) \in Nat /\ Seqs = 1 .. Len(log)
      /\ \A x \in Seqs : log[x] \in Entries /\ log[x].depth \in Nat
  BY LogFacts DEF IInv, Shape, Seqs, Entries
<1>2. ASSUME NEW s \in Nat \ {0}
      PROVE  /\ IsFiniteSet(Unbroken(s, Len(log)))
             /\ Unbroken(s, Len(log)) \subseteq M
  <2>1. Unbroken(s, Len(log)) \subseteq s .. Len(log)
    BY DEF Unbroken
  <2>2. IsFiniteSet(s .. Len(log))
    BY <1>1, FS_Interval
  <2>3. IsFiniteSet(Unbroken(s, Len(log)))
    BY <2>1, <2>2, FS_Subset
  <2> QED BY <1>1, <2>3 DEF Unbroken
<1>3. CASE M = {}
  <2>1. CauseDepth = 0
    BY <1>3 DEF CauseDepth, LastOf
  <2>2. \A s \in Nat \ {0} : Unbroken(s, Len(log)) = {}
    BY <1>2, <1>3
  <2> QED BY <1>2, <2>1, <2>2, FS_EmptySet
<1>4. CASE M # {}
  <2>1. M \subseteq 0 .. Len(log)
    BY <1>1
  <2>2. Max(M) \in M /\ \A y \in M : y <= Max(M)
    <3> HIDE DEF M
    <3> QED BY <1>1, <1>4, <2>1, MaxFacts
  <2>3. PICK l \in Seqs : l = Max(M)
    BY <2>2
  <2>4. LastOf(M) = l /\ l # 0 /\ l \in Nat /\ l <= Len(log)
    BY <1>1, <1>4, <2>3 DEF LastOf
  <2>5. CauseDepth = log[l].depth
    BY <2>4 DEF CauseDepth
  <2>6. IsMessage(l) /\ \A y \in M : y <= l
    BY <2>2, <2>3
  <2>7. ASSUME NEW s \in Nat \ {0}, NoPerson(s, Len(log))
        PROVE  Cardinality(Unbroken(s, Len(log))) <= CauseDepth
    <3>1. CASE s <= l
      <4>1. s \in Seqs /\ NoPerson(s, l)
        BY <1>1, <2>4, <2>7, <3>1 DEF NoPerson
      <4>2. Unbroken(s, Len(log)) = Unbroken(s, l)
        <5>1. \A x \in Seqs : IsMessage(x) => x <= l
          BY <2>6
        <5>2. \A x \in s .. Len(log) : x \in Seqs
          BY <1>1
        <5> QED BY <1>1, <2>4, <5>1, <5>2 DEF Unbroken
      <4> QED BY <2>5, <2>6, <3>1, <4>1, <4>2 DEF IInv, LogInv, DepthsFit
    <3>2. CASE ~(s <= l)
      <4>1. Unbroken(s, Len(log)) = {}
        <5>1. \A x \in Unbroken(s, Len(log)) : x \in M /\ x \in s .. Len(log)
          BY <1>2 DEF Unbroken
        <5> HIDE DEF M
        <5>2. \A x \in Unbroken(s, Len(log)) : FALSE
          BY <1>1, <2>4, <2>6, <3>2, <5>1
        <5> QED BY <5>2
      <4>2. log[l].depth \in Nat
        BY <1>1
      <4> QED BY <2>5, <4>1, <4>2, FS_EmptySet
    <3> QED BY <3>1, <3>2
  <2> QED BY <1>1, <1>2, <2>5, <2>7
<1> QED BY <1>3, <1>4

\* A message that fits what was said before it, and after which the runs fit, leaves
\* the invariant as it was.
LEMMA SaidStep ==
    ASSUME IInv, ChannelsAssumption, NEW by \in People \cup Agents,
           NEW depth \in Nat, depth <= Breaker, NEW n \in Nat,
           NEW D \in SUBSET Agents, NEW W \in SUBSET Agents, NEW I \in SUBSET Agents,
           NEW T \in SUBSET Agents, Said(n, by, depth, D, W, I, T), paused' \in BOOLEAN,
           left' = left,
           by \in Agents =>
             /\ depth = CauseDepth + 1
             /\ \E x \in Seqs : /\ IsSpoken(x) /\ log[x].by # by
                                /\ \A s \in Own(by) : s < x,
           run' \in [Agents -> Runs],
           \A k \in Agents :
             /\ RunFits(k, run'[k])
             /\ k = by => run'[k].pc # "marked" /\ (run'[k].stage = "post" => run'[k].landed)
    PROVE  IInv'
<1>1. /\ Grows /\ Len(log) \in Nat /\ n = Len(log) + 1 /\ n # 0
      /\ Seqs \subseteq Seqs' /\ n \in Seqs' /\ (T # {} => n + 1 \in Seqs')
      /\ \A s \in Seqs' : s \in Nat /\ (s \in Seqs \/ s = n \/ (s = n + 1 /\ T # {}))
      /\ \A s \in Seqs : s # n /\ s # n + 1 /\ s <= Len(log) /\ s < n
      /\ \A s \in Nat : s \in Seqs <=> 1 <= s /\ s <= Len(log)
      /\ \A s \in Nat : s \in Seqs' <=> 1 <= s /\ s <= Len(log')
      /\ Len(log') = IF T = {} THEN n ELSE n + 1
  <2>1. Len(log) \in Nat
    BY LogFacts DEF IInv, Shape
  <2> QED BY <2>1 DEF Said, Seqs
<1>2. /\ log'[n].kind = "message" /\ log'[n].by = by /\ log'[n].depth = depth
      /\ log'[n].words = {n} /\ log'[n].deleted = FALSE
      /\ log'[n].due = D /\ log'[n].woke = W /\ log'[n].direct = I
      /\ W \subseteq D \ {by} /\ I \subseteq W
      /\ D \ W \subseteq noticed \cup T /\ W \cap T = {}
  BY DEF Said
<1>3. T # {} => /\ log'[n + 1].kind = "system" /\ log'[n + 1].by = System
                /\ log'[n + 1].about = T /\ log'[n + 1].words = {}
                /\ log'[n + 1].deleted = FALSE /\ log'[n + 1].due = {}
                /\ log'[n + 1].woke = {} /\ log'[n + 1].direct = {}
  BY DEF Said, Entry
<1>4. /\ noticed' = (noticed \ W) \cup T /\ engaged' \subseteq Agents
      /\ cursor' = [k \in Agents |-> IF k = by THEN n ELSE cursor[k]]
      /\ inbox' = [k \in Agents |-> inbox[k] \cup
                     IF k \in W THEN {[seq |-> n, direct |-> k \in I]} ELSE {}]
      /\ \A s \in Seqs : log'[s] = log[s]
  BY DEF Said
<1>5. /\ \A s \in Seqs : /\ IsMessage(s)' <=> IsMessage(s)
                         /\ IsSpoken(s)' <=> IsSpoken(s)
      /\ IsMessage(n)' /\ (T # {} => ~IsMessage(n + 1)')
  <2>1. IsMessage(n)' /\ (T # {} => ~IsMessage(n + 1)')
    BY <1>2, <1>3 DEF IsMessage
  <2> QED BY <1>1, <2>1, OldEntries DEF IInv
<1>6. by # System
  BY DEF ChannelsAssumption
<1>7. /\ cursor \in [Agents -> Nat] /\ inbox \in [Agents -> SUBSET Wakes]
      /\ noticed \subseteq Agents /\ \A k \in Agents : IsFiniteSet(inbox[k])
  BY DEF IInv, Shape
<1>8. ASSUME NEW k \in Agents
      PROVE  /\ cursor'[k] = IF k = by THEN n ELSE cursor[k]
             /\ k \in W => inbox'[k] = inbox[k] \cup {[seq |-> n, direct |-> k \in I]}
             /\ k \notin W => inbox'[k] = inbox[k]
             /\ inbox[k] \subseteq inbox'[k]
  <2>1. cursor'[k] = IF k = by THEN n ELSE cursor[k]
    BY <1>4
  <2>2. inbox'[k] = inbox[k] \cup IF k \in W THEN {[seq |-> n, direct |-> k \in I]} ELSE {}
    BY <1>4
  <2>3. ASSUME k \in W PROVE inbox'[k] = inbox[k] \cup {[seq |-> n, direct |-> k \in I]}
    BY <2>2, <2>3
  <2>4. ASSUME k \notin W PROVE inbox'[k] = inbox[k]
    <3>1. (IF k \in W THEN {[seq |-> n, direct |-> k \in I]} ELSE {}) = {}
      BY <2>4
    <3>2. inbox[k] \cup {} = inbox[k]
      OBVIOUS
    <3> QED BY <2>2, <3>1, <3>2
  <2>5. inbox[k] \subseteq inbox'[k]
    BY <2>2
  <2> QED BY <2>1, <2>3, <2>4, <2>5
<1>9. Shape'
  <2>1. \A k \in Agents : cursor'[k] \in Nat
    BY <1>7, <1>8
  <2>2. cursor' \in [Agents -> Nat]
    BY <1>4, <2>1
  <2>3. ASSUME NEW k \in Agents PROVE inbox'[k] \in SUBSET Wakes /\ IsFiniteSet(inbox'[k])
    <3>1. CASE k \in W
      <4>1. [seq |-> n, direct |-> k \in I] \in Wakes
        BY DEF Wakes
      <4> DEFINE w == [seq |-> n, direct |-> k \in I]
      <4>2. inbox'[k] = inbox[k] \cup {w} /\ w \in Wakes
        BY <1>8, <3>1, <4>1
      <4> HIDE DEF w
      <4>3. inbox[k] \subseteq Wakes /\ IsFiniteSet(inbox[k])
        BY <1>7
      <4>4. IsFiniteSet(inbox[k] \cup {w})
        BY <4>3, FS_AddElement
      <4>5. inbox[k] \cup {w} \subseteq Wakes
        BY <4>2, <4>3
      <4> QED BY <4>2, <4>4, <4>5
    <3>2. CASE k \notin W
      <4>1. inbox'[k] = inbox[k]
        BY <1>8, <3>2
      <4> QED BY <1>7, <4>1
    <3> QED BY <3>1, <3>2
  <2>4. inbox' \in [Agents -> SUBSET Wakes]
    BY <1>4, <2>3
  <2>5. noticed' \subseteq Agents
    BY <1>4, <1>7
  <2>6. left' \in [Agents -> Nat]
    BY DEF IInv, Shape
  <2> QED BY <1>1, <1>4, <2>2, <2>3, <2>4, <2>5, <2>6 DEF Shape, Grows
<1>10. LogFits'
  <2>1. ASSUME NEW s \in Seqs'
        PROVE  /\ log'[s].by = System <=> log'[s].kind = "system"
               /\ log'[s].woke \subseteq log'[s].due \ {log'[s].by}
               /\ log'[s].direct \subseteq log'[s].woke
               /\ \A w \in log'[s].words : w = s \/ (log'[s].kind = "edit" /\ w = log'[s].about)
               /\ log'[s].kind = "message" => log'[s].depth <= Breaker
    <3>1. CASE s \in Seqs
      BY <1>1, <3>1, OldProperties
    <3>2. CASE s = n
      BY <1>2, <1>6, <3>2
    <3>3. CASE s = n + 1 /\ T # {}
      BY <1>3, <3>3
    <3> QED BY <1>1, <3>1, <3>2, <3>3
  <2> QED BY <2>1 DEF LogFits
<1>11. ErasedEverywhere'
  <2>1. ASSUME NEW s \in Seqs', NEW t \in Seqs', log'[s].deleted
        PROVE  s \notin log'[t].words
    <3>1. s \in Seqs /\ log[s].deleted
      BY <1>1, <1>2, <1>3, <1>4, <2>1
    <3>2. CASE t \in Seqs
      BY <1>4, <3>1, <3>2 DEF IInv, LogInv, ErasedEverywhere
    <3>3. CASE t = n
      BY <1>1, <1>2, <3>1, <3>3
    <3>4. CASE t = n + 1 /\ T # {}
      BY <1>3, <3>4
    <3> QED BY <1>1, <3>2, <3>3, <3>4
  <2> QED BY <2>1 DEF ErasedEverywhere
<1>12. DepthsFit'
  <2>1. ASSUME NEW s \in Seqs', NEW t \in Seqs', s <= t, IsMessage(t)', NoPerson(s, t)'
        PROVE  Cardinality(Unbroken(s, t)') <= log'[t].depth
    <3>1. CASE t \in Seqs
      <4>1. s \in Seqs
        BY <1>1, <2>1, <3>1
      <4> QED BY <1>1, <2>1, <3>1, <4>1, OldProperties
    <3>2. CASE t = n
      <4>1. s \in Nat \ {0} /\ s <= n
        BY <1>1, <2>1, <3>2
      <4>2. n \in s .. n /\ \A x \in s .. Len(log) : x \in s .. n /\ x \in Seqs
        BY <1>1, <4>1
      <4>3. by \in Agents
        BY <1>2, <2>1, <3>2, <4>2 DEF NoPerson
      <4>4. PICK l : l = Len(log)
        OBVIOUS
      <4>5. NoPerson(s, l)
        BY <1>4, <1>5, <2>1, <3>2, <4>2, <4>4 DEF NoPerson
      <4>6. Unbroken(s, t)' = Unbroken(s, l) \cup {n}
        <5>1. \A x \in s .. n : x = n \/ x \in s .. l
          BY <1>1, <4>1, <4>4
        <5>2. \A x \in s .. l : IsMessage(x)' <=> IsMessage(x)
          BY <1>5, <4>2, <4>4
        <5>3. \A x \in s .. l : x \in s .. n
          BY <4>2, <4>4
        <5> QED BY <1>5, <3>2, <4>2, <5>1, <5>2, <5>3 DEF Unbroken
      <4>7. n \notin Unbroken(s, l)
        BY <1>1, <4>1, <4>4 DEF Unbroken
      <4>8. /\ IsFiniteSet(Unbroken(s, l)) /\ Cardinality(Unbroken(s, l)) <= CauseDepth
            /\ CauseDepth \in Nat
        BY <4>1, <4>4, <4>5, CauseFacts
      <4>9. Cardinality(Unbroken(s, l) \cup {n}) = Cardinality(Unbroken(s, l)) + 1
        BY <4>7, <4>8, FS_AddElement
      <4>10. Cardinality(Unbroken(s, l)) \in Nat
        BY <4>8, FS_CardinalityType
      <4> QED BY <1>2, <3>2, <4>3, <4>6, <4>8, <4>9, <4>10
    <3>3. CASE t = n + 1 /\ T # {}
      BY <1>5, <2>1, <3>3
    <3> QED BY <1>1, <3>1, <3>2, <3>3
  <2> QED BY <2>1 DEF DepthsFit
<1>13. NeverRepeatsItself'
  <2>1. ASSUME NEW s \in Seqs', NEW t \in Seqs',
               s < t, IsMessage(s)', IsMessage(t)', log'[s].by = log'[t].by,
               log'[s].by \in Agents
        PROVE  \E x \in s .. t : IsSpoken(x)' /\ log'[x].by # log'[s].by
    <3>1. CASE t \in Seqs
      <4>1. s \in Seqs
        <5>1. s < t /\ t <= Len(log) /\ s \in Nat /\ t \in Nat /\ 1 <= s
          BY <1>1, <2>1, <3>1
        <5>2. s <= Len(log)
          BY <1>1, <5>1
        <5> QED BY <1>1, <5>1, <5>2
      <4> QED BY <1>1, <2>1, <3>1, <4>1, OldProperties
    <3>2. CASE t = n
      <4>1. s \in Seqs
        <5>1. s < n /\ s \in Nat
          BY <1>1, <2>1, <3>2
        <5>2. 1 <= s
          BY <1>1, <2>1, <5>1
        <5>3. s <= Len(log)
          BY <1>1, <5>1
        <5> QED BY <1>1, <5>1, <5>2, <5>3
      <4>2. log[s].by = by /\ by \in Agents /\ s \in Own(by)
        BY <1>2, <1>4, <1>5, <2>1, <3>2, <4>1 DEF Own
      <4>3. PICK x \in Seqs : IsSpoken(x) /\ log[x].by # by /\ s < x
        BY <4>2
      <4>4. x \in s .. t
        BY <1>1, <3>2, <4>1, <4>3
      <4> QED BY <1>2, <1>4, <1>5, <3>2, <4>1, <4>2, <4>3, <4>4
    <3>3. CASE t = n + 1 /\ T # {}
      BY <1>5, <2>1, <3>3
    <3> QED BY <1>1, <3>1, <3>2, <3>3
  <2> QED BY <2>1 DEF NeverRepeatsItself
<1>14. ASSUME NEW m, NEW x \in Seqs, Told(m, x, Len(log)), m \notin W
       PROVE  Told(m, x, n)' /\ \A o : o = Len(log') => Told(m, x, o)'
  <2>1. PICK l : l = Len(log)
    OBVIOUS
  <2>2. l \in Seqs
    BY <1>1, <2>1
  <2>3. Told(m, x, l)'
    BY <1>1, <1>14, <2>1, <2>2, OldProperties
  <2>4. \A y \in x .. n : y \in x .. l \/ y = n
    BY <1>1, <2>1
  <2>5. \A y \in x .. Len(log') : y \in x .. l \/ y = n \/ (y = n + 1 /\ T # {})
    BY <1>1, <2>1
  <2>6. Told(m, x, n)'
    BY <1>2, <1>14, <2>3, <2>4 DEF Told
  <2>7. ASSUME NEW o, o = Len(log') PROVE Told(m, x, o)'
    BY <1>2, <1>3, <1>14, <2>3, <2>5, <2>7 DEF Told
  <2> QED BY <2>6, <2>7
<1>15. NoticesFit'
  <2>1. PICK o : o = Len(log')
    OBVIOUS
  <2>2. ASSUME NEW m \in noticed'
        PROVE  \E x \in Seqs' : Told(m, x, o)'
    <3>1. CASE m \in T
      <4>1. n + 1 \in Seqs' /\ o = n + 1 /\ \A y \in n + 1 .. o : y = n + 1
        BY <1>1, <2>1, <3>1
      <4>2. Told(m, o, o)'
        BY <1>3, <3>1, <4>1 DEF Told
      <4> QED BY <4>1, <4>2
    <3>2. CASE m \notin T
      <4>1. m \in noticed /\ m \notin W
        BY <1>4, <3>2
      <4>2. PICK x \in Seqs : Told(m, x, Len(log))
        BY <4>1 DEF IInv, NoticesFit
      <4> QED BY <1>1, <1>14, <2>1, <4>1, <4>2
    <3> QED BY <3>1, <3>2
  <2> QED BY <2>1, <2>2 DEF NoticesFit
<1>16. SilenceIsExplained'
  <2>1. ASSUME NEW s \in Seqs', NEW m \in log'[s].due \ log'[s].woke
        PROVE  \E x \in Seqs' : /\ x <= s + 1
                                /\ log'[x].kind = "system" /\ m \in log'[x].about
                                /\ \A y \in x .. s : m \notin log'[y].woke
    <3>1. CASE s \in Seqs
      BY <1>1, <2>1, <3>1, OldProperties
    <3>2. CASE s = n
      <4>1. m \in D /\ m \notin W /\ (m \in noticed \/ m \in T)
        BY <1>2, <2>1, <3>2
      <4>2. CASE m \in T
        <5>1. n + 1 \in Seqs' /\ n + 1 <= s + 1 /\ \A y \in n + 1 .. s : FALSE
          BY <1>1, <3>2, <4>2
        <5> QED BY <1>3, <4>2, <5>1
      <4>3. CASE m \in noticed
        <5>1. PICK x \in Seqs : Told(m, x, Len(log))
          BY <4>3 DEF IInv, NoticesFit
        <5>2. Told(m, x, n)'
          BY <1>14, <4>1, <5>1
        <5>3. x \in Seqs' /\ x <= s + 1
          BY <1>1, <3>2
        <5> QED BY <3>2, <5>2, <5>3 DEF Told
      <4> QED BY <4>1, <4>2, <4>3
    <3>3. CASE s = n + 1 /\ T # {}
      BY <1>3, <2>1, <3>3
    <3> QED BY <1>1, <3>1, <3>2, <3>3
  <2> QED BY <2>1 DEF SilenceIsExplained
<1>17. ASSUME NEW k
       PROVE  \A s : s \in Own(k)' <=> s \in Own(k) \/ (s = n /\ k = by)
  <2>1. ASSUME NEW s \in Seqs' PROVE s \in Own(k)' <=> s \in Own(k) \/ (s = n /\ k = by)
    <3>1. CASE s \in Seqs
      BY <1>1, <1>4, <1>5, <3>1 DEF Own, IsMessage
    <3>2. CASE s = n
      BY <1>1, <1>2, <3>2 DEF Own, IsMessage
    <3>3. CASE s = n + 1 /\ T # {}
      <4>1. s \notin Seqs /\ s # n
        BY <1>1, <3>3
      <4> QED BY <1>3, <3>3, <4>1 DEF Own, IsMessage
    <3> QED BY <1>1, <3>1, <3>2, <3>3
  <2>2. Own(k)' \subseteq Seqs' /\ Own(k) \subseteq Seqs'
    BY <1>1 DEF Own
  <2> HIDE DEF Own
  <2> QED BY <1>1, <2>1, <2>2
<1>18. CursorsFit'
  <2>1. ASSUME NEW k \in Agents
        PROVE  cursor'[k] <= Len(log') /\ \A s \in Own(k)' : s <= cursor'[k]
    <3>1. /\ cursor[k] <= Len(log) /\ \A s \in Own(k) : s <= cursor[k] /\ s \in Seqs
          /\ cursor[k] \in Nat
      BY <1>7 DEF IInv, CursorsFit, Own
    <3>2. CASE k = by
      <4>1. cursor'[k] = n /\ n <= Len(log')
        BY <1>1, <1>8, <3>2
      <4>2. \A s \in Own(k)' : s <= n
        <5>1. ASSUME NEW s \in Own(k)' PROVE s <= n
          <6>1. s \in Own(k) \/ s = n
            BY <1>17, <5>1
          <6>2. s \in Own(k) => s < n /\ s \in Nat
            BY <1>1, <3>1
          <6> QED BY <6>1, <6>2
        <5> QED BY <5>1
      <4> QED BY <4>1, <4>2
    <3>3. CASE k # by
      <4>1. cursor'[k] = cursor[k] /\ cursor[k] <= Len(log')
        BY <1>1, <1>8, <3>1, <3>3
      <4>2. \A s \in Own(k)' : s <= cursor[k]
        BY <1>17, <3>1, <3>3
      <4> QED BY <4>1, <4>2
    <3> QED BY <3>2, <3>3
  <2> QED BY <2>1 DEF CursorsFit
<1>19. InboxesFit'
  <2>1. ASSUME NEW m \in Agents, NEW w \in inbox'[m]
        PROVE  /\ w.seq \in Seqs' /\ m \in log'[w.seq].woke
               /\ w.direct <=> m \in log'[w.seq].direct
    <3>1. CASE w \in inbox[m]
      BY <1>1, <1>4, <3>1 DEF IInv, InboxesFit
    <3>2. CASE w \notin inbox[m]
      <4>1. m \in W /\ w = [seq |-> n, direct |-> m \in I]
        BY <1>8, <2>1, <3>2
      <4> QED BY <1>1, <1>2, <4>1
    <3> QED BY <3>1, <3>2
  <2> QED BY <2>1 DEF InboxesFit
<1>20. MentionIsKept'
  <2>1. ASSUME NEW s \in Seqs', NEW m \in log'[s].direct
        PROVE  cursor'[m] >= s \/ LeftBehind(m, s) \/ \E w \in inbox'[m] : w.seq = s
    <3>1. CASE s \in Seqs
      <4>1. m \in log[s].direct /\ m \in Agents
        BY <1>4, <2>1, <3>1, LogFacts DEF IInv, Shape, Entries
      <4>2. cursor[m] >= s \/ LeftBehind(m, s) \/ \E w \in inbox[m] : w.seq = s
        BY <3>1, <4>1 DEF IInv, MentionIsKept
      <4>3. cursor[m] \in Nat /\ cursor[m] <= Len(log)
        BY <1>7, <4>1 DEF IInv, CursorsFit
      <4>4. s \in Nat /\ n >= s
        BY <1>1, <3>1
      <4>5. cursor'[m] = (IF m = by THEN n ELSE cursor[m]) /\ inbox[m] \subseteq inbox'[m]
        BY <1>8, <4>1
      <4>6. CASE m = by
        BY <4>4, <4>5, <4>6
      <4>7. CASE m # by
        BY <4>2, <4>5, <4>7
      <4> QED BY <4>6, <4>7
    <3>2. CASE s = n
      <4>1. m \in W /\ m \in Agents
        BY <1>2, <2>1, <3>2
      <4>2. [seq |-> n, direct |-> m \in I] \in inbox'[m]
        BY <1>8, <4>1
      <4> QED BY <3>2, <4>2
    <3>3. CASE s = n + 1 /\ T # {}
      BY <1>3, <2>1, <3>3
    <3> QED BY <1>1, <3>1, <3>2, <3>3
  <2> QED BY <2>1 DEF MentionIsKept, LeftBehind
<1>21. ASSUME NEW k \in Agents PROVE RunFits(k, run[k])'
  <2>1. PICK o : o = run'[k]
    OBVIOUS
  <2>2. /\ o \in Runs /\ RunFits(k, o)
        /\ k = by => o.pc # "marked" /\ (o.stage = "post" => o.landed)
    BY <2>1
  <2>3. cursor'[k] \in Nat /\ cursor[k] <= cursor'[k]
    <3>1. cursor[k] \in Nat /\ cursor[k] <= Len(log)
      BY <1>7 DEF IInv, CursorsFit
    <3> QED BY <1>1, <1>8, <3>1
  <2>4. Own(k)' = Own(k) \/ (o.pc # "marked" /\ (o.stage = "post" => o.landed))
    BY <1>17, <2>2 DEF Own
  <2>5. RunFits(k, o)'
    BY <1>1, <1>8, <2>2, <2>3, <2>4, RunKept
  <2> QED BY <2>1, <2>5 DEF RunFits
<1> QED BY <1>9, <1>10, <1>11, <1>12, <1>13, <1>15, <1>16, <1>18, <1>19, <1>20, <1>21
        DEF IInv, LogInv, RunsFit

\* A person speaks.
LEMMA SayStep ==
    ASSUME IInv, ChannelsAssumption, NEW p \in People, NEW to, NEW about, Say(p, to, about)
    PROVE  IInv'
<1>1. Speak(p, to, about, 0) /\ paused' = FALSE /\ run' = run /\ left' = left
  BY DEF Say
<1>2. PICK n \in Nat, D, W, I, T \in SUBSET Agents : Said(n, p, 0, D, W, I, T)
  BY <1>1, SpeakFacts
<1>3. p \notin Agents /\ 0 <= Breaker
  BY DEF ChannelsAssumption
<1>4. run' \in [Agents -> Runs] /\ \A k \in Agents : RunFits(k, run'[k])
  BY <1>1, RunsStay
<1>5. /\ p \in Agents => /\ 0 = CauseDepth + 1
                         /\ \E x \in Seqs : /\ IsSpoken(x) /\ log[x].by # p
                                            /\ \A s \in Own(p) : s < x
      /\ \A k \in Agents :
           /\ RunFits(k, run'[k])
           /\ k = p => run'[k].pc # "marked" /\ (run'[k].stage = "post" => run'[k].landed)
  BY <1>3, <1>4
<1>6. paused' \in BOOLEAN /\ 0 \in Nat /\ p \in People \cup Agents
  BY <1>1
<1> QED BY <1>1, <1>2, <1>3, <1>4, <1>5, <1>6, SaidStep

\* A member's answer lands: it had something of somebody else to answer.
LEMMA PostedStep ==
    ASSUME IInv, ChannelsAssumption, NEW m \in Agents, Post(m), PostOutcome(m) = "posted"
    PROVE  IInv'
<1>1. Speak(m, run[m].to, 0, CauseDepth + 1) /\ paused' = paused /\ left' = left
  BY DEF Post
<1>2. CauseDepth \in Nat
  BY CauseFacts
<1>3. ~run[m].landed /\ CauseDepth + 1 <= Breaker
  <2>1. ~run[m].landed /\ ~(CauseDepth + 1 > Breaker)
    BY DEF PostOutcome
  <2> QED BY <1>2, <2>1 DEF ChannelsAssumption
<1>4. PICK n \in Nat, D, W, I, T \in SUBSET Agents : Said(n, m, CauseDepth + 1, D, W, I, T)
  <2>1. CauseDepth + 1 \in Nat
    BY <1>2
  <2> QED BY <1>1, <2>1, SpeakFacts
<1>5. PICK r \in Runs : /\ run' = [run EXCEPT ![m] = r]
                        /\ r.stage = "post" /\ r.pc \in {"stale", "over"}
                        /\ r.batch = run[m].batch /\ r.turn = run[m].turn
                        /\ r.upTo = run[m].upTo
                        /\ r.landed
  BY PostRun
<1>6. RunFits(m, run[m]) /\ run[m].stage = "post"
  BY PostRun, RunFacts
<1>7. RunFits(m, r)
  BY <1>5, <1>6 DEF RunFits
<1>8. /\ run' \in [Agents -> Runs]
      /\ \A k \in Agents :
           /\ RunFits(k, run'[k])
           /\ k = m => run'[k].pc # "marked" /\ (run'[k].stage = "post" => run'[k].landed)
  <2>1. \A k \in Agents : run'[k] = IF k = m THEN r ELSE run[k]
    BY <1>5 DEF IInv, Shape
  <2>2. run' \in [Agents -> Runs]
    BY <1>5 DEF IInv, Shape
  <2>3. \A k \in Agents : RunFits(k, run'[k])
    BY <1>7, <2>1 DEF IInv, RunsFit
  <2>4. run'[m].pc # "marked" /\ run'[m].landed
    BY <1>5, <2>1
  <2> QED BY <2>2, <2>3, <2>4
<1>9. \E x \in Seqs : /\ IsSpoken(x) /\ log[x].by # m
                      /\ \A s \in Own(m) : s < x
  BY <1>3, <1>6 DEF RunFits
<1>10. PICK d \in Nat : d = CauseDepth + 1
  BY <1>2
<1>11. Said(n, m, d, D, W, I, T) /\ d <= Breaker /\ m \in People \cup Agents
  BY <1>3, <1>4, <1>10
<1>12. paused' \in BOOLEAN
  BY <1>1 DEF IInv, Shape
<1> QED BY <1>1, <1>8, <1>9, <1>10, <1>11, <1>12, SaidStep

-----------------------------------------------------------------------------
(* The invariant.                                                          *)

\* An empty channel has it.
LEMMA InitInvariant == ChannelsAssumption /\ Init => IInv
<1> SUFFICES ASSUME ChannelsAssumption, Init PROVE IInv
  OBVIOUS
<1>1. log = <<>> /\ log \in Seq(Entries) /\ Len(log) = 0 /\ Seqs = {}
  BY DEF Init, Seqs
<1>2. Idle \in Runs /\ Idle.upTo = 0 /\ Idle.stage = "idle" /\ Idle.batch = <<>> /\ Idle.pc = "start"
  BY DEF Idle, Runs
<1>3. IsFiniteSet({})
  BY FS_EmptySet
<1>4. Shape
  BY <1>1, <1>2, <1>3 DEF Init, Shape
<1>5. LogInv /\ NoticesFit /\ SilenceIsExplained /\ MentionIsKept
  BY <1>1 DEF Init, LogInv, LogFits, ErasedEverywhere, DepthsFit, NeverRepeatsItself, NoticesFit,
              SilenceIsExplained, MentionIsKept
<1>6. CursorsFit /\ InboxesFit
  BY <1>1 DEF Init, CursorsFit, Own, InboxesFit
<1>7. RunsFit
  BY <1>1, <1>2 DEF Init, RunsFit, RunFits
<1> QED BY <1>4, <1>5, <1>6, <1>7 DEF IInv

\* Nothing changes.
LEMMA StutterStep ==
    ASSUME IInv, UNCHANGED vars
    PROVE  IInv'
<1>1. UNCHANGED <<log, paused, cursor, engaged, noticed, inbox, run, left>>
  BY DEF vars
<1>2. Shape' /\ CursorsFit' /\ InboxesFit' /\ MentionIsKept'
  BY <1>1 DEF IInv, Shape, CursorsFit, Own, InboxesFit, MentionIsKept, LeftBehind, Seqs, IsMessage
<1>3. LogInv' /\ NoticesFit' /\ SilenceIsExplained'
  BY <1>1, LogStays
<1>4. RunsFit'
  BY <1>1 DEF IInv, RunsFit, RunFits, Read, LeftBehind, Own, Seqs, IsMessage, IsSpoken
<1> QED BY <1>2, <1>3, <1>4 DEF IInv

\* Every step keeps it.
LEMMA NextInvariant == ChannelsAssumption /\ IInv /\ [Next]_vars => IInv'
<1> SUFFICES ASSUME ChannelsAssumption, IInv, [Next]_vars PROVE IInv'
  OBVIOUS
<1>1. CASE UNCHANGED vars
  BY <1>1, StutterStep
<1>2. ASSUME NEW p \in People, NEW to \in Addressings,
             NEW about \in {0} \cup {s \in Seqs : IsMessage(s)}, Say(p, to, about)
      PROVE  IInv'
  BY <1>2, SayStep
<1>3. ASSUME NEW p \in People, NEW s \in Seqs, Edit(p, s) \/ Tombstone(p, s) \/ React(p, s)
      PROVE  IInv'
  BY <1>3, EditStep, TombstoneStep, ReactStep
<1>4. ASSUME NEW m \in Agents, Step(m) \/ LeaveUnread(m) \/ Crash(m)
      PROVE  IInv'
  <2>1. CASE Drain(m)
    BY <2>1, DrainStep
  <2>2. CASE ReadChannel(m)
    BY <2>2, ReadChannelStep
  <2>3. CASE Think(m)
    BY <2>3, ThinkStep
  <2>4. CASE Post(m)
    BY <2>4, PostedStep, TrippedStep, RefusedStep
  <2>5. CASE RecordPost(m)
    BY <2>5, RecordPostStep
  <2>6. CASE Complete(m)
    BY <2>6, CompleteStep
  <2>7. CASE LeaveUnread(m)
    BY <2>7, LeaveUnreadStep
  <2>8. CASE Crash(m)
    BY <2>8, CrashStep
  <2> QED BY <1>4, <2>1, <2>2, <2>3, <2>4, <2>5, <2>6, <2>7, <2>8 DEF Step
<1> QED BY <1>1, <1>2, <1>3, <1>4 DEF Next

\* The invariant holds of every reachable state of a channel.
THEOREM InvariantHolds == Spec => []IInv
<1>1. Init => IInv
  BY InitInvariant, ChannelsAssumption
<1>2. IInv /\ [Next]_vars => IInv'
  BY NextInvariant, ChannelsAssumption
<1> QED BY <1>1, <1>2, PTL DEF Spec

-----------------------------------------------------------------------------
(* What follows from it.                                                   *)

\* Entries, cursors and wakes keep their shape: a cursor or a wake never points past
\* the log, whatever channel_append, channel_edit and the members' runs do.
THEOREM ChannelsIsTyped == Spec => []TypeOK
<1>1. IInv => TypeOK
  <2> SUFFICES ASSUME IInv PROVE TypeOK
    OBVIOUS
  <2>1. \A s \in Seqs : /\ log[s].kind \in {"message", "system", "edit", "reaction", "tombstone"}
                        /\ log[s].by \in People \cup Agents \cup {System}
    BY LogFacts DEF IInv, Shape, Entries
  <2>2. \A s \in Seqs : /\ [kind |-> log[s].kind, by |-> log[s].by] \in Rec
                        /\ log[s].by = System <=> log[s].kind = "system"
                        /\ log[s].woke \subseteq log[s].due \ {log[s].by}
    BY <2>1 DEF IInv, LogInv, LogFits, Rec
  <2>3. Len(log) \in Nat /\ \A m \in Agents : cursor[m] \in Nat /\ cursor[m] <= Len(log)
    BY LogFacts DEF IInv, Shape, CursorsFit
  <2>4. cursor \in [Agents -> 0 .. Len(log)]
    BY <2>3 DEF IInv, Shape
  <2>5. ASSUME NEW m \in Agents
        PROVE  /\ \A w \in inbox[m] : w.seq \in Seqs /\ m \in log[w.seq].woke
               /\ run[m].upTo \in 0 .. Len(log)
    <3>1. run[m].upTo \in Nat /\ run[m].upTo <= Len(log)
      BY RunFacts DEF Runs, RunFits
    <3> QED BY <2>3, <3>1 DEF IInv, InboxesFit
  <2>6. paused \in BOOLEAN /\ engaged \cup noticed \subseteq Agents /\ left \in [Agents -> Nat]
    BY DEF IInv, Shape
  <2> QED BY <2>2, <2>4, <2>5, <2>6 DEF TypeOK
<1> QED BY <1>1, InvariantHolds, PTL

\* Between two messages of people, members write at most Breaker messages: the depth of
\* a message counts them, and channel_append lets none be deeper.
THEOREM ConversationsEnd == Spec => []AgentsFallSilent
<1>1. IInv => AgentsFallSilent
  <2> SUFFICES ASSUME IInv, NEW s \in Seqs, NEW t \in Seqs, s < t,
                      \A x \in s .. t : IsMessage(x) => log[x].by \in Agents
               PROVE  Cardinality({x \in s .. t : IsMessage(x)}) <= Breaker
    BY DEF AgentsFallSilent
  <2> DEFINE M == {x \in s .. t : IsMessage(x)}
  <2>1. /\ Len(log) \in Nat /\ s \in Nat /\ t \in Nat /\ t <= Len(log) /\ s .. t \subseteq Seqs
        /\ \A x \in Seqs : x \in Nat /\ log[x] \in Entries
    BY LogFacts DEF IInv, Shape, Seqs
  <2>2. CASE M = {}
    <3>1. Cardinality(M) = 0
      BY <2>2, FS_EmptySet
    <3>2. 0 <= Breaker
      BY ChannelsAssumption DEF ChannelsAssumption
    <3> QED BY <3>1, <3>2
  <2>3. CASE M # {}
    <3>1. M \subseteq 0 .. Len(log)
      BY <2>1
    <3>2. Max(M) \in M /\ \A y \in M : y <= Max(M)
      <4> HIDE DEF M
      <4> QED BY <2>1, <2>3, <3>1, MaxFacts
    <3>3. PICK l \in Seqs : l = Max(M)
      BY <2>1, <3>2
    <3>4. IsMessage(l) /\ l \in s .. t /\ \A y \in M : y <= l
      BY <3>2, <3>3
    <3>5. NoPerson(s, l) /\ s <= l
      BY <2>1, <3>4 DEF NoPerson
    <3>6. M = Unbroken(s, l)
      <4>1. \A x \in s .. t : IsMessage(x) => x <= l
        BY <3>4
      <4>2. \A x \in s .. l : x \in s .. t
        BY <2>1, <3>4
      <4>3. \A x \in s .. t : x <= l => x \in s .. l
        BY <2>1, <3>4
      <4> QED BY <4>1, <4>2, <4>3 DEF Unbroken
    <3>7. Cardinality(M) <= log[l].depth
      BY <3>4, <3>5, <3>6 DEF IInv, LogInv, DepthsFit
    <3>8. log[l].depth <= Breaker /\ log[l].depth \in Nat
      BY <2>1, <3>4 DEF IInv, LogInv, LogFits, IsMessage, Entries
    <3>9. Cardinality(M) \in Nat
      <4>1. IsFiniteSet(s .. t) /\ M \subseteq s .. t
        BY <2>1, FS_Interval
      <4>2. IsFiniteSet(M)
        <5> HIDE DEF M
        <5> QED BY <4>1, FS_Subset
      <4> QED BY <4>2, FS_CardinalityType
    <3> QED BY <3>7, <3>8, <3>9, ChannelsAssumption DEF ChannelsAssumption
  <2> QED BY <2>2, <2>3
<1> QED BY <1>1, InvariantHolds, PTL

\* A member never speaks twice with nothing said by anybody else in between, however
\* often its run is replayed.
THEOREM MembersTakeTurns == Spec => []NeverRepeatsItself
<1>1. IInv => NeverRepeatsItself
  BY DEF IInv, LogInv
<1> QED BY <1>1, InvariantHolds, PTL

\* channel_tombstone leaves the words of a deleted message in no entry.
THEOREM DeletedIsErased == Spec => []ErasedEverywhere
<1>1. IInv => ErasedEverywhere
  BY DEF IInv, LogInv
<1> QED BY <1>1, InvariantHolds, PTL

\* A member that a message should have woken and did not was told of in a notice, and
\* nothing woke it since.
THEOREM SilenceHasANotice == Spec => []SilenceIsExplained
<1>1. IInv => SilenceIsExplained
  BY DEF IInv
<1> QED BY <1>1, InvariantHolds, PTL

\* What was addressed to a member and woke it is behind its cursor, or its wake is still
\* in the inbox, or it was there when the member's last read stopped short of the end.
THEOREM MentionsAreKept == Spec => []MentionIsKept
<1>1. IInv => MentionIsKept
  BY DEF IInv
<1> QED BY <1>1, InvariantHolds, PTL
=============================================================================
