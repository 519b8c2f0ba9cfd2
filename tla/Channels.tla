----------------------------- MODULE Channels -----------------------------
(***************************************************************************)
(* One channel of runtime/persistence/channels.py, the people who write to  *)
(* it and the member agents that live in it (agents/channel.py).  A member  *)
(* is woken by a message in its inbox, reads the log after its cursor,      *)
(* decides, and posts its answer with the position it had read; the post is *)
(* refused when somebody else spoke in between.                             *)
(*                                                                         *)
(* Every operation of the store is one transaction under the channel's lock *)
(* and one action here.  A member's handler is a sequence of journaled      *)
(* effects: an attempt may crash between any two of its steps, and the next *)
(* one finds what was recorded and repeats what was not.                    *)
(*                                                                         *)
(* Entries are numbered from 1 and a cursor of 0 has read nothing (the code *)
(* numbers from 0, with -1).  Members and their modes are fixed.            *)
(***************************************************************************)
EXTENDS Naturals, Sequences, FiniteSets, FiniteSetsExt

CONSTANTS
    People,       \* participants without an inbox
    Agents,       \* member agents, woken at their own address
    Everyone,     \* the mention that addresses every member
    System,       \* the sender of the channel's own notices
    Mode,         \* Agents -> {"all", "mentions", "muted"}
    Attended,     \* the agents whose host may say that they are busy
    Budgeted,     \* the agents whose accounts may be used up
    Addressings,  \* what a message may mention: sets of agents and Everyone
    Breaker,      \* how deep a conversation of agents may get
    Rethinks,     \* how often a refused answer is reconsidered
    ReadLimit,    \* how many entries one read returns at most
    MaxActs       \* bound: entries written by a person, messages counted twice

ASSUME ChannelsAssumption ==
    /\ People \cap Agents = {} /\ {Everyone, System} \cap (People \cup Agents) = {}
    /\ Everyone # System
    /\ Mode \in [Agents -> {"all", "mentions", "muted"}]
    /\ Attended \subseteq Agents /\ Budgeted \subseteq Agents
    /\ Addressings \subseteq SUBSET (Agents \cup {Everyone})
    /\ Breaker \in Nat /\ Rethinks \in Nat /\ ReadLimit \in Nat \ {0}
    /\ MaxActs \in Nat

VARIABLES
    log,       \* rt_channel_entries, in the order of seq
    paused,    \* rt_channels.paused
    reacted,   \* rt_channel_reactions: <<seq, participant>>
    cursor,    \* rt_channel_members.cursor of each agent
    engaged,   \* the agents with an engaged_until that was not seen to have passed
    noticed,   \* rt_channel_members.exhausted_noticed
    inbox,     \* the wakes waiting for each agent
    run,       \* what each agent's run has journaled, and where its attempt is
    left       \* history, for the properties: how long the log was when the last
               \* read of each agent stopped short of its end, 0 if it did not

vars == <<log, paused, reacted, cursor, engaged, noticed, inbox, run, left>>

store == <<log, paused, reacted, cursor, engaged, noticed, inbox, left>>

-----------------------------------------------------------------------------
(* The log.                                                                *)

Seqs          == 1..Len(log)
IsMessage(s)  == log[s].kind = "message"
IsSpoken(s)   == log[s].kind \in {"message", "system"}
LastOf(S)     == IF S = {} THEN 0 ELSE Max(S)

\* due and woke are the members an entry concerned and the ones it woke, direct
\* those of the latter whom it was addressed to (AppendResult.woken); words
\* are the messages whose text the entry holds; about is the message a marker is about,
\* or the members a budget notice names.
Entry(kind, by, about, words) ==
    [kind |-> kind, by |-> by, about |-> about, words |-> words, depth |-> 0,
     deleted |-> FALSE, due |-> {}, woke |-> {}, direct |-> {}]

\* _write_marker: no wake, no cursor, no depth.
Marker(kind, by, about, words) == Append(log, Entry(kind, by, about, words))

\* A mutation: a marker counts as what is answered.
DepthOfLatest == IF log = <<>> THEN 0 ELSE log[Len(log)].depth

\* _cause_depth: an answer is to the latest message.
CauseDepth ==
    LET latest == LastOf({s \in Seqs : IsMessage(s)})
    IN  IF latest = 0 THEN 0 ELSE log[latest].depth

\* _wake_reason.
WakeReason(m, to, repliedTo, isEngaged) ==
    IF Mode[m] = "muted" THEN IF m \in to THEN "direct" ELSE "none"
    ELSE IF to \cap {m, Everyone} # {} \/ repliedTo = m THEN "direct"
    ELSE IF isEngaged THEN "engaged"
    ELSE IF Mode[m] = "all" THEN "ambient" ELSE "none"

\* A mutation: the speaker's cursor is moved to next_seq.
CursorPast(by, seq) == [m \in Agents |-> IF m = by THEN seq + 1 ELSE cursor[m]]

\* What a member says it has read.
CursorAfter(by, seq) == [m \in Agents |-> IF m = by THEN seq ELSE cursor[m]]

\* A mutation: a member once told that its budget is gone is never told again.
NoticedForGood(fed, silent) == noticed \cup silent

\* A member that could be woken will be told when its budget is gone again.
NoticedAfter(fed, silent) == (noticed \ fed) \cup silent

\* The part of channel_append that writes: the entry, the speaker's cursor and
\* engagement, a wake for every member the entry concerns, and one notice for
\* those whose budget is gone and who were not told so yet.  The clock and the
\* accounts are looked at here only: which windows have lapsed and which members
\* have an exhausted account is chosen here.
Speak(by, to, about, depth) ==
    \E lapsed \in SUBSET engaged, spent \in SUBSET Budgeted :
      LET seq    == Len(log) + 1
          others == Agents \ {by}
          target == IF about = 0 THEN System ELSE log[about].by
          reason == [m \in others |-> WakeReason(m, to, target, m \in engaged \ lapsed)]
          due    == {m \in others : reason[m] # "none"}
          direct == {m \in due : reason[m] = "direct"}
          silent == (due \cap spent) \ noticed
      IN  /\ log' = Append(log, [Entry("message", by, 0, {seq}) EXCEPT
                           !.depth = depth, !.due = due, !.woke = due \ spent,
                           !.direct = direct \ spent])
                      \o (IF silent = {} THEN <<>>
                          ELSE <<Entry("system", System, silent, {})>>)
          /\ cursor' = CursorAfter(by, seq)
          /\ engaged' = UNION {engaged \ lapsed, {by} \cap Agents, direct}
          /\ noticed' = NoticedAfter(due \ spent, silent)
          /\ inbox' = [m \in Agents |->
                         inbox[m] \cup IF m \in due \ spent
                                      THEN {[seq |-> seq, direct |-> m \in direct]} ELSE {}]

-----------------------------------------------------------------------------
(* People.                                                                 *)

\* The bound: a person may write MaxActs entries, where a message counts as two.
By(p, kinds) == Cardinality({s \in Seqs : log[s].by = p /\ log[s].kind \in kinds})
MayAct(p, cost) ==
    cost + 2 * By(p, {"message"}) + By(p, {"edit", "reaction", "tombstone"}) <= MaxActs

\* A person's entry resumes a paused channel and is never refused.
Say(p, to, about) ==
    /\ MayAct(p, 2)
    /\ Speak(p, to, about, 0)
    /\ paused' = FALSE
    /\ UNCHANGED <<reacted, run, left>>

\* _own_message.
IsOwn(p, s) == IsMessage(s) /\ log[s].by = p /\ ~log[s].deleted

OnlyLog == UNCHANGED <<paused, cursor, engaged, noticed, inbox, run, left>>

\* channel_edit: the marker holds the new text and the previous one.
Edit(p, s) ==
    /\ MayAct(p, 1) /\ IsOwn(p, s)
    /\ log' = Marker("edit", p, s, {s})
    /\ UNCHANGED reacted /\ OnlyLog

\* A mutation: what an edit kept of the message stays.
BlankedOnly(s) == [log EXCEPT ![s].words = {}, ![s].deleted = TRUE]

\* What a deleted message leaves: its text goes, and what its edits kept of it.
Blanked(s) ==
    [e \in Seqs |->
       IF e = s THEN [log[e] EXCEPT !.words = {}, !.deleted = TRUE]
       ELSE IF log[e].kind = "edit" /\ log[e].about = s THEN [log[e] EXCEPT !.words = {}]
       ELSE log[e]]

\* channel_tombstone.
Tombstone(p, s) ==
    /\ MayAct(p, 1) /\ IsOwn(p, s)
    /\ log' = Append(Blanked(s), Entry("tombstone", p, s, {}))
    /\ UNCHANGED reacted /\ OnlyLog

\* channel_react, with one emoji: it is given, or taken back.
React(p, s) ==
    /\ MayAct(p, 1) /\ IsMessage(s)
    /\ reacted' = IF <<s, p>> \in reacted THEN reacted \ {<<s, p>>} ELSE reacted \cup {<<s, p>>}
    /\ log' = Marker("reaction", p, s, {})
    /\ OnlyLog

-----------------------------------------------------------------------------
(* A member agent.  stage, batch, turn, round, upTo and to are what          *)
(* the journal determines; pc and seen are the attempt's own.               *)

Idle == [stage |-> "idle", batch |-> <<>>, turn |-> 1, round |-> 0, upTo |-> 0,
         to |-> {}, landed |-> FALSE, pc |-> "start", seen |-> {}]

InAttempt(m, stage, pc) ==
    /\ run[m].stage = stage
    /\ run[m].pc = pc \/ (pc = "in" /\ run[m].pc = "start")

\* The one list of the wakes W in the order they were sent.
Orders(W) ==
    {b \in [1..Cardinality(W) -> W] : \A i, j \in DOMAIN b : i < j => b[i].seq < b[j].seq}

\* A run starts by draining the inbox.
Drain(m) ==
    /\ run[m].stage = "idle" /\ inbox[m] # {}
    /\ \E b \in Orders(inbox[m]) :
         run' = [run EXCEPT ![m] = [Idle EXCEPT !.stage = "read", !.batch = b]]
    /\ UNCHANGED store

Wake(m) == run[m].batch[run[m].turn]

\* Nothing is left to do but to complete the run.
AtEnd(r) == [Idle EXCEPT !.stage = "done", !.batch = r.batch]

\* The handler of a wake returns: the next one of the batch, or the end.
AfterHandler(r) ==
    IF r.turn < Len(r.batch)
    THEN [Idle EXCEPT !.stage = "read", !.batch = r.batch, !.turn = r.turn + 1]
    ELSE AtEnd(r)

\* What is not addressed to the member may wait while it is busy elsewhere.
MayWait(wake) == ~wake.direct

\* The handler of a wake returns before its first effect.
PassedOver(r) == IF r.turn < Len(r.batch) THEN [r EXCEPT !.turn = @ + 1] ELSE AtEnd(r)

\* availability() is asked by every attempt and not journaled.  A member that is
\* busy returns at once; the next wake of the batch then meets what the journal
\* holds so far.
LeaveUnread(m) ==
    /\ run[m].stage \in {"read", "post"} /\ run[m].pc = "start"
    /\ m \in Attended /\ MayWait(Wake(m))
    /\ run' = [run EXCEPT ![m] = PassedOver(@)]
    /\ UNCHANGED store

\* channel_read: the first ReadLimit entries after the cursor, markers included.
Page(m) == {s \in Seqs : cursor[m] < s /\ s <= cursor[m] + ReadLimit}

\* read_channel: the cursor, the entries after it, and channel_mark_read, past the
\* markers too.  Only its own run reads or moves the cursor of an agent, so the
\* three transactions are one step,
ReadChannel(m) ==
    /\ InAttempt(m, "read", "in")
    /\ run' = [run EXCEPT ![m].pc = "marked", ![m].seen = Page(m)]
    /\ cursor' = [cursor EXCEPT ![m] = Max({@} \cup Page(m))]
    /\ left' = [left EXCEPT ![m] = IF cursor[m] + ReadLimit < Len(log) THEN Len(log) ELSE 0]
    /\ UNCHANGED <<log, paused, reacted, engaged, noticed, inbox>>

\* then the journal entry with what was said, and the quick look and the full turn
\* over it, which touch nothing that is shared.  With nothing new the handler
\* returns; else the member passes, or has an answer.
Think(m) ==
    /\ InAttempt(m, "read", "marked")
    /\ LET spoken == {s \in run[m].seen : IsSpoken(s)}
       IN  \/ run' = [run EXCEPT ![m] = AfterHandler(@)]
           \/ /\ spoken # {}
              /\ \E to \in Addressings :
                   run' = [run EXCEPT ![m] = [@ EXCEPT !.stage = "post", !.pc = "in",
                                !.upTo = Max(spoken), !.to = to \ {m}, !.seen = {}]]
    /\ UNCHANGED store

\* read_up_to: somebody else has spoken since.
IsStale(m) == \E s \in Seqs : s > run[m].upTo /\ IsMessage(s) /\ log[s].by # m

\* A mutation: a post that repeats one that landed is checked like a new one.
PostOutcomeAfresh(m) ==
    IF paused THEN "paused"
    ELSE IF IsStale(m) THEN "stale"
    ELSE IF CauseDepth + 1 > Breaker THEN "tripped" ELSE "posted"

\* channel_append for an agent, up to the point where it writes.
PostOutcome(m) ==
    IF run[m].landed THEN "landed"
    ELSE IF paused THEN "paused"
    ELSE IF IsStale(m) THEN "stale"
    ELSE IF CauseDepth + 1 > Breaker THEN "tripped" ELSE "posted"

\* ctx.post: the transaction, then (RecordPost) the journal entry.  landed says
\* that the log has an entry with the idempotency key of this post; the next post
\* of the run has another key.
Post(m) ==
    /\ InAttempt(m, "post", "in")
    /\ run' = [run EXCEPT ![m].pc = IF PostOutcome(m) = "stale" THEN "stale" ELSE "over",
                          ![m].landed = @ \/ PostOutcome(m) = "posted"]
    /\ CASE PostOutcome(m) = "posted" ->
              /\ Speak(m, run[m].to, 0, CauseDepth + 1)
              /\ UNCHANGED <<paused, reacted, left>>
         [] PostOutcome(m) = "tripped" ->
              /\ log' = Marker("system", System, {}, {})
              /\ paused' = TRUE
              /\ UNCHANGED <<reacted, cursor, engaged, noticed, inbox, left>>
         [] OTHER -> UNCHANGED store

\* A stale answer is reconsidered while rounds are left; anything else ends it.
RecordPost(m) ==
    /\ run[m].stage = "post"
    /\ run[m].pc \in {"stale", "over"}
    /\ LET r == [run[m] EXCEPT !.landed = FALSE]
       IN  run' = [run EXCEPT ![m] =
                     IF r.pc = "stale" /\ r.round < Rethinks
                     THEN [r EXCEPT !.stage = "read", !.round = @ + 1, !.pc = "in"]
                     ELSE AfterHandler(r)]
    /\ UNCHANGED store

\* A mutation: everything in the inbox is acknowledged.
Acked(m) == inbox[m]

\* The run acknowledges what it drained.
Drained(m) == Range(run[m].batch)

Complete(m) ==
    /\ run[m].stage = "done"
    /\ inbox' = [inbox EXCEPT ![m] = @ \ Drained(m)]
    /\ run' = [run EXCEPT ![m] = Idle]
    /\ UNCHANGED <<log, paused, reacted, cursor, engaged, noticed, left>>

\* The worker dies, or loses the run: the next attempt replays the journal.
Crash(m) ==
    /\ run[m].stage # "idle" /\ run[m].pc # "start"
    /\ run' = [run EXCEPT ![m].pc = "start", ![m].seen = {}]
    /\ UNCHANGED store

-----------------------------------------------------------------------------
Init ==
    /\ log = <<>> /\ paused = FALSE /\ reacted = {}
    /\ cursor = [m \in Agents |-> 0]
    /\ engaged = {} /\ noticed = {}
    /\ inbox = [m \in Agents |-> {}]
    /\ run = [m \in Agents |-> Idle]
    /\ left = [m \in Agents |-> 0]

Step(m) ==
    \/ Drain(m) \/ ReadChannel(m) \/ Think(m)
    \/ Post(m) \/ RecordPost(m) \/ Complete(m)

Next ==
    \/ \E p \in People :
        \/ \E to \in Addressings, about \in {0} \cup {s \in Seqs : IsMessage(s)} :
             Say(p, to, about)
        \/ \E s \in Seqs : Edit(p, s) \/ Tombstone(p, s) \/ React(p, s)
    \/ \E m \in Agents :
        \/ Step(m) \/ LeaveUnread(m) \/ Crash(m)

Spec == Init /\ [][Next]_vars

-----------------------------------------------------------------------------
(* Properties.                                                             *)

Rec == [kind : {"message", "system", "edit", "reaction", "tombstone"},
        by : People \cup Agents \cup {System}]

\* Entries, cursors and wakes keep their shape; a cursor and a wake never point
\* past the log, and only the channel's own entries are written by System.
TypeOK ==
    /\ \A s \in Seqs : /\ [kind |-> log[s].kind, by |-> log[s].by] \in Rec
                       /\ log[s].by = System <=> log[s].kind = "system"
                       /\ log[s].woke \subseteq log[s].due \ {log[s].by}
    /\ cursor \in [Agents -> 0..Len(log)]
    /\ \A m \in Agents : /\ \A w \in inbox[m] : w.seq \in Seqs /\ m \in log[w.seq].woke
                         /\ run[m].upTo \in 0..Len(log)
    /\ paused \in BOOLEAN /\ engaged \cup noticed \subseteq Agents /\ left \in [Agents -> Nat]

\* "so agents cannot talk to each other forever" (runtime/channel.py): between two
\* messages of people there are at most Breaker messages of agents, whatever
\* markers and notices are written in between.
AgentsFallSilent ==
    \A s, t \in Seqs :
        /\ s < t
        /\ \A x \in s..t : IsMessage(x) => log[x].by \in Agents
        => Cardinality({x \in s..t : IsMessage(x)}) <= Breaker

\* A member never speaks twice with nothing said by anybody else in between: not
\* when its run is replayed after a crash, not when several wakes brought it the
\* same messages, and not because its own message or a marker looks new to it.
NeverRepeatsItself ==
    \A s, t \in Seqs :
        /\ s < t /\ IsMessage(s) /\ IsMessage(t)
        /\ log[s].by = log[t].by /\ log[s].by \in Agents
        => \E x \in s..t : IsSpoken(x) /\ log[x].by # log[s].by

\* "a delete ... blanks the text and what is attached, everywhere it was kept":
\* no entry of the log holds the words of a deleted message.
ErasedEverywhere ==
    \A s, t \in Seqs : log[s].deleted => s \notin log[t].words

\* "Said once, so the silence is not a mystery": a message that should have woken
\* a member and did not, because a budget was gone, has a notice that names the
\* member, and the member was not woken between the two.
SilenceIsExplained ==
    \A s \in Seqs : \A m \in log[s].due \ log[s].woke :
        \E n \in Seqs :
            /\ n <= s + 1
            /\ log[n].kind = "system" /\ m \in log[n].about
            /\ \A x \in n..s : m \notin log[x].woke

\* Entry s was there when m last read, and that read did not get to the end.
LeftBehind(m, s) == s <= left[m]

\* A message that was addressed to a member and woke it is behind the member's
\* cursor or still has its wake in the inbox, so a burst, a busy member, a crash, a
\* refused answer or the end of a run never leaves it unread with nothing to come
\* back for it: but for a message that was there already when the member's last
\* read stopped short of the end of the log (read_channel, complete_run).
MentionIsKept ==
    \A s \in Seqs : \A m \in log[s].direct :
        cursor[m] >= s \/ LeftBehind(m, s) \/ \E w \in inbox[m] : w.seq = s
=============================================================================
