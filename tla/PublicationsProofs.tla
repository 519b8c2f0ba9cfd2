------------------------- MODULE PublicationsProofs -------------------------
(***************************************************************************)
(* What holds of Publications for any imports, requests, jobs and bounds.  *)
(***************************************************************************)
EXTENDS Publications, FiniteSetTheorems, SequenceTheorems, WellFoundedInduction, TLAPS

-----------------------------------------------------------------------------
(* The inductive invariant, first part: who is doing what.                 *)

Files      == [path : Jobs, rows : SUBSET Jobs, at : Nat]
Snaps      == [op : {"append", "overwrite", "delete"}, write : Jobs, files : SUBSET Files]
Tables     == [id : Nat, live : BOOLEAN, snaps : Seq(Snaps), kept : SUBSET Nat]
Source     == [id : Nat, n : Nat]
Views      == [since : Source, status : {"refreshing", "fresh", "failed"},
               snaps : Seq(Snaps), kept : SUBSET Nat]
Imported   == {"none", "awaiting_upload", "queued", "inferring", "ingesting", "succeeded", "failed"}
Runs       == [status : {"none", "running", "succeeded", "failed", "skipped"}, table : Nat]
Works      == [op : {"none", "infer", "ingest", "optimize", "delete", "refresh"},
               files : SUBSET Jobs, rows : SUBSET Jobs]
Kinds      == {"infer", "ingest", "optimize", "delete", "refresh"}
Pubs       == [job : Jobs, kind : Kinds, of : Imports \cup Maintenance, table : Nat,
               state : {"pending", "done", "failed"}, created : BOOLEAN, full : BOOLEAN,
               source : Source]
Handlers   == [at : {"start", "work", "plan", "post", "insert", "over"}, job : Nat, table : Nat,
               files : SUBSET Jobs, full : BOOLEAN, info : Source, source : Source]
Publishers == [at : {"idle", "next", "create", "post", "insert", "commit", "settle", "fail", "mark"},
               todo : SUBSET Nat, job : Nat, state : {"done", "failed"}]

Shape ==
    /\ table \in Tables /\ view \in Views /\ deleted \subseteq Jobs
    /\ import \in [Imports -> Imported] /\ mode \in [Imports -> {"create", "append", "overwrite"}]
    /\ run \in [Maintenance -> Runs]
    /\ status \in [Jobs -> {"absent", "pending"} \cup Contract!Outcomes]
    /\ payload \in [Jobs -> Works]
    /\ pubs \in Seq(Pubs)
    /\ handler \in [Requests -> Handlers]
    /\ publisher \in Publishers
    /\ faults \in 0 .. MaxFaults

Accepted == {j \in Jobs : status[j] # "absent"}

\* Nobody knows a table that does not exist yet.
IdsFit ==
    /\ table.live => table.id # 0
    /\ view.since.id <= table.id
    /\ \A q \in Maintenance : run[q].table <= table.id

\* A handler that has come as far as h.
HandlerFits(q, h) ==
    /\ h.table <= table.id /\ h.info.id <= table.id /\ h.source.id <= table.id
    /\ h.at \notin {"start", "over"} =>
         q.op # "drop" /\ (q.op = "complete" => import[q.of] # "none")
    /\ h.at = "plan" => q.op = "refresh"
    /\ h.at \in {"post", "insert"} /\ JobOf(q) = "ingest" => h.table # 0
    /\ h.at = "insert" => h.job \in Accepted /\ payload[h.job].op = JobOf(q)

HandlersFit == \A q \in Requests : HandlerFits(q, handler[q])

\* A publication is of a job of its kind.
PubFits(p) ==
    /\ p.table <= table.id /\ p.source.id <= table.id
    /\ p.job \in Accepted /\ payload[p.job].op = p.kind
    /\ p.kind \in {"infer", "ingest"} => p.of \in Imports /\ import[p.of] # "none"
    /\ p.kind \notin {"infer", "ingest"} => p.of \in Maintenance
    /\ p.kind = "ingest" => p.table # 0

PubsFit == \A n \in DOMAIN pubs : PubFits(pubs[n])

\* The publisher is at a publication that is pending, and does what its kind calls for.
PublisherFits ==
    /\ \A n \in publisher.todo : n \in DOMAIN pubs /\ pubs[n].state = "pending"
    /\ publisher.at \notin {"idle", "next"} => publisher.todo # {}
    /\ publisher.at \in {"create", "post", "insert"} => Current.kind = "infer"
    /\ publisher.at \in {"post", "insert"} => table.id # 0
    /\ publisher.at = "insert" => publisher.job \in Accepted /\ payload[publisher.job].op = "ingest"
    /\ publisher.at = "commit" => Current.kind \in {"ingest", "optimize", "refresh"}
    /\ publisher.at = "settle" => Current.kind # "infer"

\* A job is known to one publication, or to whoever is about to store it.
OneHand ==
    /\ \A n, m \in DOMAIN pubs : pubs[n].job = pubs[m].job => n = m
    /\ \A q \in Requests : handler[q].at = "insert" =>
         /\ \A n \in DOMAIN pubs : pubs[n].job # handler[q].job
         /\ \A r \in Requests : handler[r].at = "insert" /\ handler[r].job = handler[q].job => q = r
         /\ publisher.at = "insert" => publisher.job # handler[q].job
    /\ publisher.at = "insert" => \A n \in DOMAIN pubs : pubs[n].job # publisher.job

\* What is kept has been there, and a file was registered no later than where it is.
TablesFit ==
    /\ view.kept = DOMAIN view.snaps
    /\ table.kept \subseteq DOMAIN table.snaps
    /\ \A k \in DOMAIN table.snaps : \A e \in table.snaps[k].files : e.at \in 1 .. k

TInv == /\ Shape /\ IdsFit /\ HandlersFit /\ PubsFit /\ PublisherFits
        /\ OneHand /\ TablesFit

-----------------------------------------------------------------------------
(* Second part: what is in the table.                                      *)

\* A publication that may be committed again: it is pending, and its commit is not what
\* the publisher is just settling.
Replayable(n) ==
    /\ pubs[n].state = "pending"
    /\ ~(publisher.at \in {"settle", "fail", "mark"} /\ n = First(publisher.todo))

\* The snapshot of such a publication has not been expired.
Remembers ==
    \A n \in DOMAIN pubs : Replayable(n) =>
        \A k \in DOMAIN table.snaps : table.snaps[k].write = pubs[n].job
                                        => HasWrite(table, pubs[n].job)

RowsOf(j) == IF payload[j].op = "ingest" THEN {j} ELSE payload[j].rows

\* A file is where its job wrote it, in the snapshot that registered it.
FilesFit ==
    \A k \in DOMAIN table.snaps : \A e \in table.snaps[k].files :
        /\ table.snaps[e.at].write = e.path /\ table.snaps[e.at].op # "delete"
        /\ e.rows = RowsOf(e.path)

\* A snapshot was committed for a publication of this table, with the one before it if
\* that emptied the table for it.
SnapsFit ==
    /\ table.snaps # <<>> => Len(table.snaps) \in table.kept
    /\ \A k \in DOMAIN table.snaps : \E n \in DOMAIN pubs :
         /\ pubs[n].job = table.snaps[k].write /\ pubs[n].table = table.id
         /\ pubs[n].kind \in {"ingest", "optimize"}
    /\ \A j, k \in DOMAIN table.snaps :
         table.snaps[j].write = table.snaps[k].write /\ j < k
           => k = j + 1 /\ table.snaps[j].op = "delete"
    /\ \A k \in DOMAIN table.snaps : table.snaps[k].op = "delete" => table.snaps[k].files = {}

InTable == {table.snaps[k].write : k \in DOMAIN table.snaps}

\* The files to be rewritten have been in the table, and the job has their rows.
Rewrites(j) ==
    /\ payload[j].files \subseteq Accepted
    /\ payload[j].rows = UNION {RowsOf(f) : f \in payload[j].files}

RewritesFit ==
    /\ \A q \in Requests :
         /\ q.op = "optimize" /\ handler[q].at = "post" /\ handler[q].table = table.id
              => handler[q].files \subseteq Paths(AllEntries)
         /\ q.op = "optimize" /\ handler[q].at = "insert" /\ handler[q].table = table.id
              => Rewrites(handler[q].job)
    /\ \A n \in DOMAIN pubs : pubs[n].kind = "optimize" /\ pubs[n].table = table.id
         => Rewrites(pubs[n].job)

\* Files that are gone, or that somebody has decided to remove.
OfDeletes  == UNION {payload[j].files : j \in {k \in Jobs : payload[k].op = "delete"}}
OfExpiries == UNION {handler[q].files : q \in {r \in Requests : r.op = "expire" /\ handler[r].at = "post"}}
Doomed     == deleted \cup (OfDeletes \cup OfExpiries)

DoomFits ==
    /\ table.live => (ReferencedFiles(table) \cup Paths(CurrentFiles(table))) \cap Doomed = {}
    /\ \A w \in Doomed : \E n \in DOMAIN pubs :
         pubs[n].job = w /\ (pubs[n].table = table.id => w \in InTable)

PInv == FilesFit /\ SnapsFit /\ RewritesFit /\ RowsOnce /\ DoomFits

-----------------------------------------------------------------------------
(* Facts used throughout.                                                  *)

\* What is assumed of the constants.
LEMMA ConstantFacts ==
    /\ MaxJobs \in Nat \ {0} /\ RetainLast \in Nat \ {0} /\ MaxFaults \in Nat
    /\ PassSize \in Nat \ {0} /\ Jobs = 1 .. MaxJobs /\ Jobs \subseteq Nat \ {0}
    /\ \A q \in Requests : /\ q.op \in {"complete", "optimize", "expire", "drop", "refresh"}
                           /\ q.op = "complete" => q.of \in Imports
                           /\ q.op \in {"optimize", "expire", "refresh"} <=> q \in Maintenance
    /\ Existing \in BOOLEAN
BY PublicationsAssumption DEF Jobs, Maintenance

\* A request does not touch the publisher, and may only add a publication.
LEMMA ServeKeeps ==
    ASSUME NEW q \in Requests, Serve(q)
    PROVE  publisher' = publisher /\ (pubs' = pubs \/ InsertPublication(q))
<1>1. CASE Arrive(q) \/ Queue(q) \/ NotUploaded(q)
  BY <1>1 DEF Arrive, Queue, NotUploaded
<1>2. CASE PlanOptimize(q) \/ PlanExpire(q) \/ FindAppended(q)
  BY <1>2 DEF PlanOptimize, PlanExpire, FindAppended
<1>3. CASE PlanRefresh(q) \/ PostJob(q) \/ DropTable(q)
  BY <1>3 DEF PlanRefresh, PostJob, DropTable
<1>4. CASE InsertPublication(q)
  BY <1>4 DEF InsertPublication
<1> QED BY <1>1, <1>2, <1>3, <1>4 DEF Serve

\* A set of numbers that is not empty has a least one.
LEMMA FirstFacts ==
    ASSUME NEW S \in SUBSET Nat, S # {}
    PROVE  First(S) \in S /\ \A k \in S : First(S) <= k
<1> DEFINE R == OpToRel(<, Nat)
<1>1. IsWellFoundedOn(R, Nat)
  BY NatLessThanWellFounded
<1>2. \A x, y \in Nat : <<y, x>> \in R <=> y < x
  BY DEF OpToRel
<1> HIDE DEF R
<1>3. PICK z \in S : \A y \in S : ~ (<<y, z>> \in R)
  BY <1>1, WFMin
<1>4. ASSUME NEW k \in S PROVE z <= k
  <2>1. z \in Nat /\ k \in Nat /\ ~ (<<k, z>> \in R)
    BY <1>3
  <2>2. ~ (k < z)
    BY <1>2, <2>1
  <2> QED BY <2>1, <2>2
<1> QED BY <1>3, <1>4 DEF First

\* The next job is one that nobody has submitted.
LEMMA NextJobFacts ==
    ASSUME \E j \in Jobs : status[j] = "absent"
    PROVE  NextJob \in Jobs /\ NextJob \notin Accepted
<1> DEFINE S == {j \in Jobs : status[j] = "absent"}
<1>1. S \in SUBSET Nat /\ S # {}
  BY ConstantFacts
<1>2. First(S) \in S /\ \A k \in S : First(S) <= k
  BY <1>1, FirstFacts
<1>3. First(S) \in Jobs /\ status[First(S)] = "absent"
  BY <1>2
<1>5. ASSUME NEW k \in Jobs, k < First(S) PROVE status[k] # "absent"
  <2>1. k \in Nat /\ First(S) \in Nat
    BY <1>3, ConstantFacts
  <2>2. ~ (First(S) <= k)
    BY <1>5, <2>1
  <2> QED BY <1>2, <2>2
<1> HIDE DEF S
<1>4. \E j \in Jobs : status[j] = "absent" /\ \A k \in Jobs : k < j => status[k] # "absent"
  BY <1>3, <1>5
<1> QED BY <1>4 DEF NextJob, Accepted

-----------------------------------------------------------------------------
(* First part.                                                             *)

\* Ids, jobs and what is asked of them, and the mode of an import, are never taken back.
Grows ==
    /\ table.id <= table'.id
    /\ \A i \in Imports : import[i] # "none" => import'[i] # "none" /\ mode'[i] = mode[i]
    /\ \A j \in Accepted : j \in Accepted' /\ payload'[j] = payload[j]

\* So what a handler has found out stays true.
LEMMA HandlerFitsGrows ==
    ASSUME Shape, Shape', Grows, NEW q \in Requests, NEW h \in Handlers, HandlerFits(q, h)
    PROVE  HandlerFits(q, h)'
<1>1. /\ table.id \in Nat /\ table'.id \in Nat /\ table.id <= table'.id
      /\ h.table \in Nat /\ h.info.id \in Nat /\ h.source.id \in Nat
  BY DEF Shape, Tables, Handlers, Source, Grows
<1>2. h.table <= table'.id /\ h.info.id <= table'.id /\ h.source.id <= table'.id
  BY <1>1 DEF HandlerFits
<1>3. ASSUME h.at \notin {"start", "over"} PROVE JobOf(q)' = JobOf(q)
  BY <1>3, ConstantFacts DEF HandlerFits, JobOf, Grows
<1>4. ASSUME h.at \notin {"start", "over"}, q.op = "complete" PROVE import'[q.of] # "none"
  BY <1>4, ConstantFacts DEF HandlerFits, Grows
<1>5. ASSUME h.at = "insert" PROVE h.job \in Accepted' /\ payload'[h.job].op = JobOf(q)
  BY <1>5 DEF HandlerFits, Grows
<1> QED BY <1>2, <1>3, <1>4, <1>5 DEF HandlerFits

\* And so does a publication.
LEMMA PubFitsGrows ==
    ASSUME Shape, Shape', Grows, NEW p \in Pubs, PubFits(p)
    PROVE  PubFits(p)'
<1>1. /\ table.id \in Nat /\ table'.id \in Nat /\ table.id <= table'.id
      /\ p.table \in Nat /\ p.source.id \in Nat
  BY DEF Shape, Tables, Pubs, Source, Grows
<1>2. p.table <= table'.id /\ p.source.id <= table'.id
  BY <1>1 DEF PubFits
<1> QED BY <1>2 DEF PubFits, Grows

\* No handler moves.
LEMMA HandlersStay ==
    ASSUME Shape, Shape', Grows, HandlersFit, handler' = handler
    PROVE  HandlersFit'
<1> SUFFICES ASSUME NEW q \in Requests PROVE HandlerFits(q, handler[q])'
  BY DEF HandlersFit
<1>1. PICK h : h = handler[q]
  OBVIOUS
<1>2. h \in Handlers /\ HandlerFits(q, h)
  BY <1>1 DEF Shape, HandlersFit
<1>3. HandlerFits(q, h)'
  BY <1>2, HandlerFitsGrows
<1> QED BY <1>1, <1>3 DEF HandlerFits

\* One handler moves.
LEMMA HandlerMoves ==
    ASSUME Shape, Shape', Grows, HandlersFit, NEW r \in Requests, NEW g,
           handler' = [handler EXCEPT ![r] = g], HandlerFits(r, g)'
    PROVE  HandlersFit'
<1> SUFFICES ASSUME NEW q \in Requests PROVE HandlerFits(q, handler[q])'
  BY DEF HandlersFit
<1>1. PICK h : h = handler[q]
  OBVIOUS
<1>2. h \in Handlers /\ HandlerFits(q, h)
  BY <1>1 DEF Shape, HandlersFit
<1>3. HandlerFits(q, h)'
  BY <1>2, HandlerFitsGrows
<1>4. handler'[q] = IF q = r THEN g ELSE h
  BY <1>1 DEF Shape
<1> QED BY <1>3, <1>4 DEF HandlerFits

\* The publications stay, but for what has become of them.
LEMMA PubsStay ==
    ASSUME Shape, Shape', Grows, PubsFit, DOMAIN pubs' = DOMAIN pubs,
           \A n \in DOMAIN pubs : /\ pubs'[n].job = pubs[n].job /\ pubs'[n].kind = pubs[n].kind
                                  /\ pubs'[n].of = pubs[n].of /\ pubs'[n].table = pubs[n].table
                                  /\ pubs'[n].source = pubs[n].source
    PROVE  PubsFit'
<1> SUFFICES ASSUME NEW n \in DOMAIN pubs PROVE PubFits(pubs[n])'
  BY DEF PubsFit
<1>1. PICK p : p = pubs[n]
  OBVIOUS
<1>2. p \in Pubs /\ PubFits(p)
  BY <1>1, ElementOfSeq DEF Shape, PubsFit
<1>3. PubFits(p)'
  BY <1>2, PubFitsGrows
<1> QED BY <1>1, <1>3 DEF PubFits

\* A publication is stored.
LEMMA PubsAppended ==
    ASSUME Shape, Shape', Grows, PubsFit, NEW p, pubs' = Append(pubs, p), PubFits(p)'
    PROVE  PubsFit'
<1> SUFFICES ASSUME NEW n \in DOMAIN pubs' PROVE PubFits(pubs[n])'
  BY DEF PubsFit
<1>1. pubs \in Seq(Pubs) /\ Len(pubs) \in Nat /\ pubs' \in Seq(Pubs) /\ DOMAIN pubs = 1 .. Len(pubs)
  BY DEF Shape
<1>2. n \in DOMAIN pubs \/ n = Len(pubs) + 1
  BY <1>1
<1>3. CASE n \in DOMAIN pubs
  <2>1. PICK o : o = pubs[n]
    OBVIOUS
  <2>2. o \in Pubs /\ PubFits(o)
    BY <1>3, <2>1, ElementOfSeq DEF Shape, PubsFit
  <2>3. PubFits(o)'
    BY <2>2, PubFitsGrows
  <2>4. pubs'[n] = o
    BY <1>1, <1>3, <2>1
  <2> QED BY <2>3, <2>4 DEF PubFits
<1>4. CASE n = Len(pubs) + 1
  <2>1. pubs'[n] = p
    BY <1>1, <1>4
  <2> QED BY <2>1 DEF PubFits
<1> QED BY <1>2, <1>3, <1>4

\* The publisher does nothing while others work.
LEMMA PublisherStays ==
    ASSUME Shape, Shape', Grows, PublisherFits, publisher' = publisher,
           pubs' = pubs \/ \E p : pubs' = Append(pubs, p)
    PROVE  PublisherFits'
<1>1. publisher.todo \in SUBSET Nat /\ pubs \in Seq(Pubs)
  BY DEF Shape, Publishers
<1>2. \A n \in DOMAIN pubs : n \in DOMAIN pubs' /\ pubs'[n] = pubs[n]
  BY <1>1
<1>3. publisher.todo # {} => First(publisher.todo) \in publisher.todo
  BY <1>1, FirstFacts
<1>4. publisher.todo # {} => Current' = Current
  BY <1>2, <1>3 DEF Current, PublisherFits
<1>5. table.id # 0 => table'.id # 0
  BY DEF Shape, Tables, Grows
<1> QED BY <1>2, <1>4, <1>5 DEF PublisherFits, Grows

\* Nobody gets a job into hand.
LEMMA HandsStay ==
    ASSUME OneHand, DOMAIN pubs' = DOMAIN pubs, \A n \in DOMAIN pubs : pubs'[n].job = pubs[n].job,
           \A q \in Requests : handler'[q].at = "insert" => handler'[q] = handler[q],
           publisher'.at = "insert" => publisher' = publisher
    PROVE  OneHand'
BY DEF OneHand

\* One more snapshot.
LEMMA SnapshotAppended ==
    ASSUME NEW S \in Seq(Snaps), NEW s \in Snaps
    PROVE  /\ Append(S, s) \in Seq(Snaps) /\ Len(Append(S, s)) = Len(S) + 1
           /\ DOMAIN Append(S, s) = DOMAIN S \cup {Len(S) + 1}
           /\ \A k \in DOMAIN S : Append(S, s)[k] = S[k]
           /\ Append(S, s)[Len(S) + 1] = s /\ Len(S) + 1 \in Nat
<1>1. Len(S) \in Nat /\ DOMAIN S = 1 .. Len(S)
  OBVIOUS
<1>2. /\ Append(S, s) \in Seq(Snaps) /\ Len(Append(S, s)) = Len(S) + 1
      /\ DOMAIN Append(S, s) = 1 .. (Len(S) + 1)
      /\ \A k \in 1 .. Len(S) : Append(S, s)[k] = S[k]
      /\ Append(S, s)[Len(S) + 1] = s
  BY <1>1
<1> QED BY <1>1, <1>2

\* And the file it registers.
Entry(w, rows, n) == [path |-> w, rows |-> rows, at |-> n]
Snap(op, w, files) == [op |-> op, write |-> w, files |-> files]

\* What these are.
LEMMA EntryFacts ==
    /\ \A w \in Jobs, rows \in SUBSET Jobs, n \in Nat : Entry(w, rows, n) \in Files
    /\ \A w, rows, n : /\ Entry(w, rows, n).path = w /\ Entry(w, rows, n).rows = rows
                       /\ Entry(w, rows, n).at = n
    /\ \A op \in {"append", "overwrite", "delete"}, w \in Jobs, files \in SUBSET Files :
         Snap(op, w, files) \in Snaps
    /\ \A op, w, files : /\ Snap(op, w, files).op = op /\ Snap(op, w, files).write = w
                         /\ Snap(op, w, files).files = files
BY DEF Entry, Snap, Files, Snaps

\* What a table holds are files.
LEMMA FilesAreFiles ==
    ASSUME NEW t, t.snaps \in Seq(Snaps)
    PROVE  /\ CurrentFiles(t) \in SUBSET Files /\ Paths(CurrentFiles(t)) \in SUBSET Jobs
           /\ CurrentSnapshot(t) \in Nat
           /\ \A n \in DOMAIN t.snaps : FilesAt(t, n) \in SUBSET Files /\ FilesAt(t, n) = t.snaps[n].files
<1>1. \A n \in DOMAIN t.snaps : t.snaps[n] \in Snaps /\ n # 0
  BY ElementOfSeq
<1>2. \A n \in DOMAIN t.snaps : FilesAt(t, n) \in SUBSET Files /\ FilesAt(t, n) = t.snaps[n].files
  BY <1>1 DEF Snaps, FilesAt
<1>3. CurrentFiles(t) \in SUBSET Files
  <2>1. Len(t.snaps) \in Nat /\ (Len(t.snaps) # 0 => Len(t.snaps) \in DOMAIN t.snaps)
    OBVIOUS
  <2> QED BY <1>2, <2>1 DEF CurrentFiles, CurrentSnapshot, FilesAt
<1>4. Paths(CurrentFiles(t)) \in SUBSET Jobs
  BY <1>3 DEF Paths, Files
<1> QED BY <1>2, <1>3, <1>4 DEF CurrentSnapshot

\* The publications, the publisher and the jobs in hand, while others work.
LEMMA OthersStay ==
    ASSUME TInv, Shape', Grows, pubs' = pubs, publisher' = publisher,
           \A q \in Requests : handler'[q].at = "insert" => handler'[q] = handler[q]
    PROVE  PubsFit' /\ PublisherFits' /\ OneHand'
BY PubsStay, PublisherStays, HandsStay DEF TInv

\* The table is a table.
LEMMA TableKnows ==
    ASSUME TInv
    PROVE  /\ table \in Tables /\ table.id \in Nat /\ table.id <= table.id /\ table.live \in BOOLEAN
           /\ table.snaps \in Seq(Snaps) /\ table.kept \in SUBSET Nat /\ (table.live => table.id # 0)
           /\ view \in Views /\ view.snaps \in Seq(Snaps) /\ view.kept \in SUBSET Nat /\ view.since \in Source
BY DEF TInv, Shape, Tables, Views, IdsFit

\* Which job a request asks for.
LEMMA JobOfFacts ==
    ASSUME Shape, NEW q \in Requests, q.op # "drop"
    PROVE  /\ JobOf(q) \in Kinds
           /\ q.op = "complete" <=> JobOf(q) \in {"infer", "ingest"}
           /\ q.op = "optimize" <=> JobOf(q) = "optimize"
           /\ q.op = "refresh" <=> JobOf(q) = "refresh"
           /\ q.op = "expire" <=> JobOf(q) = "delete"
           /\ JobOf(q) = "ingest" => q.op = "complete" /\ mode[q.of] # "create"
           /\ JobOf(q) \notin {"infer", "ingest"} => q \in Maintenance
           /\ JobOf(q) \in {"infer", "ingest"} => q.of \in Imports
<1>1. /\ q.op \in {"complete", "optimize", "expire", "refresh"}
      /\ q.op = "complete" => q.of \in Imports
      /\ q.op \in {"optimize", "expire", "refresh"} => q \in Maintenance
  BY ConstantFacts
<1>2. /\ q.op = "refresh" => JobOf(q) = "refresh"
      /\ q.op = "optimize" => JobOf(q) = "optimize"
      /\ q.op = "expire" => JobOf(q) = "delete"
      /\ q.op = "complete" => JobOf(q) = IF mode[q.of] = "create" THEN "infer" ELSE "ingest"
  BY DEF JobOf
<1> QED BY <1>1, <1>2 DEF Kinds

\* The rows a job finds in the files it is given.
LEMMA RowsAreJobs ==
    ASSUME Shape, NEW files
    PROVE  /\ AllEntries \in SUBSET Files
           /\ Rows({e \in AllEntries : e.path \in files}) \in SUBSET Jobs
<1>1. table.snaps \in Seq(Snaps)
  BY DEF Shape, Tables
<1>2. \A n \in DOMAIN table.snaps : FilesAt(table, n) \in SUBSET Files
  BY <1>1, FilesAreFiles
<1>3. AllEntries \in SUBSET Files
  BY <1>2 DEF AllEntries
<1> QED BY <1>3 DEF Rows, Files

\* A job is accepted.
LEMMA PostFacts ==
    ASSUME Shape, NEW op \in Kinds, NEW files \in SUBSET Jobs, Post(op, files)
    PROVE  /\ NextJob \in Jobs /\ NextJob \notin Accepted /\ Accepted' = Accepted \cup {NextJob}
           /\ status' \in [Jobs -> {"absent", "pending"} \cup Contract!Outcomes]
           /\ payload' \in [Jobs -> Works]
           /\ payload'[NextJob].op = op /\ payload'[NextJob].files = files
           /\ payload'[NextJob].rows = Rows({e \in AllEntries : e.path \in files})
           /\ \A j \in Accepted : j \in Accepted' /\ payload'[j] = payload[j]
<1>1. NextJob \in Jobs /\ NextJob \notin Accepted
  BY NextJobFacts DEF Post
<1>2. Rows({e \in AllEntries : e.path \in files}) \in SUBSET Jobs
  BY RowsAreJobs
<1>3. status' = [status EXCEPT ![NextJob] = "pending"] /\ status \in [Jobs -> {"absent", "pending"} \cup Contract!Outcomes]
  BY DEF Post, Contract!Accept, Shape
<1>4. /\ status' \in [Jobs -> {"absent", "pending"} \cup Contract!Outcomes]
      /\ Accepted' = Accepted \cup {NextJob}
  BY <1>1, <1>3 DEF Accepted
<1> DEFINE rows == Rows({e \in AllEntries : e.path \in files})
           w == [op |-> op, files |-> files, rows |-> rows]
<1>5. payload' = [payload EXCEPT ![NextJob] = w] /\ payload \in [Jobs -> Works]
  BY DEF Post, Shape
<1>6. w \in Works
  <2> HIDE DEF rows
  <2> QED BY <1>2 DEF Works, Kinds, rows
<1>7. payload' \in [Jobs -> Works] /\ payload'[NextJob] = w /\ \A j \in Jobs : j # NextJob => payload'[j] = payload[j]
  <2> HIDE DEF w
  <2> QED BY <1>1, <1>5, <1>6
<1> QED BY <1>1, <1>4, <1>7 DEF Accepted

-----------------------------------------------------------------------------
(* The requests.                                                           *)

\* An import is created.
LEMMA CreateImportInv == ASSUME TInv, NEW i \in Imports, CreateImport(i) PROVE TInv'
<1>1. PICK m \in Modes[i] : mode' = [mode EXCEPT ![i] = m]
  BY DEF CreateImport
<1>2. m \in {"create", "append", "overwrite"}
  BY PublicationsAssumption
<1>3. /\ import[i] = "none" /\ import' = [import EXCEPT ![i] = "awaiting_upload"]
      /\ UNCHANGED <<table, view, deleted, run, compute, pubs, handler, publisher, faults>>
  BY DEF CreateImport
<1>4. Shape'
  BY <1>1, <1>2, <1>3 DEF TInv, Shape, Imported, compute
<1>5. Grows
  BY <1>1, <1>3 DEF TInv, Shape, Tables, Grows, Accepted, compute
<1>6. HandlersFit'
  BY <1>3, <1>4, <1>5, HandlersStay DEF TInv
<1>7. PubsFit' /\ PublisherFits' /\ OneHand'
  BY <1>3, <1>4, <1>5, OthersStay
<1>8. IdsFit' /\ TablesFit'
  BY <1>3 DEF TInv, IdsFit, TablesFit
<1> QED BY <1>4, <1>6, <1>7, <1>8 DEF TInv

\* A request arrives.
LEMMA ArriveInv == ASSUME TInv, NEW q \in Requests, Arrive(q) PROVE TInv'
<1>1. UNCHANGED <<table, view, deleted, records, compute, pubs, publisher, faults>>
  BY DEF Arrive
<1>2. PICK g : /\ handler' = [handler EXCEPT ![q] = g]
               /\ g.at \in {"work", "over"} /\ g \in Handlers
               /\ g.table \in {handler[q].table, table.id} /\ g.info \in {handler[q].info, view.since}
               /\ g.source = handler[q].source
               /\ g.at = "work" => q.op # "drop" /\ (q.op = "complete" => import[q.of] # "none")
  <2>1. handler[q] \in Handlers /\ handler \in [Requests -> Handlers] /\ table.id \in Nat /\ view.since \in Source
    BY DEF TInv, Shape, Tables, Views
  <2>2. CASE q.op = "complete" /\ import[q.of] # "none" /\ At(q, IF import[q.of] = "awaiting_upload" THEN "work" ELSE "over")
    <3> WITNESS [handler[q] EXCEPT !.at = IF import[q.of] = "awaiting_upload" THEN "work" ELSE "over"]
    <3> QED BY <2>1, <2>2 DEF At, Handlers
  <2>3. CASE /\ q.op \in {"optimize", "expire"}
             /\ handler' = [handler EXCEPT ![q].at = IF Running(table.id) THEN "over" ELSE "work",
                                           ![q].table = table.id]
    <3> WITNESS [handler[q] EXCEPT !.at = IF Running(table.id) THEN "over" ELSE "work", !.table = table.id]
    <3> QED BY <2>1, <2>3 DEF Handlers
  <2>4. CASE /\ q.op = "refresh"
             /\ handler' = [handler EXCEPT ![q].at = IF Running(0) THEN "over" ELSE "work",
                                           ![q].info = view.since]
    <3> WITNESS [handler[q] EXCEPT !.at = IF Running(0) THEN "over" ELSE "work", !.info = view.since]
    <3> QED BY <2>1, <2>4 DEF Handlers
  <2> QED BY <2>2, <2>3, <2>4 DEF Arrive
<1>3. Shape'
  BY <1>1, <1>2 DEF TInv, Shape, records, compute
<1>4. Grows
  BY <1>1 DEF TInv, Shape, Tables, Grows, Accepted, records, compute
<1>5. HandlersFit'
  <2>1. table'.id = table.id /\ import' = import /\ mode' = mode /\ status' = status /\ payload' = payload
    BY <1>1 DEF records, compute
  <2>2. g.table <= table.id /\ g.info.id <= table.id /\ g.source.id <= table.id
    <3>1. HandlerFits(q, handler[q]) /\ view.since.id <= table.id /\ table.id \in Nat
      BY DEF TInv, HandlersFit, IdsFit, Shape, Tables
    <3> QED BY <1>2, <3>1 DEF HandlerFits
  <2>3. HandlerFits(q, g)'
    BY <1>2, <2>1, <2>2 DEF HandlerFits
  <2> QED BY <1>2, <1>3, <1>4, <2>3, HandlerMoves DEF TInv
<1>6. \A r \in Requests : handler'[r].at = "insert" => handler'[r] = handler[r]
  BY <1>2 DEF TInv, Shape
<1>7. PubsFit' /\ PublisherFits' /\ OneHand'
  BY <1>1, <1>3, <1>4, <1>6, OthersStay
<1>8. IdsFit' /\ TablesFit'
  BY <1>1 DEF TInv, IdsFit, TablesFit, records
<1> QED BY <1>3, <1>5, <1>7, <1>8 DEF TInv

\* A handler moves, and has no job in hand.
LEMMA HandlerStep ==
    ASSUME TInv, Shape', Grows, pubs' = pubs, publisher' = publisher,
           NEW q \in Requests, NEW g, handler' = [handler EXCEPT ![q] = g], g.at # "insert",
           HandlerFits(q, g)'
    PROVE  HandlersFit' /\ PubsFit' /\ PublisherFits' /\ OneHand'
<1>1. HandlersFit'
  BY HandlerMoves DEF TInv
<1>2. \A r \in Requests : handler'[r].at = "insert" => handler'[r] = handler[r]
  BY DEF TInv, Shape
<1> QED BY <1>1, <1>2, OthersStay

\* A handler that is at work knows no table that does not exist yet.
LEMMA HandlerKnows ==
    ASSUME TInv, NEW q \in Requests
    PROVE  /\ handler[q] \in Handlers /\ handler \in [Requests -> Handlers] /\ HandlerFits(q, handler[q])
           /\ handler[q].table <= table.id /\ handler[q].info.id <= table.id /\ handler[q].source.id <= table.id
           /\ table.id \in Nat /\ table \in Tables /\ table.snaps \in Seq(Snaps)
           /\ table.live \in BOOLEAN /\ table.kept \in SUBSET Nat
BY DEF TInv, Shape, HandlersFit, HandlerFits, Tables

\* A request that is over changes nothing else of its handler, nor of another.
LEMMA OverFacts ==
    ASSUME TInv, NEW q \in Requests, EndRequest(q)
    PROVE  /\ handler' \in [Requests -> Handlers]
           /\ handler'[q] = [handler[q] EXCEPT !.at = "over"] /\ handler'[q].at = "over"
           /\ \A r \in Requests : r # q => handler'[r] = handler[r]
<1>1. PICK h \in Handlers : h = handler[q]
  BY HandlerKnows
<1>2. PICK g : g = [h EXCEPT !.at = "over"]
  OBVIOUS
<1>3. g \in Handlers /\ g.at = "over"
  BY <1>2 DEF Handlers
<1>4. handler' = [handler EXCEPT ![q] = g]
  BY <1>1, <1>2, HandlerKnows DEF EndRequest, At
<1> QED BY <1>1, <1>2, <1>3, <1>4, HandlerKnows

\* The upload of an import is complete.
LEMMA QueueInv == ASSUME TInv, NEW q \in Requests, Queue(q) PROVE TInv'
<1>1. /\ handler[q].at = "work" /\ q.op = "complete"
      /\ import' = [import EXCEPT ![q.of] = "queued"]
      /\ UNCHANGED <<table, view, deleted, mode, run, compute, pubs, publisher, faults>>
  BY DEF Queue
<1>2. q.of \in Imports
  BY <1>1, ConstantFacts
<1>3. PICK g \in Handlers :
        /\ handler' = [handler EXCEPT ![q] = g]
        /\ \/ g.at = "over" /\ g.table = handler[q].table
           \/ g.at = "post" /\ g.table = table.id /\ (mode[q.of] = "create" \/ table.live)
        /\ g.info = handler[q].info /\ g.source = handler[q].source
  <2>1. CASE mode[q.of] = "create" \/ table.live
    <3> [handler[q] EXCEPT !.at = "post", !.table = table.id] \in Handlers
      BY HandlerKnows DEF Handlers
    <3> WITNESS [handler[q] EXCEPT !.at = "post", !.table = table.id] \in Handlers
    <3> QED BY <2>1, HandlerKnows DEF Queue, Handlers
  <2>2. CASE ~ (mode[q.of] = "create" \/ table.live)
    <3> [handler[q] EXCEPT !.at = "over"] \in Handlers
      BY HandlerKnows DEF Handlers
    <3> WITNESS [handler[q] EXCEPT !.at = "over"] \in Handlers
    <3> QED BY <2>2, HandlerKnows DEF Queue, Handlers, EndRequest, At
  <2> QED BY <2>1, <2>2
<1>4. Shape'
  BY <1>1, <1>2, <1>3 DEF TInv, Shape, Imported, compute
<1>5. Grows
  BY <1>1, <1>2 DEF TInv, Shape, Tables, Grows, Accepted, compute
<1>6. HandlerFits(q, g)'
  <2>1. /\ table'.id = table.id /\ mode' = mode /\ status' = status /\ payload' = payload
        /\ import'[q.of] # "none"
    BY <1>1, <1>2 DEF compute, TInv, Shape
  <2>2. g.table <= table.id /\ g.info.id <= table.id /\ g.source.id <= table.id
    BY <1>3, HandlerKnows
  <2>3. g.at = "post" /\ JobOf(q) = "ingest" => table.id # 0
    <3>1. q.op # "drop"
      BY <1>1
    <3>2. JobOf(q) = "ingest" => mode[q.of] # "create"
      BY <3>1, JobOfFacts DEF TInv
    <3> QED BY <1>3, <3>2 DEF TInv, IdsFit
  <2>4. JobOf(q)' = JobOf(q)
    BY <2>1 DEF JobOf
  <2> QED BY <1>1, <1>3, <2>1, <2>2, <2>3, <2>4 DEF HandlerFits
<1>7. HandlersFit' /\ PubsFit' /\ PublisherFits' /\ OneHand'
  BY <1>1, <1>3, <1>4, <1>5, <1>6, HandlerStep
<1>8. IdsFit' /\ TablesFit'
  BY <1>1 DEF TInv, IdsFit, TablesFit
<1> QED BY <1>4, <1>7, <1>8 DEF TInv

\* A request is over.
LEMMA EndFacts ==
    ASSUME TInv, Shape', Grows, NEW q \in Requests, EndRequest(q)
    PROVE  \E g \in Handlers : /\ handler' = [handler EXCEPT ![q] = g] /\ g.at = "over"
                               /\ HandlerFits(q, g)'
<1> DEFINE g == [handler[q] EXCEPT !.at = "over"]
<1>1. g \in Handlers /\ handler' = [handler EXCEPT ![q] = g]
  BY HandlerKnows DEF EndRequest, At, Handlers
<1>2. HandlerFits(q, g)
  BY HandlerKnows DEF HandlerFits, Handlers
<1> HIDE DEF g
<1>3. PICK h : h = g
  OBVIOUS
<1>4. HandlerFits(q, h)'
  BY <1>1, <1>2, <1>3, HandlerFitsGrows DEF TInv
<1>5. h.at = "over"
  BY <1>3, HandlerKnows DEF g, Handlers
<1> QED BY <1>1, <1>3, <1>4, <1>5

\* The upload is not there.
LEMMA NotUploadedInv == ASSUME TInv, NEW q \in Requests, NotUploaded(q) PROVE TInv'
<1>1. /\ EndRequest(q)
      /\ UNCHANGED <<table, view, deleted, records, compute, pubs, publisher, faults>>
  BY DEF NotUploaded
<1>2. Shape'
  <2>1. handler' \in [Requests -> Handlers]
    <3>1. handler \in [Requests -> Handlers] /\ handler' = [handler EXCEPT ![q].at = "over"]
      BY <1>1, HandlerKnows DEF EndRequest, At
    <3> QED BY <3>1 DEF Handlers
  <2> QED BY <1>1, <2>1 DEF TInv, Shape, records, compute
<1>3. Grows
  BY <1>1 DEF TInv, Shape, Tables, Grows, Accepted, records, compute
<1>4. PICK g \in Handlers : /\ handler' = [handler EXCEPT ![q] = g] /\ g.at = "over"
                            /\ HandlerFits(q, g)'
  BY <1>1, <1>2, <1>3, EndFacts
<1>5. HandlersFit' /\ PubsFit' /\ PublisherFits' /\ OneHand'
  BY <1>1, <1>2, <1>3, <1>4, HandlerStep
<1>6. IdsFit' /\ TablesFit'
  BY <1>1 DEF TInv, IdsFit, TablesFit, records
<1> QED BY <1>2, <1>5, <1>6 DEF TInv

\* The files of an optimize are planned.
LEMMA PlanOptimizeInv == ASSUME TInv, NEW q \in Requests, PlanOptimize(q) PROVE TInv'
<1>1. /\ handler[q].at = "work" /\ q.op = "optimize" /\ q \in Maintenance
      /\ UNCHANGED <<table, view, deleted, import, mode, compute, pubs, publisher, faults>>
  BY ConstantFacts DEF PlanOptimize
<1>2. PICK g \in Handlers, r \in [Maintenance -> Runs] :
        /\ handler' = [handler EXCEPT ![q] = g] /\ run' = r
        /\ g.at \in {"over", "post"} /\ g.table = handler[q].table
        /\ g.info = handler[q].info /\ g.source = handler[q].source
        /\ \A x \in Maintenance : r[x].table \in {run[x].table, table.id}
  <2>0. run \in [Maintenance -> Runs] /\ table.id \in Nat
    BY DEF TInv, Shape, Tables
  <2>1. CASE ~IsThere(handler[q].table)
    <3>1. run' = run /\ handler' = [handler EXCEPT ![q] = [handler[q] EXCEPT !.at = "over"]]
      BY <2>1 DEF PlanOptimize, EndRequest, At
    <3> [handler[q] EXCEPT !.at = "over"] \in Handlers /\ run \in [Maintenance -> Runs]
      BY <2>0, HandlerKnows DEF Handlers
    <3> WITNESS [handler[q] EXCEPT !.at = "over"] \in Handlers, run \in [Maintenance -> Runs]
    <3> QED BY <2>0, <3>1, HandlerKnows DEF Handlers
  <2>2. CASE IsThere(handler[q].table)
    <3>1. PICK old \in SUBSET Paths(CurrentFiles(table)) :
            /\ run' = [run EXCEPT ![q] = [table |-> table.id,
                                          status |-> IF old = {} THEN "skipped" ELSE "running"]]
            /\ handler' = [handler EXCEPT ![q].at = IF old = {} THEN "over" ELSE "post",
                                          ![q].files = old]
      BY <2>2 DEF PlanOptimize
    <3>2. old \in SUBSET Jobs
      BY FilesAreFiles, HandlerKnows
    <3> DEFINE g == [handler[q] EXCEPT !.at = IF old = {} THEN "over" ELSE "post", !.files = old]
    <3>3. /\ g \in Handlers /\ handler' = [handler EXCEPT ![q] = g]
          /\ g.at \in {"over", "post"} /\ g.table = handler[q].table
          /\ g.info = handler[q].info /\ g.source = handler[q].source
      BY <3>1, <3>2, HandlerKnows DEF Handlers
    <3>4. run' \in [Maintenance -> Runs] /\ \A x \in Maintenance : run'[x].table \in {run[x].table, table.id}
      BY <1>1, <2>0, <3>1 DEF Runs
    <3> HIDE DEF g
    <3> QED BY <3>3, <3>4
  <2> QED BY <2>1, <2>2
<1>3. Shape'
  BY <1>1, <1>2 DEF TInv, Shape, compute
<1>4. Grows
  BY <1>1 DEF TInv, Shape, Tables, Grows, Accepted, compute
<1>5. HandlerFits(q, g)'
  <2>1. table'.id = table.id /\ import' = import /\ mode' = mode /\ status' = status /\ payload' = payload
    BY <1>1 DEF compute
  <2>2. g.table <= table.id /\ g.info.id <= table.id /\ g.source.id <= table.id
    BY <1>2, HandlerKnows
  <2>3. JobOf(q)' # "ingest"
    BY <1>1 DEF JobOf
  <2> QED BY <1>1, <1>2, <2>1, <2>2, <2>3 DEF HandlerFits
<1>6. HandlersFit' /\ PubsFit' /\ PublisherFits' /\ OneHand'
  BY <1>1, <1>2, <1>3, <1>4, <1>5, HandlerStep
<1>7. IdsFit' /\ TablesFit'
  <2>1. \A x \in Maintenance : run'[x].table <= table.id
    BY <1>2, HandlerKnows DEF TInv, IdsFit
  <2> QED BY <1>1, <2>1 DEF TInv, IdsFit, TablesFit
<1> QED BY <1>3, <1>6, <1>7 DEF TInv

\* Snapshots are forgotten.
LEMMA PlanExpireInv == ASSUME TInv, NEW q \in Requests, PlanExpire(q) PROVE TInv'
<1>1. /\ handler[q].at = "work" /\ q.op = "expire" /\ q \in Maintenance
      /\ UNCHANGED <<view, deleted, import, mode, compute, pubs, publisher, faults>>
  BY ConstantFacts DEF PlanExpire
<1>2. PICK g \in Handlers, r \in [Maintenance -> Runs], kept \in SUBSET table.kept :
        /\ handler' = [handler EXCEPT ![q] = g] /\ run' = r /\ table' = [table EXCEPT !.kept = kept]
        /\ g.at \in {"over", "post"} /\ g.table = handler[q].table
        /\ g.info = handler[q].info /\ g.source = handler[q].source
        /\ \A x \in Maintenance : r[x].table \in {run[x].table, table.id}
  <2>0. run \in [Maintenance -> Runs] /\ table.id \in Nat
    BY DEF TInv, Shape, Tables
  <2>1. CASE ~IsThere(handler[q].table)
    <3>1. /\ run' = run /\ handler' = [handler EXCEPT ![q] = [handler[q] EXCEPT !.at = "over"]]
          /\ table' = [table EXCEPT !.kept = table.kept]
      BY <2>1, HandlerKnows DEF PlanExpire, EndRequest, At, Tables
    <3> [handler[q] EXCEPT !.at = "over"] \in Handlers /\ run \in [Maintenance -> Runs]
      BY <2>0, HandlerKnows DEF Handlers
    <3> WITNESS [handler[q] EXCEPT !.at = "over"] \in Handlers, run \in [Maintenance -> Runs],
                table.kept \in SUBSET table.kept
    <3> QED BY <2>0, <3>1, HandlerKnows DEF Handlers
  <2>2. CASE IsThere(handler[q].table)
    <3>1. PICK n \in 1 .. (CurrentSnapshot(table) + 1) :
            /\ table' = Expired(table, n)
            /\ run' = [run EXCEPT ![q] = [table |-> table.id,
                         status |-> IF Unreferenced(table, n) = {} THEN "succeeded" ELSE "running"]]
            /\ handler' = [handler EXCEPT ![q].at = IF Unreferenced(table, n) = {} THEN "over" ELSE "post",
                                          ![q].files = Unreferenced(table, n)]
      BY <2>2 DEF PlanExpire
    <3>2. Unreferenced(table, n) \in SUBSET Jobs
      <4>1. UNION {FilesAt(table, k) : k \in table.kept} \in SUBSET Files
        BY FilesAreFiles, HandlerKnows DEF TInv, TablesFit
      <4> QED BY <4>1 DEF Unreferenced, ReferencedFiles, Paths, Files
    <3> DEFINE paths == Unreferenced(table, n)
               g == [handler[q] EXCEPT !.at = IF paths = {} THEN "over" ELSE "post", !.files = paths]
    <3>3. /\ g \in Handlers /\ handler' = [handler EXCEPT ![q] = g]
          /\ g.at \in {"over", "post"} /\ g.table = handler[q].table
          /\ g.info = handler[q].info /\ g.source = handler[q].source
      <4> HIDE DEF paths
      <4> QED BY <3>1, <3>2, HandlerKnows DEF Handlers, paths
    <3>4. run' \in [Maintenance -> Runs] /\ \A x \in Maintenance : run'[x].table \in {run[x].table, table.id}
      BY <1>1, <2>0, <3>1 DEF Runs
    <3>5. /\ {k \in table.kept : k >= n} \in SUBSET table.kept
          /\ table' = [table EXCEPT !.kept = {k \in table.kept : k >= n}]
      BY <3>1 DEF Expired
    <3> HIDE DEF g
    <3> QED BY <3>3, <3>4, <3>5
  <2> QED BY <2>1, <2>2
<1>3. /\ table' \in Tables /\ table'.id = table.id /\ table'.live = table.live
      /\ table'.snaps = table.snaps /\ table'.kept = kept
  BY <1>2, HandlerKnows DEF Tables
<1>4. Shape'
  BY <1>1, <1>2, <1>3 DEF TInv, Shape, compute
<1>5. Grows
  BY <1>1, <1>3 DEF TInv, Shape, Tables, Grows, Accepted, compute
<1>6. HandlerFits(q, g)'
  <2>1. table'.id = table.id /\ import' = import /\ mode' = mode /\ status' = status /\ payload' = payload
    BY <1>1, <1>3 DEF compute
  <2>2. g.table <= table.id /\ g.info.id <= table.id /\ g.source.id <= table.id
    BY <1>2, HandlerKnows
  <2>3. JobOf(q)' # "ingest"
    BY <1>1 DEF JobOf
  <2> QED BY <1>1, <1>2, <2>1, <2>2, <2>3 DEF HandlerFits
<1>7. HandlersFit' /\ PubsFit' /\ PublisherFits' /\ OneHand'
  BY <1>1, <1>2, <1>4, <1>5, <1>6, HandlerStep
<1>8. IdsFit' /\ TablesFit'
  <2>1. \A x \in Maintenance : run'[x].table <= table.id
    BY <1>2, HandlerKnows DEF TInv, IdsFit
  <2> QED BY <1>1, <1>3, <2>1 DEF TInv, IdsFit, TablesFit
<1> QED BY <1>4, <1>7, <1>8 DEF TInv

\* What has been appended comes from the table.
LEMMA AppendedFacts ==
    ASSUME NEW t, t.snaps \in Seq(Snaps), NEW n
    PROVE  AppendedSince(t, n).full \in BOOLEAN /\ AppendedSince(t, n).paths \in SUBSET Jobs
BY FilesAreFiles DEF AppendedSince, Paths, Files

\* What has been appended is looked up.
LEMMA FindAppendedInv == ASSUME TInv, NEW q \in Requests, FindAppended(q) PROVE TInv'
<1>1. /\ handler[q].at = "work" /\ q.op = "refresh" /\ q \in Maintenance
      /\ UNCHANGED <<table, view, deleted, import, mode, compute, pubs, publisher, faults>>
  BY ConstantFacts DEF FindAppended
<1>2. PICK full \in BOOLEAN, paths \in SUBSET Jobs :
        /\ handler' = [handler EXCEPT ![q].at = IF ~full /\ paths = {} THEN "over" ELSE "plan",
                                      ![q].full = full, ![q].files = paths]
        /\ run' = IF ~full /\ paths = {} THEN [run EXCEPT ![q].status = "skipped"] ELSE run
  <2> DEFINE info == handler[q].info
             added == IF ~q.of /\ table.live /\ info.id = table.id THEN AppendedSince(table, info.n)
                      ELSE [full |-> TRUE, paths |-> {}]
  <2>1. added.full \in BOOLEAN /\ added.paths \in SUBSET Jobs
    BY AppendedFacts, HandlerKnows
  <2>2. /\ handler' = [handler EXCEPT ![q].at = IF ~added.full /\ added.paths = {} THEN "over" ELSE "plan",
                                      ![q].full = added.full, ![q].files = added.paths]
        /\ run' = IF ~added.full /\ added.paths = {} THEN [run EXCEPT ![q].status = "skipped"] ELSE run
    BY DEF FindAppended
  <2> HIDE DEF added
  <2> QED BY <2>1, <2>2
<1>3. PICK g \in Handlers :
        /\ handler' = [handler EXCEPT ![q] = g]
        /\ g.at \in {"over", "plan"} /\ g.table = handler[q].table
        /\ g.info = handler[q].info /\ g.source = handler[q].source
  <2> DEFINE g == [handler[q] EXCEPT !.at = IF ~full /\ paths = {} THEN "over" ELSE "plan",
                                     !.full = full, !.files = paths]
  <2>1. /\ g \in Handlers /\ handler' = [handler EXCEPT ![q] = g]
        /\ g.at \in {"over", "plan"} /\ g.table = handler[q].table
        /\ g.info = handler[q].info /\ g.source = handler[q].source
    BY <1>2, HandlerKnows DEF Handlers
  <2> HIDE DEF g
  <2> QED BY <2>1
<1>4. run' \in [Maintenance -> Runs] /\ \A x \in Maintenance : run'[x].table = run[x].table
  BY <1>1, <1>2 DEF TInv, Shape, Runs
<1>5. Shape'
  BY <1>1, <1>3, <1>4 DEF TInv, Shape, compute
<1>6. Grows
  BY <1>1 DEF TInv, Shape, Tables, Grows, Accepted, compute
<1>7. HandlerFits(q, g)'
  <2>1. table'.id = table.id /\ import' = import /\ mode' = mode /\ status' = status /\ payload' = payload
    BY <1>1 DEF compute
  <2>2. g.table <= table.id /\ g.info.id <= table.id /\ g.source.id <= table.id
    BY <1>3, HandlerKnows
  <2> QED BY <1>1, <1>3, <2>1, <2>2 DEF HandlerFits
<1>8. HandlersFit' /\ PubsFit' /\ PublisherFits' /\ OneHand'
  BY <1>1, <1>3, <1>5, <1>6, <1>7, HandlerStep
<1>9. IdsFit' /\ TablesFit'
  BY <1>1, <1>4 DEF TInv, IdsFit, TablesFit
<1> QED BY <1>5, <1>8, <1>9 DEF TInv

\* A refresh is planned.
LEMMA PlanRefreshInv == ASSUME TInv, NEW q \in Requests, PlanRefresh(q) PROVE TInv'
<1>1. /\ handler[q].at = "plan" /\ q.op = "refresh" /\ q \in Maintenance
      /\ UNCHANGED <<table, view, deleted, import, mode, compute, pubs, publisher, faults>>
  BY HandlerKnows, ConstantFacts DEF PlanRefresh, HandlerFits
<1>2. PICK g \in Handlers :
        /\ handler' = [handler EXCEPT ![q] = g]
        /\ g.at \in {"over", "post"} /\ g.table = handler[q].table
        /\ g.info = handler[q].info /\ g.source.id <= table.id
  <2>1. CASE ~table.live
    <3> DEFINE g == [handler[q] EXCEPT !.at = "over"]
    <3>1. /\ g \in Handlers /\ handler' = [handler EXCEPT ![q] = g]
          /\ g.at \in {"over", "post"} /\ g.table = handler[q].table
          /\ g.info = handler[q].info /\ g.source.id <= table.id
      BY <2>1, HandlerKnows DEF PlanRefresh, EndRequest, At, Handlers
    <3> HIDE DEF g
    <3> QED BY <3>1
  <2>2. CASE table.live
    <3> DEFINE files == IF handler[q].full THEN Paths(CurrentFiles(table))
                        ELSE handler[q].files \cap Paths(CurrentFiles(table))
               source == [id |-> table.id, n |-> CurrentSnapshot(table)]
               g == [handler[q] EXCEPT !.at = "post", !.files = files, !.source = source]
    <3>1. files \in SUBSET Jobs /\ source \in Source /\ source.id = table.id
      BY FilesAreFiles, HandlerKnows DEF Source
    <3>2. handler' = [handler EXCEPT ![q].at = "post", ![q].files = files, ![q].source = source]
      BY <2>2 DEF PlanRefresh
    <3> HIDE DEF files, source
    <3>3. /\ g \in Handlers /\ handler' = [handler EXCEPT ![q] = g]
          /\ g.at \in {"over", "post"} /\ g.table = handler[q].table
          /\ g.info = handler[q].info /\ g.source = source
      BY <3>1, <3>2, HandlerKnows DEF Handlers
    <3>4. g.source.id <= table.id
      BY <3>1, <3>3, HandlerKnows
    <3> HIDE DEF g
    <3> QED BY <3>3, <3>4
  <2> QED BY <2>1, <2>2
<1>3. run' \in [Maintenance -> Runs] /\ \A x \in Maintenance : run'[x].table = run[x].table
  <2>1. run \in [Maintenance -> Runs] /\ (run' = run \/ run' = [run EXCEPT ![q].status = "running"])
    BY DEF PlanRefresh, TInv, Shape
  <2> QED BY <1>1, <2>1 DEF Runs
<1>4. Shape'
  BY <1>1, <1>2, <1>3 DEF TInv, Shape, compute
<1>5. Grows
  BY <1>1 DEF TInv, Shape, Tables, Grows, Accepted, compute
<1>6. HandlerFits(q, g)'
  <2>1. table'.id = table.id /\ import' = import /\ mode' = mode /\ status' = status /\ payload' = payload
    BY <1>1 DEF compute
  <2>2. g.table <= table.id /\ g.info.id <= table.id
    BY <1>2, HandlerKnows
  <2>3. JobOf(q)' # "ingest"
    BY <1>1 DEF JobOf
  <2> QED BY <1>1, <1>2, <2>1, <2>2, <2>3 DEF HandlerFits
<1>7. HandlersFit' /\ PubsFit' /\ PublisherFits' /\ OneHand'
  BY <1>1, <1>2, <1>4, <1>5, <1>6, HandlerStep
<1>8. IdsFit' /\ TablesFit'
  BY <1>1, <1>3 DEF TInv, IdsFit, TablesFit
<1> QED BY <1>4, <1>7, <1>8 DEF TInv

\* The table is dropped.
LEMMA DroppedFacts ==
    ASSUME TInv
    PROVE  /\ Dropped \in Tables /\ Dropped.id = table.id /\ Dropped.snaps = table.snaps
           /\ Dropped.kept = table.kept /\ Dropped.live = FALSE
           /\ \A id : /\ RunsWithout(id) \in [Maintenance -> Runs]
                      /\ \A x \in Maintenance : RunsWithout(id)[x].table <= table.id
<1>1. NoRun \in Runs /\ NoRun.table = 0 /\ 0 <= table.id
  BY HandlerKnows DEF NoRun, Runs, TInv, Shape, Tables
<1> QED BY <1>1 DEF Dropped, RunsWithout, TInv, Shape, Tables, IdsFit

\* The owner drops the table.
LEMMA DropTableInv == ASSUME TInv, NEW q \in Requests, DropTable(q) PROVE TInv'
<1>1. /\ table' = Dropped /\ run' = RunsWithout(table.id)
      /\ handler' = [handler EXCEPT ![q].at = "over", ![q].table = table.id]
      /\ UNCHANGED <<view, deleted, import, mode, compute, pubs, publisher, faults>>
  BY DEF DropTable
<1>2. PICK g \in Handlers :
        /\ handler' = [handler EXCEPT ![q] = g]
        /\ g.at = "over" /\ g.table = table.id
        /\ g.info = handler[q].info /\ g.source = handler[q].source
  <2> DEFINE g == [handler[q] EXCEPT !.at = "over", !.table = table.id]
  <2>1. /\ g \in Handlers /\ handler' = [handler EXCEPT ![q] = g]
        /\ g.at = "over" /\ g.table = table.id
        /\ g.info = handler[q].info /\ g.source = handler[q].source
    BY <1>1, HandlerKnows DEF Handlers
  <2> HIDE DEF g
  <2> QED BY <2>1
<1>3. Shape'
  BY <1>1, <1>2, DroppedFacts DEF TInv, Shape, compute
<1>4. Grows
  <2>1. table'.id = table.id /\ table.id <= table.id
    BY <1>1, DroppedFacts, HandlerKnows
  <2> QED BY <1>1, <2>1 DEF Grows, Accepted, compute
<1>5. HandlerFits(q, g)'
  BY <1>1, <1>2, DroppedFacts, HandlerKnows DEF HandlerFits
<1>6. HandlersFit' /\ PubsFit' /\ PublisherFits' /\ OneHand'
  BY <1>1, <1>2, <1>3, <1>4, <1>5, HandlerStep
<1>7. IdsFit' /\ TablesFit'
  BY <1>1, DroppedFacts DEF TInv, IdsFit, TablesFit
<1> QED BY <1>3, <1>6, <1>7 DEF TInv

\* A job is accepted, or it is not.
LEMMA PostJobInv == ASSUME TInv, NEW q \in Requests, PostJob(q) PROVE TInv'
<1>1. /\ handler[q].at = "post"
      /\ UNCHANGED <<table, view, deleted, records, pubs, publisher>>
  BY DEF PostJob
<1>2. q.op # "drop" /\ JobOf(q) \in Kinds
  BY <1>1, HandlerKnows, JobOfFacts DEF TInv, HandlerFits
<1>3. IdsFit' /\ TablesFit'
  BY <1>1 DEF TInv, IdsFit, TablesFit, records
<1>4. CASE EndRequest(q) /\ UNCHANGED compute /\ faults' \in 0 .. MaxFaults
  <2>1. Shape'
    <3>1. handler' \in [Requests -> Handlers]
      BY <1>4, OverFacts
    <3> QED BY <1>1, <1>4, <3>1 DEF TInv, Shape, records, compute
  <2>2. Grows
    BY <1>1, <1>4, HandlerKnows DEF Grows, Accepted, records, compute
  <2>3. PICK g \in Handlers : /\ handler' = [handler EXCEPT ![q] = g] /\ g.at = "over"
                              /\ HandlerFits(q, g)'
    BY <1>4, <2>1, <2>2, EndFacts
  <2>4. HandlersFit' /\ PubsFit' /\ PublisherFits' /\ OneHand'
    BY <1>1, <2>1, <2>2, <2>3, HandlerStep
  <2> QED BY <1>3, <2>1, <2>4 DEF TInv
<1>5. CASE /\ JobOf(q) = "ingest" => IsThere(handler[q].table)
           /\ Post(JobOf(q), handler[q].files)
           /\ handler' = [handler EXCEPT ![q].at = "insert", ![q].job = NextJob]
           /\ faults' = faults
  <2>1. handler[q].files \in SUBSET Jobs
    BY HandlerKnows DEF Handlers
  <2>2. /\ NextJob \in Jobs /\ NextJob \notin Accepted /\ Accepted' = Accepted \cup {NextJob}
        /\ status' \in [Jobs -> {"absent", "pending"} \cup Contract!Outcomes]
        /\ payload' \in [Jobs -> Works] /\ payload'[NextJob].op = JobOf(q)
        /\ \A j \in Accepted : j \in Accepted' /\ payload'[j] = payload[j]
    BY <1>2, <1>5, <2>1, PostFacts DEF TInv
  <2>3. PICK g \in Handlers :
          /\ handler' = [handler EXCEPT ![q] = g]
          /\ g.at = "insert" /\ g.job = NextJob /\ g.table = handler[q].table
          /\ g.info = handler[q].info /\ g.source = handler[q].source
    <3> DEFINE g == [handler[q] EXCEPT !.at = "insert", !.job = NextJob]
    <3>1. NextJob \in Nat
      BY <2>2, ConstantFacts
    <3>2. /\ g \in Handlers /\ handler' = [handler EXCEPT ![q] = g]
          /\ g.at = "insert" /\ g.job = NextJob /\ g.table = handler[q].table
          /\ g.info = handler[q].info /\ g.source = handler[q].source
      BY <1>5, <3>1, HandlerKnows DEF Handlers
    <3> HIDE DEF g
    <3> QED BY <3>2
  <2>4. Shape'
    <3>1. handler' \in [Requests -> Handlers]
      BY <2>3, HandlerKnows
    <3> QED BY <1>1, <1>5, <2>2, <3>1 DEF TInv, Shape, records
  <2>5. Grows
    BY <1>1, <2>2, HandlerKnows DEF Grows, records
  <2>6. HandlerFits(q, g)'
    <3>1. table'.id = table.id /\ import' = import /\ mode' = mode
      BY <1>1 DEF records
    <3>2. g.table <= table.id /\ g.info.id <= table.id /\ g.source.id <= table.id
      BY <2>3, HandlerKnows
    <3>3. JobOf(q)' = JobOf(q)
      BY <3>1 DEF JobOf
    <3>4. JobOf(q) = "ingest" => g.table # 0
      BY <1>5, <2>3 DEF TInv, IdsFit, IsThere
    <3>5. q.op = "complete" => import[q.of] # "none"
      BY <1>1, HandlerKnows DEF HandlerFits
    <3> QED BY <1>2, <2>2, <2>3, <3>1, <3>2, <3>3, <3>4, <3>5 DEF HandlerFits
  <2>7. HandlersFit'
    BY <2>3, <2>4, <2>5, <2>6, HandlerMoves DEF TInv
  <2>8. PubsFit' /\ PublisherFits'
    BY <1>1, <2>4, <2>5, PubsStay, PublisherStays DEF TInv
  <2>9. OneHand'
    <3>1. \A n \in DOMAIN pubs : pubs[n].job # NextJob
      BY <2>2 DEF TInv, PubsFit, PubFits
    <3>2. \A r \in Requests : handler[r].at = "insert" => handler[r].job # NextJob
      BY <2>2, HandlerKnows DEF HandlerFits
    <3>3. publisher.at = "insert" => publisher.job # NextJob
      BY <2>2 DEF TInv, PublisherFits
    <3>4. handler'[q] = g /\ \A r \in Requests : r # q => handler'[r] = handler[r]
      BY <2>3, HandlerKnows
    <3> QED BY <1>1, <2>3, <3>1, <3>2, <3>3, <3>4 DEF TInv, OneHand
  <2> QED BY <1>3, <2>4, <2>7, <2>8, <2>9 DEF TInv
<1>6. faults \in 0 .. MaxFaults /\ (Fault("compute") => faults' \in 0 .. MaxFaults)
  BY ConstantFacts DEF TInv, Shape, Fault
<1> QED BY <1>4, <1>5, <1>6 DEF PostJob, compute

\* A publication that is stored has a job of its own.
LEMMA HandAppended ==
    ASSUME OneHand, NEW p, pubs' = Append(pubs, p), pubs \in Seq(Pubs), pubs' \in Seq(Pubs),
           \A n \in DOMAIN pubs : pubs[n].job # p.job,
           \A q \in Requests : handler'[q].at = "insert" => handler'[q] = handler[q] /\ handler[q].job # p.job,
           publisher'.at = "insert" => publisher' = publisher /\ publisher.job # p.job
    PROVE  OneHand'
<1>1. /\ DOMAIN pubs' = DOMAIN pubs \cup {Len(pubs) + 1}
      /\ \A n \in DOMAIN pubs : pubs'[n] = pubs[n]
      /\ pubs'[Len(pubs) + 1] = p
  OBVIOUS
<1> QED BY <1>1 DEF OneHand

\* The publication of a request is stored.
LEMMA InsertPublicationInv == ASSUME TInv, NEW q \in Requests, InsertPublication(q) PROVE TInv'
<1> DEFINE h == handler[q]
           of == IF q.op = "complete" THEN q.of ELSE q
<1>1. /\ h.at = "insert" /\ EndRequest(q)
      /\ UNCHANGED <<table, deleted, mode, run, status, payload, publisher, faults>>
  BY DEF InsertPublication, compute
<1>2. /\ q.op # "drop" /\ JobOf(q) \in Kinds /\ (q.op = "complete" => import[q.of] # "none")
      /\ h.job \in Accepted /\ payload[h.job].op = JobOf(q) /\ (JobOf(q) = "ingest" => h.table # 0)
      /\ q.op = "complete" <=> JobOf(q) \in {"infer", "ingest"}
      /\ JobOf(q) \in {"infer", "ingest"} => q.of \in Imports
      /\ JobOf(q) \notin {"infer", "ingest"} => q \in Maintenance
  BY <1>1, HandlerKnows, JobOfFacts DEF TInv, HandlerFits
<1>3. PICK p \in Pubs :
        /\ pubs' = Append(pubs, p)
        /\ p.job = h.job /\ p.kind = JobOf(q) /\ p.table = h.table /\ p.of = of
        /\ p.source = h.source /\ p.state = "pending"
  <2> DEFINE b == Publication(JobOf(q), of, h.job, h.table)
             p == [b EXCEPT !.full = h.full, !.source = h.source]
  <2>1. h \in Handlers /\ h.job \in Jobs /\ of \in Imports \cup Maintenance
    BY <1>2, HandlerKnows DEF Accepted
  <2>2. b = [job |-> h.job, kind |-> JobOf(q), of |-> of, table |-> h.table, state |-> "pending",
             created |-> FALSE, full |-> TRUE, source |-> Never]
    BY DEF Publication
  <2>3. pubs' = Append(pubs, p)
    BY DEF InsertPublication
  <2>4. /\ p \in Pubs /\ p.job = h.job /\ p.kind = JobOf(q) /\ p.table = h.table /\ p.of = of
        /\ p.source = h.source /\ p.state = "pending"
    <3>1. h.table \in Nat /\ h.full \in BOOLEAN /\ h.source \in Source
      BY <2>1 DEF Handlers
    <3> HIDE DEF of, h
    <3>2. p = [job |-> h.job, kind |-> JobOf(q), of |-> of, table |-> h.table, state |-> "pending",
               created |-> FALSE, full |-> h.full, source |-> h.source]
      <4>1. p = [b EXCEPT !.full = h.full, !.source = h.source]
        OBVIOUS
      <4> HIDE DEF p, b
      <4> QED BY <2>2, <4>1
    <3> HIDE DEF p, b
    <3> QED BY <1>2, <2>1, <3>1, <3>2 DEF Pubs
  <2> HIDE DEF p, b
  <2> QED BY <2>3, <2>4
<1>4. PICK s \in {"inferring", "ingesting"} :
        import' = IF q.op # "complete" THEN import ELSE [import EXCEPT ![q.of] = s]
  BY DEF InsertPublication
<1>5. view' \in Views /\ view'.since \in {view.since, h.info} /\ view'.kept = view.kept /\ view'.snaps = view.snaps
  BY HandlerKnows DEF InsertPublication, TInv, Shape, Views, Handlers
<1>6. Shape'
  <2>1. handler' \in [Requests -> Handlers]
    BY <1>1, OverFacts
  <2>2. import' \in [Imports -> Imported]
    BY <1>4 DEF TInv, Shape, Imported
  <2>3. pubs' \in Seq(Pubs)
    BY <1>3 DEF TInv, Shape
  <2> QED BY <1>1, <1>5, <2>1, <2>2, <2>3 DEF TInv, Shape
<1>7. Grows
  <2>1. \A i \in Imports : import[i] # "none" => import'[i] # "none"
    BY <1>4 DEF TInv, Shape
  <2> QED BY <1>1, <2>1, HandlerKnows DEF Grows, Accepted
<1>8. PICK g \in Handlers : /\ handler' = [handler EXCEPT ![q] = g] /\ g.at = "over"
                            /\ HandlerFits(q, g)'
  BY <1>1, <1>6, <1>7, EndFacts
<1>9. HandlersFit'
  BY <1>6, <1>7, <1>8, HandlerMoves DEF TInv
<1>10. PubsFit'
  <2>1. p.table <= table.id /\ p.source.id <= table.id
    BY <1>3, HandlerKnows
  <2>2. p.job \in Accepted' /\ payload'[p.job].op = p.kind
    BY <1>1, <1>2, <1>3 DEF Accepted
  <2>3. p.kind \in {"infer", "ingest"} => p.of \in Imports /\ import'[p.of] # "none"
    BY <1>2, <1>3, <1>7 DEF Grows
  <2>4. /\ p.kind \notin {"infer", "ingest"} => p.of \in Maintenance
        /\ p.kind = "ingest" => p.table # 0
    BY <1>2, <1>3
  <2>5. PubFits(p)'
    BY <1>1, <2>1, <2>2, <2>3, <2>4 DEF PubFits
  <2> QED BY <1>3, <1>6, <1>7, <2>5, PubsAppended DEF TInv
<1>11. PublisherFits'
  BY <1>1, <1>3, <1>6, <1>7, PublisherStays DEF TInv
<1>12. OneHand'
  <2>1. \A n \in DOMAIN pubs : pubs[n].job # p.job
    BY <1>1, <1>3 DEF TInv, OneHand
  <2>2. handler'[q] = g /\ \A r \in Requests : r # q => handler'[r] = handler[r]
    BY <1>8, HandlerKnows
  <2>3. \A r \in Requests : handler'[r].at = "insert" => handler'[r] = handler[r] /\ handler[r].job # p.job
    BY <1>1, <1>3, <1>8, <2>2 DEF TInv, OneHand
  <2>4. publisher'.at = "insert" => publisher' = publisher /\ publisher.job # p.job
    BY <1>1, <1>3 DEF TInv, OneHand
  <2>5. OneHand /\ pubs \in Seq(Pubs) /\ pubs' \in Seq(Pubs)
    BY <1>6 DEF TInv, Shape
  <2> QED BY <1>3, <2>1, <2>3, <2>4, <2>5, HandAppended
<1>13. IdsFit' /\ TablesFit'
  <2>1. view'.since.id <= table.id
    BY <1>5, HandlerKnows DEF TInv, IdsFit
  <2> QED BY <1>1, <1>5, <2>1 DEF TInv, IdsFit, TablesFit
<1> QED BY <1>6, <1>9, <1>10, <1>11, <1>12, <1>13 DEF TInv

\* A batch job ends.
LEMMA JobEndsInv == ASSUME TInv, NEW j \in Jobs, JobEnds(j) PROVE TInv'
<1>1. UNCHANGED <<table, view, records, payload, pubs, handler, publisher, faults>>
  BY DEF JobEnds
<1>2. PICK o \in Ends : status[j] = "pending" /\ status' = [status EXCEPT ![j] = o]
  BY DEF JobEnds, Contract!End
<1>3. deleted' \in SUBSET Jobs
  <2>1. payload[j].files \in SUBSET Jobs /\ deleted \in SUBSET Jobs
    BY DEF TInv, Shape, Works
  <2> QED BY <2>1 DEF JobEnds
<1>4. o \in Contract!Outcomes
  BY PublicationsAssumption DEF Contract!Outcomes
<1>5. Shape'
  BY <1>1, <1>2, <1>3, <1>4 DEF TInv, Shape, records
<1>6. Accepted' = Accepted
  BY <1>2, <1>4 DEF Accepted, TInv, Shape, Contract!Outcomes
<1>7. Grows
  BY <1>1, <1>6, HandlerKnows DEF Grows, records, TInv, Shape, Tables
<1>8. HandlersFit'
  BY <1>1, <1>5, <1>7, HandlersStay DEF TInv
<1>9. PubsFit' /\ PublisherFits' /\ OneHand'
  BY <1>1, <1>5, <1>7, OthersStay
<1>10. IdsFit' /\ TablesFit'
  BY <1>1 DEF TInv, IdsFit, TablesFit, records
<1> QED BY <1>5, <1>8, <1>9, <1>10 DEF TInv

-----------------------------------------------------------------------------
(* The publisher.                                                          *)

\* What the publisher is at.
LEMMA CurrentFacts ==
    ASSUME TInv, publisher.at \notin {"idle", "next"} \/ publisher.todo # {}
    PROVE  /\ First(publisher.todo) \in publisher.todo /\ First(publisher.todo) \in DOMAIN pubs
           /\ \A k \in publisher.todo : First(publisher.todo) <= k
           /\ Current \in Pubs /\ PubFits(Current) /\ Current.state = "pending"
           /\ publisher.todo \in SUBSET Nat /\ pubs \in Seq(Pubs) /\ publisher \in Publishers
<1>1. publisher.todo \in SUBSET Nat /\ publisher.todo # {} /\ pubs \in Seq(Pubs) /\ publisher \in Publishers
  BY DEF TInv, Shape, Publishers, PublisherFits
<1>2. /\ First(publisher.todo) \in publisher.todo
      /\ \A k \in publisher.todo : First(publisher.todo) <= k
  BY <1>1, FirstFacts
<1>3. First(publisher.todo) \in DOMAIN pubs /\ pubs[First(publisher.todo)].state = "pending"
  BY <1>2 DEF TInv, PublisherFits
<1>4. Current \in Pubs /\ PubFits(Current)
  BY <1>1, <1>3, ElementOfSeq DEF Current, TInv, PubsFit
<1> QED BY <1>1, <1>2, <1>3, <1>4 DEF Current

\* The publisher goes on with the publication it is at.
LEMMA GoesOn ==
    ASSUME TInv, publisher.at \notin {"idle", "next"} \/ publisher.todo # {},
           publisher' \in Publishers, publisher'.todo = publisher.todo,
           pubs' = pubs, publisher'.at \in {"create", "post", "settle", "fail", "commit", "mark"},
           publisher'.at \in {"create", "post"} => Current.kind = "infer",
           publisher'.at = "post" => table'.id # 0,
           publisher'.at = "commit" => Current.kind \in {"ingest", "optimize", "refresh"},
           publisher'.at = "settle" => Current.kind # "infer"
    PROVE  PublisherFits'
<1>1. Current' = Current
  BY DEF Current
<1>2. \A n \in publisher'.todo : n \in DOMAIN pubs' /\ pubs'[n].state = "pending"
  BY DEF TInv, PublisherFits
<1>3. publisher'.todo # {}
  BY CurrentFacts
<1> QED BY <1>1, <1>2, <1>3 DEF PublisherFits

\* Requests and publications, while the publisher works.
LEMMA PublisherWorks ==
    ASSUME TInv, Shape', Grows, handler' = handler, pubs' = pubs, publisher'.at # "insert"
    PROVE  HandlersFit' /\ PubsFit' /\ OneHand'
BY HandlersStay, PubsStay, HandsStay DEF TInv

\* A pass begins.
LEMMA ReconcileInv == ASSUME TInv, Reconcile PROVE TInv'
<1> DEFINE todo == Oldest(Pending)
<1>1. /\ publisher' = [at |-> "next", todo |-> todo, job |-> 0, state |-> "done"]
      /\ UNCHANGED <<table, view, deleted, records, compute, pubs, handler, faults>>
  BY DEF Reconcile, Resting
<1>2. todo \in SUBSET Nat /\ \A n \in todo : n \in DOMAIN pubs /\ pubs[n].state = "pending"
  BY DEF TInv, Shape, Oldest, Pending
<1> HIDE DEF todo
<1>3. publisher' \in Publishers
  BY <1>1, <1>2 DEF Publishers
<1>4. Shape'
  BY <1>1, <1>3 DEF TInv, Shape, records, compute
<1>5. Grows
  BY <1>1, TableKnows DEF Grows, Accepted, records, compute
<1>6. HandlersFit' /\ PubsFit' /\ OneHand'
  BY <1>1, <1>4, <1>5, PublisherWorks
<1>7. PublisherFits'
  BY <1>1, <1>2 DEF PublisherFits
<1>8. IdsFit' /\ TablesFit'
  BY <1>1 DEF TInv, IdsFit, TablesFit, records
<1> QED BY <1>4, <1>6, <1>7, <1>8 DEF TInv

\* The job of a publication is looked at.
LEMMA LookInv == ASSUME TInv, Look PROVE TInv'
<1>1. /\ publisher.at = "next" /\ publisher.todo # {}
      /\ UNCHANGED <<table, view, deleted, records, compute, pubs, handler, faults>>
  BY DEF Look
<1>2. /\ Current \in Pubs /\ publisher.todo \in SUBSET Nat /\ publisher \in Publishers
      /\ Current.kind \in Kinds
  BY <1>1, CurrentFacts DEF Pubs
<1>3. \/ /\ publisher' = [publisher EXCEPT !.state = "done", !.todo = @ \ {First(@)}, !.at = "next"]
      \/ \E a : /\ publisher' = [publisher EXCEPT !.state = "done", !.todo = @, !.at = a]
                /\ \/ a = "fail"
                   \/ a = "create" /\ Current.kind = "infer"
                   \/ a = "settle" /\ Current.kind = "delete"
                   \/ a = "commit" /\ Current.kind \in {"ingest", "optimize", "refresh"}
  <2>1. CASE status[Current.job] = "pending"
    BY <2>1 DEF Look
  <2>2. CASE status[Current.job] \notin {"pending", "succeeded"}
    BY <2>2 DEF Look
  <2>3. CASE status[Current.job] = "succeeded"
    <3> DEFINE a == CASE Current.kind = "infer" -> "create"
                      [] Current.kind = "delete" -> "settle"
                      [] OTHER -> "commit"
    <3>1. publisher' = [publisher EXCEPT !.state = "done", !.todo = @, !.at = a]
      BY <2>3 DEF Look
    <3>2. \/ a = "create" /\ Current.kind = "infer"
          \/ a = "settle" /\ Current.kind = "delete"
          \/ a = "commit" /\ Current.kind \in {"ingest", "optimize", "refresh"}
      BY <1>2 DEF Kinds
    <3> QED BY <3>1, <3>2
  <2> QED BY <2>1, <2>2, <2>3
<1>4. Grows
  BY <1>1, TableKnows DEF Grows, Accepted, records, compute
<1>5. IdsFit' /\ TablesFit'
  BY <1>1 DEF TInv, IdsFit, TablesFit, records
<1>6. CASE publisher' = [publisher EXCEPT !.state = "done", !.todo = @ \ {First(@)}, !.at = "next"]
  <2>1. /\ publisher' \in Publishers /\ publisher'.at = "next"
        /\ publisher'.todo = publisher.todo \ {First(publisher.todo)}
    BY <1>2, <1>6 DEF Publishers
  <2>2. Shape'
    BY <1>1, <2>1 DEF TInv, Shape, records, compute
  <2>3. HandlersFit' /\ PubsFit' /\ OneHand'
    BY <1>1, <1>4, <2>1, <2>2, PublisherWorks
  <2>4. PublisherFits'
    BY <1>1, <2>1 DEF TInv, PublisherFits
  <2> QED BY <1>5, <2>2, <2>3, <2>4 DEF TInv
<1>7. ASSUME NEW a, publisher' = [publisher EXCEPT !.state = "done", !.todo = @, !.at = a],
             \/ a = "fail"
             \/ a = "create" /\ Current.kind = "infer"
             \/ a = "settle" /\ Current.kind = "delete"
             \/ a = "commit" /\ Current.kind \in {"ingest", "optimize", "refresh"}
      PROVE  TInv'
  <2>1. /\ publisher' \in Publishers /\ publisher'.at = a
        /\ publisher'.todo = publisher.todo
    BY <1>2, <1>7 DEF Publishers
  <2>2. Shape'
    BY <1>1, <2>1 DEF TInv, Shape, records, compute
  <2>3. HandlersFit' /\ PubsFit' /\ OneHand'
    BY <1>1, <1>4, <1>7, <2>1, <2>2, PublisherWorks
  <2>4. PublisherFits'
    BY <1>1, <1>7, <2>1, GoesOn
  <2> QED BY <1>5, <2>2, <2>3, <2>4 DEF TInv
<1> QED BY <1>3, <1>6, <1>7

\* A pass ends.
LEMMA PassEndsInv == ASSUME TInv, PassEnds PROVE TInv'
<1>1. /\ publisher' = [at |-> "idle", todo |-> {}, job |-> 0, state |-> "done"]
      /\ UNCHANGED <<table, view, deleted, records, compute, pubs, handler>>
  BY DEF PassEnds, Resting
<1>2. publisher' \in Publishers
  BY <1>1 DEF Publishers
<1>3. faults' \in 0 .. MaxFaults
  BY ConstantFacts DEF TInv, Shape, PassEnds, Fault
<1>4. Shape'
  BY <1>1, <1>2, <1>3 DEF TInv, Shape, records, compute
<1>5. Grows
  BY <1>1, TableKnows DEF Grows, Accepted, records, compute
<1>6. HandlersFit' /\ PubsFit' /\ OneHand'
  BY <1>1, <1>4, <1>5, PublisherWorks
<1>7. PublisherFits'
  BY <1>1 DEF PublisherFits
<1>8. IdsFit' /\ TablesFit'
  BY <1>1 DEF TInv, IdsFit, TablesFit, records
<1> QED BY <1>4, <1>6, <1>7, <1>8 DEF TInv

\* The publication the publisher is at fails.
LEMMA ToFailFacts ==
    ASSUME TInv, publisher.at \notin {"idle", "next"}, ToFail
    PROVE  publisher' \in Publishers /\ publisher'.at = "fail" /\ publisher'.todo = publisher.todo
BY CurrentFacts DEF ToFail, Publishers

\* The publisher goes on.
LEMMA GoOnFacts ==
    ASSUME TInv, publisher.at \notin {"idle", "next"}, NEW a \in {"post", "settle", "mark"}, GoOn(a)
    PROVE  publisher' \in Publishers /\ publisher'.at = a /\ publisher'.todo = publisher.todo
BY CurrentFacts DEF GoOn, Publishers

\* The table of an import is created.
LEMMA CreateTableInv == ASSUME TInv, CreateTable PROVE TInv'
<1>1. /\ publisher.at = "create" /\ Current.kind = "infer"
      /\ UNCHANGED <<view, deleted, mode, run, compute, pubs, handler, faults>>
  BY DEF CreateTable, TInv, PublisherFits
<1>2. /\ publisher' \in Publishers /\ publisher'.todo = publisher.todo
      /\ publisher'.at \in {"fail", "post"} /\ (publisher'.at = "post" => table' = NewTable)
  BY <1>1, ToFailFacts, GoOnFacts DEF CreateTable
<1>3. Current.of \in Imports
  BY <1>1, CurrentFacts DEF PubFits
<1>4. /\ import' \in [Imports -> Imported]
      /\ \A i \in Imports : import[i] # "none" => import'[i] # "none"
  <2>1. import \in [Imports -> Imported] /\ (import' = import \/ import' = [import EXCEPT ![Current.of] = "ingesting"])
    BY DEF CreateTable, TInv, Shape
  <2> QED BY <1>3, <2>1 DEF Imported
<1>5. /\ table' \in Tables /\ table'.id \in Nat /\ table.id <= table'.id /\ (table'.live => table'.id # 0)
      /\ table' = table \/ table' = [id |-> table.id + 1, live |-> TRUE, snaps |-> <<>>, kept |-> {}]
  <2>1. table' = table \/ table' = [id |-> table.id + 1, live |-> TRUE, snaps |-> <<>>, kept |-> {}]
    BY DEF CreateTable, NewTable
  <2>2. CASE table' = table
    BY <2>2, TableKnows
  <2>3. CASE table' = [id |-> table.id + 1, live |-> TRUE, snaps |-> <<>>, kept |-> {}]
    <3>1. << >> \in Seq(Snaps) /\ table.id + 1 \in Nat /\ {} \in SUBSET Nat /\ TRUE \in BOOLEAN
      BY TableKnows
    <3>2. table' \in Tables
      BY <2>3, <3>1 DEF Tables
    <3>3. table'.id = table.id + 1
      BY <2>3
    <3> QED BY <2>3, <3>2, <3>3, TableKnows
  <2> QED BY <2>1, <2>2, <2>3
<1>6. Shape'
  BY <1>1, <1>2, <1>4, <1>5 DEF TInv, Shape, compute
<1>7. Grows
  BY <1>1, <1>4, <1>5 DEF Grows, Accepted, compute
<1>8. HandlersFit' /\ PubsFit' /\ OneHand'
  BY <1>1, <1>2, <1>6, <1>7, PublisherWorks
<1>9. PublisherFits'
  <2>1. publisher'.at = "post" => table'.id # 0
    BY <1>2, TableKnows DEF NewTable
  <2> QED BY <1>1, <1>2, <2>1, GoesOn
<1>10. IdsFit'
  <2>1. view.since.id \in Nat /\ run \in [Maintenance -> Runs]
    BY TableKnows DEF TInv, Shape, Source
  <2>2. view.since.id <= table'.id /\ \A q \in Maintenance : run[q].table <= table'.id
    BY <1>5, <2>1, TableKnows DEF TInv, IdsFit, Runs
  <2> QED BY <1>1, <1>5, <2>2 DEF IdsFit
<1>11. TablesFit'
  BY <1>1, <1>5 DEF TInv, TablesFit
<1> QED BY <1>6, <1>8, <1>9, <1>10, <1>11 DEF TInv

\* The second job of an import is accepted.
LEMMA PostIngestInv == ASSUME TInv, PostIngest PROVE TInv'
<1>1. /\ publisher.at = "post" /\ Current.kind = "infer" /\ table.id # 0
      /\ UNCHANGED <<table, view, deleted, records, pubs, handler>>
  BY DEF PostIngest, TInv, PublisherFits
<1>2. IdsFit' /\ TablesFit'
  BY <1>1 DEF TInv, IdsFit, TablesFit, records
<1>3. CASE ToFail /\ UNCHANGED compute /\ faults' \in 0 .. MaxFaults
  <2>1. publisher' \in Publishers /\ publisher'.at = "fail" /\ publisher'.todo = publisher.todo
    BY <1>1, <1>3, ToFailFacts
  <2>2. Shape'
    BY <1>1, <1>3, <2>1 DEF TInv, Shape, records, compute
  <2>3. Grows
    BY <1>1, <1>3, TableKnows DEF Grows, Accepted, records, compute
  <2>4. HandlersFit' /\ PubsFit' /\ OneHand'
    BY <1>1, <2>1, <2>2, <2>3, PublisherWorks
  <2>5. PublisherFits'
    BY <1>1, <2>1, GoesOn
  <2> QED BY <1>2, <2>2, <2>4, <2>5 DEF TInv
<1>4. CASE /\ Post("ingest", {})
           /\ publisher' = [publisher EXCEPT !.at = "insert", !.job = NextJob]
           /\ faults' = faults
  <2>1. /\ NextJob \in Jobs /\ NextJob \notin Accepted /\ Accepted' = Accepted \cup {NextJob}
        /\ status' \in [Jobs -> {"absent", "pending"} \cup Contract!Outcomes]
        /\ payload' \in [Jobs -> Works] /\ payload'[NextJob].op = "ingest"
        /\ \A j \in Accepted : j \in Accepted' /\ payload'[j] = payload[j]
    <3>1. "ingest" \in Kinds /\ {} \in SUBSET Jobs
      BY DEF Kinds
    <3> QED BY <1>4, <3>1, PostFacts DEF TInv
  <2>2. /\ publisher' \in Publishers /\ publisher'.at = "insert" /\ publisher'.job = NextJob
        /\ publisher'.todo = publisher.todo
    <3>1. NextJob \in Nat /\ publisher \in Publishers
      BY <1>1, <2>1, ConstantFacts, CurrentFacts
    <3> QED BY <1>4, <3>1 DEF Publishers
  <2>3. Shape'
    BY <1>1, <1>4, <2>1, <2>2 DEF TInv, Shape, records
  <2>4. Grows
    BY <1>1, <2>1, TableKnows DEF Grows, records
  <2>5. HandlersFit' /\ PubsFit'
    BY <1>1, <2>3, <2>4, HandlersStay, PubsStay DEF TInv
  <2>6. PublisherFits'
    <3>1. Current' = Current /\ pubs' = pubs /\ table' = table
      BY <1>1, <2>2 DEF Current
    <3>2. publisher'.todo # {} /\ \A n \in publisher'.todo : n \in DOMAIN pubs /\ pubs[n].state = "pending"
      BY <1>1, <2>2, CurrentFacts DEF TInv, PublisherFits
    <3> QED BY <1>1, <2>1, <2>2, <3>1, <3>2 DEF PublisherFits
  <2>7. OneHand'
    <3>1. \A n \in DOMAIN pubs : pubs[n].job # NextJob
      BY <2>1 DEF TInv, PubsFit, PubFits
    <3>2. \A r \in Requests : handler[r].at = "insert" => handler[r].job # NextJob
      BY <2>1, HandlerKnows DEF HandlerFits
    <3> QED BY <1>1, <2>2, <3>1, <3>2 DEF TInv, OneHand
  <2> QED BY <1>2, <2>3, <2>5, <2>6, <2>7 DEF TInv
<1>5. faults \in 0 .. MaxFaults /\ (Fault("compute") => faults' \in 0 .. MaxFaults)
  BY ConstantFacts DEF TInv, Shape, Fault
<1> QED BY <1>3, <1>4, <1>5 DEF PostIngest

\* The second publication of an import is stored.
LEMMA InsertIngestInv == ASSUME TInv, InsertIngest PROVE TInv'
<1>1. /\ publisher.at = "insert" /\ Current.kind = "infer" /\ table.id # 0
      /\ publisher.job \in Accepted /\ payload[publisher.job].op = "ingest"
      /\ import' = [import EXCEPT ![Current.of] = "ingesting"] /\ GoOn("mark")
      /\ UNCHANGED <<table, view, deleted, mode, run, status, payload, handler, faults>>
  BY DEF InsertIngest, TInv, PublisherFits, compute
<1>2. /\ Current.of \in Imports /\ Current \in Pubs
      /\ First(publisher.todo) \in DOMAIN pubs
  BY <1>1, CurrentFacts DEF PubFits
<1>3. publisher' \in Publishers /\ publisher'.at = "mark" /\ publisher'.todo = publisher.todo
  BY <1>1, GoOnFacts
<1>4. PICK p \in Pubs :
        /\ pubs' = Append(pubs, p)
        /\ p.job = publisher.job /\ p.kind = "ingest" /\ p.table = table.id /\ p.of = Current.of
        /\ p.source = Never /\ p.state = "pending"
  <2> DEFINE b == Publication("ingest", Current.of, publisher.job, table.id)
             p == [b EXCEPT !.created = TRUE]
  <2>1. b = [job |-> publisher.job, kind |-> "ingest", of |-> Current.of, table |-> table.id,
             state |-> "pending", created |-> FALSE, full |-> TRUE, source |-> Never]
    BY DEF Publication
  <2>2. pubs' = Append(pubs, p)
    BY DEF InsertIngest
  <2>3. publisher.job \in Jobs /\ Never \in Source
    BY <1>1 DEF Accepted, Never, Source
  <2>4. p = [job |-> publisher.job, kind |-> "ingest", of |-> Current.of, table |-> table.id,
             state |-> "pending", created |-> TRUE, full |-> TRUE, source |-> Never]
    <3>1. p = [b EXCEPT !.created = TRUE]
      OBVIOUS
    <3> HIDE DEF p, b
    <3> QED BY <2>1, <3>1
  <2> HIDE DEF p, b
  <2>5. p \in Pubs
    BY <1>2, <2>3, <2>4, TableKnows DEF Pubs, Kinds
  <2> QED BY <2>2, <2>4, <2>5
<1>5. Shape'
  <2>1. import' \in [Imports -> Imported]
    BY <1>1, <1>2 DEF TInv, Shape, Imported
  <2>2. pubs' \in Seq(Pubs)
    BY <1>4 DEF TInv, Shape
  <2> QED BY <1>1, <1>3, <2>1, <2>2 DEF TInv, Shape
<1>6. Grows
  <2>1. \A i \in Imports : import[i] # "none" => import'[i] # "none"
    BY <1>1, <1>2 DEF TInv, Shape
  <2> QED BY <1>1, <2>1, TableKnows DEF Grows, Accepted
<1>7. HandlersFit'
  BY <1>1, <1>5, <1>6, HandlersStay DEF TInv
<1>8. PubsFit'
  <2>1. p.table <= table.id /\ p.source.id <= table.id
    BY <1>4, TableKnows DEF Never
  <2>2. import'[Current.of] # "none"
    BY <1>1, <1>2 DEF TInv, Shape
  <2>3. PubFits(p)'
    BY <1>1, <1>2, <1>4, <2>1, <2>2 DEF PubFits, Accepted
  <2> QED BY <1>4, <1>5, <1>6, <2>3, PubsAppended DEF TInv
<1>9. /\ \A n \in DOMAIN pubs : n \in DOMAIN pubs' /\ pubs'[n] = pubs[n]
      /\ pubs \in Seq(Pubs) /\ pubs' \in Seq(Pubs)
  BY <1>4, <1>5 DEF TInv, Shape
<1>10. PublisherFits'
  <2>1. \A n \in publisher'.todo : n \in DOMAIN pubs' /\ pubs'[n].state = "pending"
    BY <1>3, <1>9 DEF TInv, PublisherFits
  <2>2. publisher'.todo # {}
    BY <1>1, <1>3, CurrentFacts
  <2> QED BY <1>3, <2>1, <2>2 DEF PublisherFits
<1>11. OneHand'
  <2>1. \A n \in DOMAIN pubs : pubs[n].job # p.job
    BY <1>1, <1>4 DEF TInv, OneHand
  <2>2. \A r \in Requests : handler'[r].at = "insert" => handler'[r] = handler[r] /\ handler[r].job # p.job
    BY <1>1, <1>4 DEF TInv, OneHand
  <2> QED BY <1>3, <1>4, <1>9, <2>1, <2>2, HandAppended DEF TInv
<1>12. IdsFit' /\ TablesFit'
  BY <1>1 DEF TInv, IdsFit, TablesFit
<1> QED BY <1>5, <1>7, <1>8, <1>10, <1>11, <1>12 DEF TInv

\* u is t with one more snapshot, the n-th; or it has two more, the first of which
\* leaves no file.
Adds(t, u, op, w, left, rows) ==
    LET i == Len(t.snaps) + 1
        n == Len(u.snaps)
    IN  /\ n = i \/ n = i + 1
        /\ u.kept = t.kept \cup {i, n} /\ DOMAIN u.snaps = DOMAIN t.snaps \cup {i, n}
        /\ \A k \in DOMAIN t.snaps : u.snaps[k] = t.snaps[k]
        /\ u.snaps[n] = Snap(op, w, left \cup {Entry(w, rows, n)})
        /\ n # i => left = {} /\ op = "append" /\ u.snaps[i] = Snap("delete", w, {})

\* One more snapshot in a list of them.
LEMMA OneMore ==
    ASSUME NEW t, t.snaps \in Seq(Snaps), NEW s \in Snaps, NEW u,
           u.snaps = Append(t.snaps, s), NEW n, n = Len(t.snaps) + 1, u.kept = t.kept \cup {n}
    PROVE  /\ n \in Nat /\ n # 0 /\ Len(u.snaps) = n /\ DOMAIN u.snaps = DOMAIN t.snaps \cup {n}
           /\ u.snaps \in Seq(Snaps) /\ u.snaps[n] = s
           /\ \A k \in DOMAIN t.snaps : u.snaps[k] = t.snaps[k]
<1>1. PICK S \in Seq(Snaps) : S = t.snaps
  OBVIOUS
<1>2. PICK T \in Seq(Snaps) : T = Append(S, s)
  BY SnapshotAppended
<1>3. /\ Len(T) = Len(S) + 1 /\ DOMAIN T = DOMAIN S \cup {Len(S) + 1}
      /\ \A k \in DOMAIN S : T[k] = S[k]
      /\ T[Len(S) + 1] = s /\ Len(S) \in Nat
  BY <1>2, SnapshotAppended, LenProperties
<1> QED BY <1>1, <1>2, <1>3

\* A snapshot that registers a file is one more.
LEMMA RegistersFile ==
    ASSUME NEW t, t.snaps \in Seq(Snaps), NEW op \in {"append", "overwrite"}, NEW w \in Jobs,
           NEW left \in SUBSET Files, NEW rows \in SUBSET Jobs,
           NEW u, u.kept = t.kept \cup {Len(t.snaps) + 1},
           u.snaps = Append(t.snaps, Snap(op, w, left \cup {Entry(w, rows, Len(t.snaps) + 1)}))
    PROVE  /\ Adds(t, u, op, w, left, rows) /\ Len(u.snaps) = Len(t.snaps) + 1
           /\ u.snaps \in Seq(Snaps)
<1>1. PICK n : n = Len(t.snaps) + 1 /\ n \in Nat
  BY LenProperties
<1>2. Entry(w, rows, n) \in Files
  BY <1>1, EntryFacts
<1>3. left \cup {Entry(w, rows, n)} \in SUBSET Files
  BY <1>2
<1>4. PICK s \in Snaps : s = Snap(op, w, left \cup {Entry(w, rows, n)})
  BY <1>1, <1>3, EntryFacts
<1>5. /\ Len(u.snaps) = n /\ DOMAIN u.snaps = DOMAIN t.snaps \cup {n} /\ u.snaps[n] = s
      /\ u.snaps \in Seq(Snaps) /\ u.kept = t.kept \cup {n}
      /\ \A k \in DOMAIN t.snaps : u.snaps[k] = t.snaps[k]
  BY <1>1, <1>4, OneMore
<1>6. {n, n} = {n}
  OBVIOUS
<1> QED BY <1>1, <1>5, <1>6 DEF Adds

\* A file that is registered after the others have been taken out.
LEMMA RegistersAfter ==
    ASSUME NEW t, t.snaps \in Seq(Snaps), NEW w \in Jobs, NEW rows \in SUBSET Jobs, NEW v, NEW u,
           v.snaps = Append(t.snaps, Snap("delete", w, {})), v.kept = t.kept \cup {Len(t.snaps) + 1},
           Adds(v, u, "append", w, {}, rows), Len(u.snaps) = Len(v.snaps) + 1
    PROVE  Adds(t, u, "append", w, {}, rows) /\ Len(u.snaps) = Len(t.snaps) + 2
<1>1. PICK i : i = Len(t.snaps) + 1 /\ i \in Nat
  BY LenProperties
<1>2. PICK d \in Snaps : d = Snap("delete", w, {})
  BY EntryFacts
<1>3. /\ Len(v.snaps) = i /\ DOMAIN v.snaps = DOMAIN t.snaps \cup {i} /\ v.snaps[i] = d
      /\ v.kept = t.kept \cup {i} /\ \A k \in DOMAIN t.snaps : v.snaps[k] = t.snaps[k]
  <2>1. v.snaps = Append(t.snaps, d) /\ v.kept = t.kept \cup {i}
    BY <1>1, <1>2
  <2> QED BY <1>1, <2>1, OneMore
<1>4. PICK n : n = Len(u.snaps)
  OBVIOUS
<1>5. n = i + 1 /\ n # i
  BY <1>1, <1>3, <1>4
<1>6. /\ u.kept = v.kept \cup {n} /\ DOMAIN u.snaps = DOMAIN v.snaps \cup {n}
      /\ \A k \in DOMAIN v.snaps : u.snaps[k] = v.snaps[k]
      /\ u.snaps[n] = Snap("append", w, {} \cup {Entry(w, rows, n)})
  <2>1. n = Len(v.snaps) + 1 /\ {n, n} = {n}
    BY <1>3, <1>5
  <2> QED BY <1>4, <2>1 DEF Adds
<1>7. u.kept = t.kept \cup {i, n} /\ DOMAIN u.snaps = DOMAIN t.snaps \cup {i, n}
  BY <1>3, <1>6
<1>8. /\ \A k \in DOMAIN t.snaps : u.snaps[k] = t.snaps[k]
      /\ u.snaps[i] = Snap("delete", w, {})
  BY <1>2, <1>3, <1>6
<1>9. Len(t.snaps) + 2 = n
  BY <1>1, <1>5, LenProperties
<1> QED BY <1>1, <1>4, <1>5, <1>6, <1>7, <1>8, <1>9 DEF Adds

\* A commit keeps the shape of a table.
LEMMA TableCommitted ==
    ASSUME NEW t \in Tables, NEW op \in {"append", "overwrite"}, NEW w \in Jobs,
           NEW left \in SUBSET Files, NEW rows \in SUBSET Jobs,
           NEW u, u = WithSnapshot(t, op, w, left, rows)
    PROVE  /\ u \in Tables /\ u.id = t.id /\ u.live = t.live
           /\ Adds(t, u, op, w, left, rows) /\ Len(u.snaps) = Len(t.snaps) + 1
<1>1. PICK n : n = Len(t.snaps) + 1 /\ n \in Nat /\ t.snaps \in Seq(Snaps)
  BY LenProperties DEF Tables
<1>2. PICK s : s = Snap(op, w, left \cup {Entry(w, rows, n)})
  OBVIOUS
<1>3. u = [t EXCEPT !.snaps = Append(t.snaps, s), !.kept = t.kept \cup {n}]
  BY <1>1, <1>2 DEF WithSnapshot, Entry, Snap
<1>4. u.snaps = Append(t.snaps, s) /\ u.kept = t.kept \cup {n}
  BY <1>3 DEF Tables
<1>5. /\ Adds(t, u, op, w, left, rows) /\ Len(u.snaps) = Len(t.snaps) + 1
      /\ u.snaps \in Seq(Snaps)
  <2>1. u.kept = t.kept \cup {Len(t.snaps) + 1}
    BY <1>1, <1>4
  <2>2. u.snaps = Append(t.snaps, Snap(op, w, left \cup {Entry(w, rows, Len(t.snaps) + 1)}))
    BY <1>1, <1>2, <1>4
  <2>3. t.snaps \in Seq(Snaps)
    BY <1>1
  <2>4. Adds(t, u, op, w, left, rows)
    BY <2>1, <2>2, <2>3, RegistersFile
  <2>5. Len(u.snaps) = Len(t.snaps) + 1
    BY <2>1, <2>2, <2>3, <2>4, RegistersFile
  <2>6. u.snaps \in Seq(Snaps)
    BY <2>1, <2>2, <2>3, <2>4, RegistersFile
  <2> QED BY <2>4, <2>5, <2>6
<1> QED BY <1>1, <1>3, <1>4, <1>5 DEF Tables

\* And of the view.
LEMMA ViewCommitted ==
    ASSUME NEW t \in Views, NEW op \in {"append", "overwrite"}, NEW w \in Jobs,
           NEW left \in SUBSET Files, NEW rows \in SUBSET Jobs,
           NEW u, u = WithSnapshot(t, op, w, left, rows)
    PROVE  /\ u \in Views /\ u.since = t.since /\ u.status = t.status
           /\ Adds(t, u, op, w, left, rows) /\ Len(u.snaps) = Len(t.snaps) + 1
<1>1. PICK n : n = Len(t.snaps) + 1 /\ n \in Nat /\ t.snaps \in Seq(Snaps)
  BY LenProperties DEF Views
<1>2. PICK s : s = Snap(op, w, left \cup {Entry(w, rows, n)})
  OBVIOUS
<1>3. u = [t EXCEPT !.snaps = Append(t.snaps, s), !.kept = t.kept \cup {n}]
  BY <1>1, <1>2 DEF WithSnapshot, Entry, Snap
<1>4. u.snaps = Append(t.snaps, s) /\ u.kept = t.kept \cup {n}
  BY <1>3 DEF Views
<1>5. /\ Adds(t, u, op, w, left, rows) /\ Len(u.snaps) = Len(t.snaps) + 1
      /\ u.snaps \in Seq(Snaps)
  <2>1. u.kept = t.kept \cup {Len(t.snaps) + 1}
    BY <1>1, <1>4
  <2>2. u.snaps = Append(t.snaps, Snap(op, w, left \cup {Entry(w, rows, Len(t.snaps) + 1)}))
    BY <1>1, <1>2, <1>4
  <2>3. t.snaps \in Seq(Snaps)
    BY <1>1
  <2>4. Adds(t, u, op, w, left, rows)
    BY <2>1, <2>2, <2>3, RegistersFile
  <2>5. Len(u.snaps) = Len(t.snaps) + 1
    BY <2>1, <2>2, <2>3, <2>4, RegistersFile
  <2>6. u.snaps \in Seq(Snaps)
    BY <2>1, <2>2, <2>3, <2>4, RegistersFile
  <2> QED BY <2>4, <2>5, <2>6
<1> QED BY <1>1, <1>3, <1>4, <1>5 DEF Views

\* The files that commit_files leaves.
Left(t, how) == IF how = "overwrite" THEN {} ELSE CurrentFiles(t)

\* What commit_files makes of a table: one more snapshot, or two when it overwrites files.
LEMMA TableFilesCommitted ==
    ASSUME NEW t \in Tables, NEW how, NEW w \in Jobs, NEW rows \in SUBSET Jobs,
           NEW u, u = CommitFiles(t, how, w, rows), ~HasWrite(t, w)
    PROVE  /\ u \in Tables /\ u.id = t.id /\ u.live = t.live
           /\ Adds(t, u, "append", w, Left(t, how), rows) /\ Left(t, how) \in SUBSET Files
           /\ Len(u.snaps) = Len(t.snaps) + 1 => Left(t, how) = CurrentFiles(t)
           /\ CurrentFiles(t) # {} /\ how = "overwrite" => Len(u.snaps) = Len(t.snaps) + 2
<1>1. t.snaps \in Seq(Snaps) /\ Len(t.snaps) \in Nat /\ t.kept \in SUBSET Nat
  BY LenProperties DEF Tables
<1>2. CurrentFiles(t) \in SUBSET Files /\ Left(t, how) \in SUBSET Files
  BY <1>1, FilesAreFiles DEF Left
<1>3. CASE how # "overwrite" \/ CurrentFiles(t) = {}
  <2>1. u = WithSnapshot(t, "append", w, Left(t, how), rows) /\ Left(t, how) = CurrentFiles(t)
    BY <1>3 DEF CommitFiles, Emptied, Left
  <2>2. /\ u \in Tables /\ u.id = t.id /\ u.live = t.live
        /\ Adds(t, u, "append", w, Left(t, how), rows) /\ Len(u.snaps) = Len(t.snaps) + 1
    BY <1>2, <2>1, TableCommitted
  <2> QED BY <1>2, <1>3, <2>1, <2>2
<1>4. CASE how = "overwrite" /\ CurrentFiles(t) # {}
  <2>1. PICK i : i = Len(t.snaps) + 1 /\ i \in Nat
    BY <1>1
  <2>2. PICK d \in Snaps : d = Snap("delete", w, {})
    BY EntryFacts
  <2>3. PICK v : v = [t EXCEPT !.snaps = Append(t.snaps, d), !.kept = t.kept \cup {i}]
    OBVIOUS
  <2>4. Emptied(t, w) = v
    BY <1>4, <2>1, <2>2, <2>3 DEF Emptied, Snap
  <2>5. v.snaps = Append(t.snaps, d) /\ v.kept = t.kept \cup {i} /\ v.id = t.id /\ v.live = t.live
    BY <2>3 DEF Tables
  <2>6. Len(v.snaps) = i /\ i # 0 /\ v.snaps \in Seq(Snaps) /\ v.snaps[i] = d
    BY <1>1, <2>1, <2>2, <2>5, OneMore
  <2>7. v \in Tables
    BY <1>1, <2>1, <2>3, <2>5, <2>6 DEF Tables
  <2>8. CurrentFiles(v) = {} /\ Left(t, how) = {}
    BY <1>4, <2>2, <2>6 DEF CurrentFiles, CurrentSnapshot, FilesAt, Snap, Left
  <2>9. u = WithSnapshot(v, "append", w, {}, rows)
    BY <1>4, <2>4, <2>8 DEF CommitFiles
  <2>10. /\ u \in Tables /\ u.id = t.id /\ u.live = t.live
         /\ Adds(v, u, "append", w, {}, rows) /\ Len(u.snaps) = Len(v.snaps) + 1
    BY <2>5, <2>7, <2>9, TableCommitted
  <2>11. Adds(t, u, "append", w, {}, rows) /\ Len(u.snaps) = Len(t.snaps) + 2
    BY <1>1, <2>1, <2>2, <2>5, <2>10, RegistersAfter
  <2> QED BY <1>1, <1>2, <2>8, <2>10, <2>11
<1> QED BY <1>3, <1>4

\* And of the view.
LEMMA ViewFilesCommitted ==
    ASSUME NEW t \in Views, NEW how, NEW w \in Jobs, NEW rows \in SUBSET Jobs,
           NEW u, u = CommitFiles(t, how, w, rows), ~HasWrite(t, w)
    PROVE  /\ u \in Views /\ u.since = t.since /\ u.status = t.status
           /\ Adds(t, u, "append", w, Left(t, how), rows) /\ Left(t, how) \in SUBSET Files
           /\ Len(u.snaps) = Len(t.snaps) + 1 => Left(t, how) = CurrentFiles(t)
           /\ CurrentFiles(t) # {} /\ how = "overwrite" => Len(u.snaps) = Len(t.snaps) + 2
<1>1. t.snaps \in Seq(Snaps) /\ Len(t.snaps) \in Nat /\ t.kept \in SUBSET Nat
  BY LenProperties DEF Views
<1>2. CurrentFiles(t) \in SUBSET Files /\ Left(t, how) \in SUBSET Files
  BY <1>1, FilesAreFiles DEF Left
<1>3. CASE how # "overwrite" \/ CurrentFiles(t) = {}
  <2>1. u = WithSnapshot(t, "append", w, Left(t, how), rows) /\ Left(t, how) = CurrentFiles(t)
    BY <1>3 DEF CommitFiles, Emptied, Left
  <2>2. /\ u \in Views /\ u.since = t.since /\ u.status = t.status
        /\ Adds(t, u, "append", w, Left(t, how), rows) /\ Len(u.snaps) = Len(t.snaps) + 1
    BY <1>2, <2>1, ViewCommitted
  <2> QED BY <1>2, <1>3, <2>1, <2>2
<1>4. CASE how = "overwrite" /\ CurrentFiles(t) # {}
  <2>1. PICK i : i = Len(t.snaps) + 1 /\ i \in Nat
    BY <1>1
  <2>2. PICK d \in Snaps : d = Snap("delete", w, {})
    BY EntryFacts
  <2>3. PICK v : v = [t EXCEPT !.snaps = Append(t.snaps, d), !.kept = t.kept \cup {i}]
    OBVIOUS
  <2>4. Emptied(t, w) = v
    BY <1>4, <2>1, <2>2, <2>3 DEF Emptied, Snap
  <2>5. v.snaps = Append(t.snaps, d) /\ v.kept = t.kept \cup {i} /\ v.since = t.since /\ v.status = t.status
    BY <2>3 DEF Views
  <2>6. Len(v.snaps) = i /\ i # 0 /\ v.snaps \in Seq(Snaps) /\ v.snaps[i] = d
    BY <1>1, <2>1, <2>2, <2>5, OneMore
  <2>7. v \in Views
    BY <1>1, <2>1, <2>3, <2>5, <2>6 DEF Views
  <2>8. CurrentFiles(v) = {} /\ Left(t, how) = {}
    BY <1>4, <2>2, <2>6 DEF CurrentFiles, CurrentSnapshot, FilesAt, Snap, Left
  <2>9. u = WithSnapshot(v, "append", w, {}, rows)
    BY <1>4, <2>4, <2>8 DEF CommitFiles
  <2>10. /\ u \in Views /\ u.since = t.since /\ u.status = t.status
         /\ Adds(v, u, "append", w, {}, rows) /\ Len(u.snaps) = Len(v.snaps) + 1
    BY <2>5, <2>7, <2>9, ViewCommitted
  <2>11. Adds(t, u, "append", w, {}, rows) /\ Len(u.snaps) = Len(t.snaps) + 2
    BY <1>1, <2>1, <2>2, <2>5, <2>10, RegistersAfter
  <2> QED BY <1>1, <1>2, <2>8, <2>10, <2>11
<1> QED BY <1>3, <1>4

\* What a commit makes of the table.
LEMMA CommittedFacts ==
    ASSUME TInv, NEW p \in Pubs, p.kind \in {"ingest", "optimize"}, PubFits(p)
    PROVE  \/ Committed(p) = table /\ HasWrite(table, p.job)
           \/ /\ ~HasWrite(table, p.job) /\ Written(p) \in SUBSET Jobs
              /\ Committed(p) \in Tables
              /\ Committed(p).id = table.id /\ Committed(p).live = table.live
              /\ \E op \in {"append", "overwrite"}, left \in SUBSET CurrentFiles(table) :
                   /\ Adds(table, Committed(p), op, p.job, left, Written(p))
                   /\ p.kind = "ingest" =>
                        /\ op = "append"
                        /\ Len(Committed(p).snaps) = Len(table.snaps) + 1
                             => left = CurrentFiles(table)
                   /\ p.kind = "optimize" =>
                        /\ op = "overwrite"
                        /\ left = {e \in CurrentFiles(table) : e.path \notin payload[p.job].files}
<1>1. p.job \in Jobs /\ payload[p.job].rows \in SUBSET Jobs /\ table \in Tables
  BY TableKnows DEF Pubs, TInv, Shape, Works
<1>2. Written(p) \in SUBSET Jobs
  BY <1>1 DEF Written
<1>3. CASE HasWrite(table, p.job)
  BY <1>3 DEF Committed, CommitFiles, ReplaceFiles
<1>4. CASE p.kind = "ingest" /\ ~HasWrite(table, p.job)
  <2>1. PICK u : u = Committed(p)
    OBVIOUS
  <2>2. PICK how : how = CommitMode(p)
    OBVIOUS
  <2>3. u = CommitFiles(table, how, p.job, Written(p))
    BY <1>4, <2>1, <2>2 DEF Committed
  <2>4. /\ u \in Tables /\ u.id = table.id /\ u.live = table.live
        /\ Adds(table, u, "append", p.job, Left(table, how), Written(p))
        /\ Len(u.snaps) = Len(table.snaps) + 1 => Left(table, how) = CurrentFiles(table)
    BY <1>1, <1>2, <1>4, <2>3, TableFilesCommitted
  <2>5. Left(table, how) \in SUBSET CurrentFiles(table)
    BY DEF Left
  <2> QED BY <1>2, <1>4, <2>1, <2>4, <2>5
<1>5. CASE p.kind = "optimize" /\ ~HasWrite(table, p.job)
  <2>1. PICK u : u = Committed(p)
    OBVIOUS
  <2>2. PICK left : left = {e \in CurrentFiles(table) : e.path \notin payload[p.job].files}
    OBVIOUS
  <2>3. u = WithSnapshot(table, "overwrite", p.job, left, Written(p))
    BY <1>5, <2>1, <2>2 DEF Committed, ReplaceFiles
  <2>4. left \in SUBSET CurrentFiles(table) /\ left \in SUBSET Files
    BY <2>2, FilesAreFiles, TableKnows
  <2>5. /\ u \in Tables /\ u.id = table.id /\ u.live = table.live
        /\ Adds(table, u, "overwrite", p.job, left, Written(p))
    BY <1>1, <1>2, <2>3, <2>4, TableCommitted
  <2> QED BY <1>2, <1>5, <2>1, <2>2, <2>4, <2>5
<1> QED BY <1>3, <1>4, <1>5

\* The files of the table were registered no later than they are seen.
LEMMA SnapshotAdded ==
    ASSUME TInv, NEW op, NEW w \in Jobs, NEW rows \in SUBSET Jobs,
           NEW left \in SUBSET CurrentFiles(table), view' = view,
           Adds(table, table', op, w, left, rows)
    PROVE  TablesFit'
<1>1. table.snaps \in Seq(Snaps) /\ Len(table.snaps) \in Nat
      /\ DOMAIN table.snaps = 1 .. Len(table.snaps)
  BY TableKnows
<1>2. PICK u : u = table'
  OBVIOUS
<1>3. PICK i, n : i = Len(table.snaps) + 1 /\ n = Len(u.snaps)
  OBVIOUS
<1>4. /\ i \in Nat /\ n \in Nat /\ (n = i \/ n = i + 1)
      /\ u.kept = table.kept \cup {i, n} /\ DOMAIN u.snaps = DOMAIN table.snaps \cup {i, n}
      /\ \A k \in DOMAIN table.snaps : u.snaps[k] = table.snaps[k]
      /\ n # i => u.snaps[i].files = {}
  BY <1>1, <1>2, <1>3, EntryFacts DEF Adds
<1>5. PICK e : e = Entry(w, rows, n) /\ e.at = n /\ u.snaps[n].files = left \cup {e}
  <2>1. u.snaps[n] = Snap(op, w, left \cup {Entry(w, rows, n)})
    BY <1>2, <1>3 DEF Adds
  <2> QED BY <2>1, EntryFacts
<1>6. \A k \in DOMAIN u.snaps : \A f \in u.snaps[k].files : f.at \in 1 .. k
  <2> SUFFICES ASSUME NEW k \in DOMAIN u.snaps, NEW f \in u.snaps[k].files
               PROVE  f.at \in 1 .. k
    OBVIOUS
  <2>1. CASE k \in DOMAIN table.snaps
    BY <1>4, <2>1 DEF TInv, TablesFit
  <2>2. CASE k = n /\ f = e
    BY <1>1, <1>3, <1>4, <1>5, <2>2
  <2>3. CASE k = n /\ f \in left
    <3>1. CurrentFiles(table) # {} => /\ Len(table.snaps) \in DOMAIN table.snaps
                                      /\ CurrentFiles(table) = table.snaps[Len(table.snaps)].files
      BY <1>1 DEF CurrentFiles, CurrentSnapshot, FilesAt
    <3>2. f.at \in 1 .. Len(table.snaps)
      BY <2>3, <3>1 DEF TInv, TablesFit
    <3>3. Len(table.snaps) <= n
      BY <1>1, <1>3, <1>4
    <3> QED BY <1>1, <1>4, <2>3, <3>2, <3>3
  <2>4. k \in DOMAIN table.snaps \/ k = n \/ (k = i /\ n # i)
    BY <1>4
  <2> QED BY <1>4, <1>5, <2>1, <2>2, <2>3, <2>4
<1>7. u.kept \subseteq DOMAIN u.snaps
  BY <1>4 DEF TInv, TablesFit
<1> QED BY <1>2, <1>6, <1>7 DEF TInv, TablesFit

\* The publisher commits to the table.
LEMMA CommitInv == ASSUME TInv, Commit PROVE TInv'
<1>1. /\ publisher.at = "commit" /\ Current.kind \in {"ingest", "optimize"}
      /\ UNCHANGED <<view, deleted, records, compute, pubs, handler>>
      /\ table' \in {table, Committed(Current)} /\ faults' \in 0 .. MaxFaults
      /\ ToFail \/ GoOn("settle")
  BY ConstantFacts DEF Commit, TInv, PublisherFits, Shape, Fault
<1>2. /\ publisher' \in Publishers /\ publisher'.at \in {"fail", "settle"}
      /\ publisher'.todo = publisher.todo
  BY <1>1, ToFailFacts, GoOnFacts
<1>3. /\ table' \in Tables /\ table'.id = table.id /\ table'.live = table.live
      /\ TablesFit'
  <2>1. CASE table' = table
    BY <1>1, <2>1, TableKnows DEF TInv, TablesFit
  <2>2. CASE table' # table
    <3>1. Current \in Pubs /\ PubFits(Current) /\ Current.job \in Jobs
      BY <1>1, CurrentFacts DEF Pubs
    <3>2. table' = Committed(Current) /\ Committed(Current) # table
      BY <1>1, <2>2
    <3>3. /\ Written(Current) \in SUBSET Jobs
          /\ table' \in Tables /\ table'.id = table.id /\ table'.live = table.live
          /\ \E op, left : /\ left \in SUBSET CurrentFiles(table)
                           /\ Adds(table, table', op, Current.job, left, Written(Current))
      BY <1>1, <3>1, <3>2, CommittedFacts
    <3> QED BY <1>1, <3>1, <3>3, SnapshotAdded
  <2> QED BY <2>1, <2>2
<1>4. Shape'
  BY <1>1, <1>2, <1>3 DEF TInv, Shape, records, compute
<1>5. Grows
  BY <1>1, <1>3, TableKnows DEF Grows, Accepted, records, compute
<1>6. HandlersFit' /\ PubsFit' /\ OneHand'
  BY <1>1, <1>2, <1>4, <1>5, PublisherWorks
<1>7. PublisherFits'
  BY <1>1, <1>2, GoesOn
<1>8. IdsFit'
  BY <1>1, <1>3 DEF TInv, IdsFit, records
<1> QED BY <1>3, <1>4, <1>6, <1>7, <1>8 DEF TInv

\* The publisher commits to the view.
LEMMA CommitRefreshInv == ASSUME TInv, CommitRefresh PROVE TInv'
<1> DEFINE op == IF Current.full THEN "overwrite" ELSE "append"
           committed == CommitFiles(view, op, Current.job, Written(Current))
<1>1. /\ publisher.at = "commit" /\ Current.kind = "refresh"
      /\ UNCHANGED <<table, deleted, records, compute, pubs, handler>>
      /\ view' \in {view, committed} /\ faults' \in 0 .. MaxFaults
      /\ ToFail \/ GoOn("settle")
  BY ConstantFacts DEF CommitRefresh, TInv, Shape, Fault
<1>2. /\ publisher' \in Publishers /\ publisher'.at \in {"fail", "settle"}
      /\ publisher'.todo = publisher.todo
  BY <1>1, ToFailFacts, GoOnFacts
<1>3. view' \in Views /\ view'.since = view.since /\ view'.kept = DOMAIN view'.snaps
  <2>1. CASE view' = view
    BY <2>1, TableKnows DEF TInv, TablesFit
  <2>2. CASE view' # view
    <3>1. Current.job \in Jobs /\ Written(Current) \in SUBSET Jobs
      <4>1. Current.job \in Jobs
        BY <1>1, CurrentFacts DEF Pubs
      <4> QED BY <4>1 DEF Written, TInv, Shape, Works
    <3>2. view' = committed /\ ~HasWrite(view, Current.job)
      BY <1>1, <2>2 DEF CommitFiles
    <3> HIDE DEF op
    <3>3. PICK u : u = view'
      OBVIOUS
    <3>4. u = CommitFiles(view, op, Current.job, Written(Current)) /\ view \in Views
      BY <3>2, <3>3, TableKnows
    <3> HIDE DEF committed
    <3>5. /\ u \in Views /\ u.since = view.since
          /\ Adds(view, u, "append", Current.job, Left(view, op), Written(Current))
      BY <3>1, <3>2, <3>4, ViewFilesCommitted
    <3> QED BY <3>3, <3>5 DEF TInv, TablesFit, Adds
  <2> QED BY <2>1, <2>2
<1>4. Shape'
  BY <1>1, <1>2, <1>3 DEF TInv, Shape, records, compute
<1>5. Grows
  BY <1>1, <1>3, TableKnows DEF Grows, Accepted, records, compute
<1>6. HandlersFit' /\ PubsFit' /\ OneHand'
  BY <1>1, <1>2, <1>4, <1>5, PublisherWorks
<1>7. PublisherFits'
  BY <1>1, <1>2, GoesOn
<1>8. IdsFit' /\ TablesFit'
  BY <1>1, <1>3 DEF TInv, IdsFit, TablesFit, records
<1> QED BY <1>4, <1>6, <1>7, <1>8 DEF TInv

\* The records say that it has succeeded.
LEMMA SettleInv == ASSUME TInv, Settle PROVE TInv'
<1>1. /\ publisher.at = "settle" /\ Current.kind # "infer"
      /\ UNCHANGED <<table, deleted, mode, compute, pubs, handler, faults>>
  BY DEF Settle, TInv, PublisherFits
<1>2. /\ publisher' \in Publishers /\ publisher'.at \in {"fail", "mark"}
      /\ publisher'.todo = publisher.todo
  BY <1>1, ToFailFacts, GoOnFacts DEF Settle
<1>3. Current \in Pubs /\ PubFits(Current)
  BY <1>1, CurrentFacts
<1>4. import' \in [Imports -> Imported] /\ \A i \in Imports : import[i] # "none" => import'[i] # "none"
  <2>1. \/ import' = import
        \/ Current.kind = "ingest" /\ import' = [import EXCEPT ![Current.of] = "succeeded"]
    BY DEF Settle
  <2>2. Current.kind = "ingest" => Current.of \in Imports
    BY <1>3 DEF PubFits
  <2> QED BY <2>1, <2>2 DEF TInv, Shape, Imported
<1>5. run' \in [Maintenance -> Runs] /\ \A q \in Maintenance : run'[q].table = run[q].table
  <2>1. run \in [Maintenance -> Runs] /\ (run' = run \/ run' = [run EXCEPT ![Current.of].status = "succeeded"])
    BY DEF Settle, TInv, Shape
  <2> QED BY <2>1 DEF Runs
<1>6. view' \in Views /\ view'.since.id <= table.id /\ view'.snaps = view.snaps /\ view'.kept = view.kept
  <2>1. view' = view \/ view' = [view EXCEPT !.status = "fresh", !.since = Current.source]
    BY DEF Settle
  <2>2. Current.source \in Source /\ Current.source.id <= table.id
    BY <1>3 DEF Pubs, PubFits
  <2> QED BY <2>1, <2>2, TableKnows DEF Views, TInv, IdsFit
<1>7. Shape'
  BY <1>1, <1>2, <1>4, <1>5, <1>6 DEF TInv, Shape, compute
<1>8. Grows
  BY <1>1, <1>4, TableKnows DEF Grows, Accepted, compute
<1>9. HandlersFit' /\ PubsFit' /\ OneHand'
  BY <1>1, <1>2, <1>7, <1>8, PublisherWorks
<1>10. PublisherFits'
  BY <1>1, <1>2, GoesOn
<1>11. IdsFit' /\ TablesFit'
  BY <1>1, <1>5, <1>6 DEF TInv, IdsFit, TablesFit
<1> QED BY <1>7, <1>9, <1>10, <1>11 DEF TInv

\* The records say that it has failed.
LEMMA FailInv == ASSUME TInv, Fail PROVE TInv'
<1>1. /\ publisher.at = "fail" /\ GoOn("mark")
      /\ UNCHANGED <<deleted, mode, compute, pubs, handler, faults>>
  BY DEF Fail
<1>2. /\ publisher' \in Publishers /\ publisher'.at = "mark"
      /\ publisher'.todo = publisher.todo
  BY <1>1, GoOnFacts
<1>3. Current \in Pubs /\ PubFits(Current)
  BY <1>1, CurrentFacts
<1>4. import' \in [Imports -> Imported] /\ \A i \in Imports : import[i] # "none" => import'[i] # "none"
  <2>1. \/ import' = import
        \/ Current.kind \in {"infer", "ingest"} /\ import' = [import EXCEPT ![Current.of] = "failed"]
    BY DEF Fail
  <2>2. Current.kind \in {"infer", "ingest"} => Current.of \in Imports
    BY <1>3 DEF PubFits
  <2> QED BY <2>1, <2>2 DEF TInv, Shape, Imported
<1>5. run' \in [Maintenance -> Runs] /\ \A q \in Maintenance : run'[q].table <= table.id
  <2>1. /\ run \in [Maintenance -> Runs]
        /\ \/ run' = run
           \/ run' = [run EXCEPT ![Current.of].status = "failed"]
           \/ run' = RunsWithout(Current.table)
    BY DEF Fail, TInv, Shape
  <2>2. CASE run' = RunsWithout(Current.table)
    BY <2>2, DroppedFacts
  <2>3. CASE run' # RunsWithout(Current.table)
    BY <2>1, <2>3 DEF Runs, TInv, IdsFit
  <2> QED BY <2>2, <2>3
<1>6. view' \in Views /\ view'.since = view.since /\ view'.snaps = view.snaps /\ view'.kept = view.kept
  <2>1. view' = view \/ view' = [view EXCEPT !.status = "failed"]
    BY DEF Fail
  <2> QED BY <2>1, TableKnows DEF Views
<1>7. /\ table' \in Tables /\ table'.id = table.id /\ table'.snaps = table.snaps /\ table'.kept = table.kept
      /\ (table'.live => table.live)
  <2>1. table' = table \/ table' = Dropped
    BY DEF Fail
  <2> QED BY <2>1, TableKnows, DroppedFacts
<1>8. Shape'
  BY <1>1, <1>2, <1>4, <1>5, <1>6, <1>7 DEF TInv, Shape, compute
<1>9. Grows
  BY <1>1, <1>4, <1>7, TableKnows DEF Grows, Accepted, compute
<1>10. HandlersFit' /\ PubsFit' /\ OneHand'
  BY <1>1, <1>2, <1>8, <1>9, PublisherWorks
<1>11. PublisherFits'
  BY <1>1, <1>2, GoesOn
<1>12. IdsFit' /\ TablesFit'
  BY <1>5, <1>6, <1>7, TableKnows DEF TInv, IdsFit, TablesFit
<1> QED BY <1>8, <1>10, <1>11, <1>12 DEF TInv

\* What is left of a publication that is settled.
LEMMA MarkFacts ==
    ASSUME TInv, Mark
    PROVE  /\ pubs' \in Seq(Pubs) /\ DOMAIN pubs' = DOMAIN pubs
           /\ \A n \in DOMAIN pubs :
                /\ pubs'[n].job = pubs[n].job /\ pubs'[n].kind = pubs[n].kind /\ pubs'[n].of = pubs[n].of
                /\ pubs'[n].table = pubs[n].table /\ pubs'[n].source = pubs[n].source
                /\ pubs'[n].created = pubs[n].created /\ pubs'[n].full = pubs[n].full
                /\ n # First(publisher.todo) => pubs'[n] = pubs[n]
           /\ pubs'[First(publisher.todo)].state \in {"done", "failed"}
           /\ publisher' \in Publishers /\ publisher'.at = "next"
           /\ publisher'.todo = publisher.todo \ {First(publisher.todo)}
<1>1. publisher.at = "mark"
  BY DEF Mark
<1>2. /\ First(publisher.todo) \in publisher.todo /\ First(publisher.todo) \in DOMAIN pubs
      /\ publisher \in Publishers /\ pubs \in Seq(Pubs)
  BY <1>1, CurrentFacts
<1>3. PICK n : n = First(publisher.todo)
  OBVIOUS
<1>4. pubs' = [pubs EXCEPT ![n].state = publisher.state] /\ publisher.state \in {"done", "failed"}
  BY <1>2, <1>3 DEF Mark, Publishers
<1>5. pubs[n] \in Pubs /\ pubs' = [pubs EXCEPT ![n] = [pubs[n] EXCEPT !.state = publisher.state]]
  BY <1>2, <1>3, <1>4, ElementOfSeq
<1>6. PICK p : p = [pubs[n] EXCEPT !.state = publisher.state]
  OBVIOUS
<1>7. /\ p \in Pubs /\ p.job = pubs[n].job /\ p.kind = pubs[n].kind /\ p.of = pubs[n].of
      /\ p.table = pubs[n].table /\ p.source = pubs[n].source /\ p.created = pubs[n].created
      /\ p.full = pubs[n].full
      /\ p.state = publisher.state
  BY <1>4, <1>5, <1>6 DEF Pubs
<1>8. pubs' = [pubs EXCEPT ![n] = p]
  BY <1>5, <1>6
<1>9. pubs' \in Seq(Pubs) /\ DOMAIN pubs' = DOMAIN pubs
  BY <1>2, <1>3, <1>7, <1>8
<1>10. pubs'[n] = p /\ \A m \in DOMAIN pubs : m # n => pubs'[m] = pubs[m]
  BY <1>2, <1>3, <1>8
<1>11. /\ publisher' \in Publishers /\ publisher'.at = "next"
       /\ publisher'.todo = publisher.todo \ {n}
  <2>1. publisher' = [publisher EXCEPT !.at = "next", !.todo = @ \ {n}]
    BY <1>3 DEF Mark
  <2> QED BY <1>2, <2>1 DEF Publishers
<1> QED BY <1>3, <1>4, <1>7, <1>9, <1>10, <1>11

\* The publication is settled.
LEMMA MarkInv == ASSUME TInv, Mark PROVE TInv'
<1>1. UNCHANGED <<table, view, deleted, records, compute, handler, faults>>
  BY DEF Mark
<1>2. Shape'
  BY <1>1, MarkFacts DEF TInv, Shape, records, compute
<1>3. Grows
  BY <1>1, TableKnows DEF Grows, Accepted, records, compute
<1>4. HandlersFit'
  BY <1>1, <1>2, <1>3, HandlersStay DEF TInv
<1>5. PubsFit'
  <2>1. /\ DOMAIN pubs' = DOMAIN pubs
        /\ \A n \in DOMAIN pubs : /\ pubs'[n].job = pubs[n].job /\ pubs'[n].kind = pubs[n].kind
                                  /\ pubs'[n].of = pubs[n].of /\ pubs'[n].table = pubs[n].table
                                  /\ pubs'[n].source = pubs[n].source
    BY MarkFacts
  <2> QED BY <1>2, <1>3, <2>1, PubsStay DEF TInv
<1>6. OneHand'
  BY <1>1, MarkFacts, HandsStay DEF TInv
<1>7. PublisherFits'
  <2>1. publisher'.at = "next"
    BY MarkFacts
  <2>2. \A n \in publisher'.todo : n \in DOMAIN pubs' /\ pubs'[n].state = "pending"
    BY MarkFacts DEF TInv, PublisherFits
  <2> QED BY <2>1, <2>2 DEF PublisherFits
<1>8. IdsFit' /\ TablesFit'
  BY <1>1 DEF TInv, IdsFit, TablesFit, records
<1> QED BY <1>2, <1>4, <1>5, <1>6, <1>7, <1>8 DEF TInv

\* What is left of the requests.
LEMMA CrashFacts ==
    ASSUME TInv, Crash
    PROVE  /\ handler' \in [Requests -> Handlers]
           /\ \A q \in Requests : /\ handler'[q] = handler[q] \/ handler'[q].at = "over"
                                  /\ handler'[q].at \in {"start", "over"}
                                  /\ handler'[q].table = handler[q].table /\ handler'[q].info = handler[q].info
                                  /\ handler'[q].source = handler[q].source
<1>1. \A q \in Requests : handler'[q] = IF handler[q].at = "start" THEN handler[q]
                                        ELSE [handler[q] EXCEPT !.at = "over"]
  BY DEF Crash
<1>2. handler' = [q \in Requests |-> handler'[q]]
  BY DEF Crash
<1>3. ASSUME NEW q \in Requests
      PROVE  /\ handler'[q] \in Handlers
             /\ handler'[q] = handler[q] \/ handler'[q].at = "over"
             /\ handler'[q].at \in {"start", "over"}
             /\ handler'[q].table = handler[q].table /\ handler'[q].info = handler[q].info
             /\ handler'[q].source = handler[q].source
  <2>1. handler[q] \in Handlers
    BY HandlerKnows
  <2>2. CASE handler[q].at = "start"
    BY <1>1, <2>1, <2>2
  <2>3. CASE handler[q].at # "start"
    <3>1. handler'[q] = [handler[q] EXCEPT !.at = "over"]
      BY <1>1, <2>3
    <3> QED BY <2>1, <3>1 DEF Handlers
  <2> QED BY <2>2, <2>3
<1> QED BY <1>2, <1>3

\* The process dies and is started again.
LEMMA CrashInv == ASSUME TInv, Crash PROVE TInv'
<1>1. /\ publisher' = [at |-> "idle", todo |-> {}, job |-> 0, state |-> "done"]
      /\ UNCHANGED <<table, view, deleted, records, compute, pubs>>
      /\ faults' \in 0 .. MaxFaults
  BY ConstantFacts DEF Crash, Resting, Fault, TInv, Shape
<1>2. publisher' \in Publishers
  BY <1>1 DEF Publishers
<1>3. Shape'
  BY <1>1, <1>2, CrashFacts DEF TInv, Shape, records, compute
<1>4. Grows
  BY <1>1, TableKnows DEF Grows, Accepted, records, compute
<1>5. HandlersFit'
  <2> SUFFICES ASSUME NEW q \in Requests PROVE HandlerFits(q, handler[q])'
    BY DEF HandlersFit
  <2>1. /\ handler'[q].at \in {"start", "over"} /\ table'.id = table.id
        /\ handler'[q].table <= table.id /\ handler'[q].info.id <= table.id /\ handler'[q].source.id <= table.id
    BY <1>1, CrashFacts, HandlerKnows
  <2> QED BY <2>1 DEF HandlerFits
<1>6. PubsFit'
  BY <1>1, <1>3, <1>4, PubsStay DEF TInv
<1>7. PublisherFits'
  BY <1>1 DEF PublisherFits
<1>8. OneHand'
  <2>1. \A q \in Requests : handler'[q].at # "insert"
    BY CrashFacts
  <2> QED BY <1>1, <2>1 DEF TInv, OneHand
<1>9. IdsFit' /\ TablesFit'
  BY <1>1 DEF TInv, IdsFit, TablesFit, records
<1> QED BY <1>3, <1>5, <1>6, <1>7, <1>8, <1>9 DEF TInv

-----------------------------------------------------------------------------
(* The invariant.                                                          *)

\* At first nothing has been asked for.
LEMMA InitTInv == ASSUME Init PROVE TInv
<1>1. /\ table = [id |-> IF Existing THEN 1 ELSE 0, live |-> Existing, snaps |-> <<>>, kept |-> {}]
      /\ view = [since |-> Never, status |-> "refreshing", snaps |-> <<>>, kept |-> {}]
      /\ deleted = {} /\ faults = 0 /\ pubs = <<>>
      /\ import = [i \in Imports |-> "none"] /\ mode = [i \in Imports |-> "create"]
      /\ run = [q \in Maintenance |-> NoRun] /\ payload = [j \in Jobs |-> NoWork]
      /\ status = [j \in Jobs |-> "absent"]
      /\ handler = [q \in Requests |-> NotYet] /\ publisher = Resting
  BY DEF Init, Contract!Init
<1>2. Never \in Source /\ Never.id = 0 /\ << >> \in Seq(Snaps) /\ << >> \in Seq(Pubs) /\ 0 \in Nat
      /\ {} \in SUBSET Jobs /\ TRUE \in BOOLEAN /\ Existing \in BOOLEAN
  BY ConstantFacts DEF Never, Source
<1>3. /\ table \in Tables /\ table.id \in Nat /\ (table.live => table.id # 0)
      /\ table.snaps = <<>> /\ table.kept = {}
  BY <1>1, <1>2 DEF Tables
<1>4. view \in Views /\ view.since = Never /\ view.snaps = <<>> /\ view.kept = {}
  BY <1>1, <1>2 DEF Views
<1>5. NoRun \in Runs /\ NoRun.table = 0
  BY DEF NoRun, Runs
<1>6. NoWork \in Works
  BY DEF NoWork, Works
<1>7. NotYet \in Handlers /\ NotYet.at = "start" /\ NotYet.table = 0 /\ NotYet.info = Never /\ NotYet.source = Never
  BY <1>2 DEF NotYet, Handlers
<1>8. Resting \in Publishers /\ Resting.at = "idle" /\ Resting.todo = {}
  BY DEF Resting, Publishers
<1>9. Shape
  <2>1. 0 \in 0 .. MaxFaults
    BY ConstantFacts
  <2>2. import \in [Imports -> Imported] /\ mode \in [Imports -> {"create", "append", "overwrite"}]
    BY <1>1 DEF Imported
  <2>3. /\ run \in [Maintenance -> Runs] /\ payload \in [Jobs -> Works]
        /\ status \in [Jobs -> {"absent", "pending"} \cup Contract!Outcomes]
        /\ handler \in [Requests -> Handlers] /\ publisher \in Publishers
    BY <1>1, <1>5, <1>6, <1>7, <1>8
  <2> QED BY <1>1, <1>2, <1>3, <1>4, <2>1, <2>2, <2>3 DEF Shape
<1>10. IdsFit
  BY <1>1, <1>2, <1>3, <1>4, <1>5 DEF IdsFit
<1>11. HandlersFit
  BY <1>1, <1>2, <1>3, <1>7 DEF HandlersFit, HandlerFits
<1>12. PubsFit /\ PublisherFits /\ OneHand
  BY <1>1, <1>7, <1>8 DEF PubsFit, PublisherFits, OneHand
<1>13. TablesFit
  BY <1>3, <1>4 DEF TablesFit
<1> QED BY <1>9, <1>10, <1>11, <1>12, <1>13 DEF TInv

\* No step breaks it.
LEMMA NextTInv == ASSUME TInv, [Next]_vars PROVE TInv'
<1>1. ASSUME NEW i \in Imports, CreateImport(i) PROVE TInv'
  BY <1>1, CreateImportInv
<1>2. ASSUME NEW q \in Requests, Serve(q) PROVE TInv'
  BY <1>2, ArriveInv, QueueInv, NotUploadedInv, PlanOptimizeInv, PlanExpireInv, FindAppendedInv,
     PlanRefreshInv, PostJobInv, InsertPublicationInv, DropTableInv DEF Serve
<1>3. ASSUME Publish PROVE TInv'
  BY <1>3, ReconcileInv, LookInv, PassEndsInv, CreateTableInv, PostIngestInv, InsertIngestInv,
     CommitInv, CommitRefreshInv, SettleInv, FailInv, MarkInv DEF Publish
<1>4. ASSUME NEW j \in Jobs, JobEnds(j) PROVE TInv'
  BY <1>4, JobEndsInv
<1>5. CASE UNCHANGED vars
  <2>1. UNCHANGED <<table, view, deleted, import, mode, run, status, payload, pubs, handler, publisher, faults>>
    BY <1>5 DEF vars
  <2>2. Shape'
    BY <2>1 DEF TInv, Shape
  <2>3. Grows
    BY <2>1, TableKnows DEF Grows, Accepted
  <2>4. HandlersFit'
    BY <2>1, <2>2, <2>3, HandlersStay DEF TInv
  <2>5. PubsFit' /\ PublisherFits' /\ OneHand'
    BY <2>1, <2>2, <2>3, OthersStay
  <2>6. IdsFit' /\ TablesFit'
    BY <2>1 DEF TInv, IdsFit, TablesFit
  <2> QED BY <2>2, <2>4, <2>5, <2>6 DEF TInv
<1> QED BY <1>1, <1>2, <1>3, <1>4, <1>5, CrashInv DEF Next

\* Handlers, publisher and jobs keep to what they know of each other.
THEOREM PublicationsAreConsistent == Spec => []TInv
<1>1. Init => TInv
  BY InitTInv
<1>2. TInv /\ [Next]_vars => TInv'
  BY NextTInv
<1> QED BY <1>1, <1>2, PTL DEF Spec

\* The records keep their shape, a publication is of a job that was accepted, and a
\* snapshot holds files some job has written (publisher.py, tables.py).
THEOREM PublicationsAreTyped == Spec => []TypeOK
<1>1. ASSUME TInv PROVE TypeOK
  <2>1. /\ table.id \in Nat /\ table.live \in BOOLEAN /\ table.kept \subseteq DOMAIN table.snaps
        /\ view.since.id \in 0 .. table.id /\ view.kept = DOMAIN view.snaps
    BY <1>1, TableKnows DEF TInv, TablesFit, IdsFit, Source
  <2>2. ASSUME NEW n \in DOMAIN table.snaps
        PROVE  table.snaps[n] \in [op : {"append", "overwrite", "delete"}, write : Jobs,
                                  files : SUBSET Entries]
    <3>1. PICK s \in Snaps : s = table.snaps[n]
      BY <1>1, TableKnows, ElementOfSeq
    <3>2. DOMAIN table.snaps = 1 .. Len(table.snaps) /\ Len(table.snaps) \in Nat
      BY <1>1, TableKnows
    <3>3. s.files \in SUBSET Files /\ \A e \in s.files : e.at \in DOMAIN table.snaps
      BY <1>1, <3>1, <3>2 DEF Snaps, TInv, TablesFit
    <3>4. s.files \in SUBSET Entries
      BY <3>3 DEF Files, Entries
    <3> QED BY <3>1, <3>4 DEF Snaps
  <2>3. run \in [Maintenance -> [status : {"none", "running", "succeeded", "failed", "skipped"},
                                 table : 0 .. table.id]]
    BY <1>1, TableKnows DEF TInv, Shape, Runs, IdsFit
  <2>4. ASSUME NEW n \in DOMAIN pubs
        PROVE  /\ pubs[n].state \in {"pending", "done", "failed"}
               /\ status[pubs[n].job] # "absent"
               /\ pubs[n].kind = "ingest" => pubs[n].table \in 1 .. table.id
    <3>1. PICK p \in Pubs : p = pubs[n]
      BY <1>1, ElementOfSeq DEF TInv, Shape
    <3> QED BY <1>1, <3>1, TableKnows DEF Pubs, TInv, PubsFit, PubFits, Accepted
  <2>5. \A q \in Requests : handler[q].at \in {"start", "work", "plan", "post", "insert", "over"}
    BY <1>1, HandlerKnows DEF Handlers
  <2>6. /\ deleted \subseteq Jobs /\ import \in [Imports -> Imported]
        /\ mode \in [Imports -> {"create", "append", "overwrite"}]
        /\ status \in [Jobs -> {"absent", "pending"} \cup Contract!Outcomes]
        /\ publisher.at \in {"idle", "next", "create", "post", "insert", "commit", "settle", "fail", "mark"}
        /\ faults \in 0 .. MaxFaults
    BY <1>1 DEF TInv, Shape, Publishers
  <2> QED BY <2>1, <2>2, <2>3, <2>4, <2>5, <2>6 DEF TypeOK, Imported
<1> QED BY <1>1, PublicationsAreConsistent, PTL

-----------------------------------------------------------------------------
(* Second part.                                                            *)

\* What the snapshots and files of the table are.
LEMMA SnapKnows ==
    ASSUME TInv, FilesFit, SnapsFit, NEW k \in DOMAIN table.snaps
    PROVE  /\ table.snaps[k] \in Snaps /\ table.snaps[k].write \in Accepted /\ table.snaps[k].write \in InTable
           /\ k \in Nat /\ k \in 1 .. Len(table.snaps) /\ Len(table.snaps) \in DOMAIN table.snaps
           /\ \A e \in table.snaps[k].files :
                /\ e \in Files /\ e.path \in Accepted /\ e.path \in InTable /\ e.at \in DOMAIN table.snaps
                /\ e.at \in 1 .. k /\ table.snaps[e.at].write = e.path /\ e.rows = RowsOf(e.path)
                /\ table.snaps[e.at].op # "delete"
<1>1. table.snaps \in Seq(Snaps) /\ DOMAIN table.snaps = 1 .. Len(table.snaps) /\ Len(table.snaps) \in Nat
  BY TableKnows
<1>2. \A j \in DOMAIN table.snaps : table.snaps[j] \in Snaps
  BY <1>1, ElementOfSeq
<1>3. \A j \in DOMAIN table.snaps : table.snaps[j].write \in Accepted
  BY DEF SnapsFit, TInv, PubsFit, PubFits
<1>4. ASSUME NEW e \in table.snaps[k].files
      PROVE  /\ e \in Files /\ e.at \in 1 .. k /\ e.at \in DOMAIN table.snaps
             /\ table.snaps[e.at].write = e.path /\ e.rows = RowsOf(e.path)
             /\ table.snaps[e.at].op # "delete"
  <2>1. e \in Files
    BY <1>2 DEF Snaps
  <2>2. e.at \in 1 .. k /\ e.at \in Nat
    BY <2>1 DEF TInv, TablesFit, Files
  <2> QED BY <1>1, <2>1, <2>2 DEF FilesFit
<1>5. \A j \in DOMAIN table.snaps : table.snaps[j].write \in InTable
  BY DEF InTable
<1> QED BY <1>1, <1>2, <1>3, <1>4, <1>5

\* What the table holds now.
LEMMA CurrentKnows ==
    ASSUME TInv, FilesFit, SnapsFit
    PROVE  \A e \in CurrentFiles(table) :
             /\ Len(table.snaps) \in DOMAIN table.snaps /\ e \in table.snaps[Len(table.snaps)].files
             /\ e \in Files /\ e.path \in Accepted /\ e.path \in InTable /\ e.rows = RowsOf(e.path)
             /\ e \in AllEntries
<1> SUFFICES ASSUME NEW e \in CurrentFiles(table)
             PROVE  /\ Len(table.snaps) \in DOMAIN table.snaps /\ e \in table.snaps[Len(table.snaps)].files
                    /\ e \in Files /\ e.path \in Accepted /\ e.path \in InTable /\ e.rows = RowsOf(e.path)
                    /\ e \in AllEntries
  OBVIOUS
<1>1. PICK n : n = Len(table.snaps) /\ n \in Nat /\ DOMAIN table.snaps = 1 .. n
  BY TableKnows, LenProperties
<1>2. n # 0 /\ e \in table.snaps[n].files /\ e \in FilesAt(table, n)
  BY <1>1 DEF CurrentFiles, CurrentSnapshot, FilesAt
<1>3. n \in DOMAIN table.snaps
  BY <1>1, <1>2
<1>4. e \in AllEntries
  BY <1>2, <1>3 DEF AllEntries
<1> QED BY <1>1, <1>2, <1>3, <1>4, SnapKnows

\* The imports whose rows the table should have.
Counts(m) ==
    /\ m \in DOMAIN table.snaps /\ payload[table.snaps[m].write].op = "ingest"
    /\ \A k \in DOMAIN table.snaps :
         payload[table.snaps[k].write].op = "ingest" /\ table.snaps[k].op = "delete" => m >= k

\* That is how Since selects them.
LEMMA SinceIs ==
    /\ \A w : w \in Since(table) <=> \E m : Counts(m) /\ w = table.snaps[m].write
    /\ (\A w : w \in Since(table) <=> \E m : Counts(m) /\ w = table.snaps[m].write)'
BY DEF Since, Counts

\* The contents of the table are not touched.
SameTable ==
    /\ table'.id = table.id /\ table'.snaps = table.snaps /\ table'.kept = table.kept
    /\ table'.live => table.live

\* What jobs and publications are is not taken back.
Kept ==
    /\ \A j \in Accepted : j \in Accepted' /\ payload'[j] = payload[j]
    /\ \A n \in DOMAIN pubs : /\ n \in DOMAIN pubs' /\ pubs'[n].job = pubs[n].job
                              /\ pubs'[n].kind = pubs[n].kind /\ pubs'[n].table = pubs[n].table

\* So it stays right, as long as nothing else is doomed or to be rewritten.
LEMMA ContentsStay ==
    ASSUME TInv, PInv, SameTable, Kept, RewritesFit', Doomed' \subseteq Doomed
    PROVE  PInv'
<1>1. \A j \in Accepted : RowsOf(j)' = RowsOf(j)
  BY DEF RowsOf, Kept
<1>2. FilesFit'
  <2> SUFFICES ASSUME NEW k \in DOMAIN table.snaps, NEW e \in table.snaps[k].files
               PROVE  /\ table.snaps[e.at].write = e.path /\ table.snaps[e.at].op # "delete"
                      /\ e.rows = RowsOf(e.path)'
    BY DEF FilesFit, SameTable
  <2>1. table.snaps[e.at].write = e.path /\ table.snaps[e.at].op # "delete" /\ e.path \in Accepted /\ e.rows = RowsOf(e.path)
    BY SnapKnows DEF PInv
  <2>2. PICK w : w = e.path
    OBVIOUS
  <2>3. RowsOf(w)' = RowsOf(w)
    BY <1>1, <2>1, <2>2
  <2> QED BY <2>1, <2>2, <2>3
<1>3. SnapsFit'
  BY DEF SnapsFit, PInv, SameTable, Kept
<1>4. RowsOnce'
  <2>1. CurrentFiles(table)' = CurrentFiles(table)
    BY DEF CurrentFiles, CurrentSnapshot, FilesAt, SameTable
  <2>2. \A m : Counts(m)' <=> Counts(m)
    <3>1. \A m \in DOMAIN table.snaps : payload'[table.snaps[m].write].op = payload[table.snaps[m].write].op
      BY SnapKnows DEF PInv, Kept
    <3> QED BY <3>1 DEF Counts, SameTable
  <2>3. Since(table)' = Since(table)
    <3>1. \A w : w \in Since(table)' <=> w \in Since(table)
      BY <2>2, SinceIs DEF SameTable
    <3> QED BY <3>1 DEF Since
  <2> QED BY <2>1, <2>3 DEF PInv, RowsOnce
<1>5. DoomFits'
  <2>1. /\ CurrentFiles(table)' = CurrentFiles(table) /\ ReferencedFiles(table)' = ReferencedFiles(table)
        /\ InTable' = InTable
    BY DEF CurrentFiles, CurrentSnapshot, ReferencedFiles, FilesAt, InTable, SameTable
  <2> QED BY <2>1 DEF PInv, DoomFits, SameTable, Kept
<1> QED BY <1>2, <1>3, <1>4, <1>5 DEF PInv

\* A job that rewrites files still has their rows.
LEMMA RewritesStays ==
    ASSUME Kept, NEW j \in Accepted, Rewrites(j)
    PROVE  Rewrites(j)'
<1>1. \A f \in Accepted : RowsOf(f)' = RowsOf(f)
  BY DEF RowsOf, Kept
<1>2. payload'[j] = payload[j] /\ payload[j].files \subseteq Accepted
  BY DEF Kept, Rewrites
<1> QED BY <1>1, <1>2 DEF Rewrites, Kept

\* Files are planned and rewritten as before, if no other request has come as far.
LEMMA RewritesStay ==
    ASSUME TInv, PInv, SameTable, Kept,
           \A n \in DOMAIN pubs' : n \notin DOMAIN pubs => pubs'[n].kind # "optimize",
           \A q \in Requests : q.op = "optimize" /\ handler'[q].at \in {"post", "insert"} =>
                                 handler'[q] = handler[q]
    PROVE  RewritesFit'
<1>1. AllEntries' = AllEntries
  BY DEF AllEntries, FilesAt, SameTable
<1>2. ASSUME NEW q \in Requests, q.op = "optimize", handler'[q].at = "post", handler'[q].table = table.id
      PROVE  handler'[q].files \subseteq Paths(AllEntries)
  BY <1>2 DEF PInv, RewritesFit
<1>3. ASSUME NEW q \in Requests, q.op = "optimize", handler'[q].at = "insert", handler'[q].table = table.id
      PROVE  Rewrites(handler[q].job)'
  <2>1. PICK j : j = handler[q].job
    OBVIOUS
  <2>2. handler'[q] = handler[q] /\ j \in Accepted /\ Rewrites(j)
    BY <1>3, <2>1, HandlerKnows DEF PInv, RewritesFit, HandlerFits
  <2>3. Rewrites(j)'
    BY <2>2, RewritesStays
  <2> QED BY <2>1, <2>2, <2>3 DEF Rewrites
<1>4. ASSUME NEW n \in DOMAIN pubs', pubs'[n].kind = "optimize", pubs'[n].table = table.id
      PROVE  Rewrites(pubs[n].job)'
  <2>1. n \in DOMAIN pubs
    BY <1>4
  <2>2. PICK j : j = pubs[n].job
    OBVIOUS
  <2>3. pubs'[n].job = j /\ j \in Accepted /\ Rewrites(j)
    BY <1>4, <2>1, <2>2 DEF PInv, RewritesFit, TInv, PubsFit, PubFits, Kept
  <2>4. Rewrites(j)'
    BY <2>3, RewritesStays
  <2> QED BY <2>3, <2>4 DEF Rewrites
<1> QED BY <1>1, <1>2, <1>3, <1>4 DEF RewritesFit, SameTable

\* Steps that touch neither table nor files.
LEMMA QuietStep ==
    ASSUME TInv, PInv, SameTable, UNCHANGED <<deleted, payload, status>>,
           \A n \in DOMAIN pubs : /\ n \in DOMAIN pubs' /\ pubs'[n].job = pubs[n].job
                                  /\ pubs'[n].kind = pubs[n].kind /\ pubs'[n].table = pubs[n].table,
           \A n \in DOMAIN pubs' : n \notin DOMAIN pubs => pubs'[n].kind # "optimize",
           \A q \in Requests : q.op \in {"optimize", "expire"} /\ handler'[q].at \in {"post", "insert"} =>
                                 handler'[q] = handler[q]
    PROVE  PInv'
<1>1. Kept
  BY DEF Kept, Accepted
<1>2. RewritesFit'
  BY <1>1, RewritesStay
<1>3. Doomed' \subseteq Doomed
  BY DEF Doomed, OfDeletes, OfExpiries
<1> QED BY <1>1, <1>2, <1>3, ContentsStay

\* Steps of requests that leave table, jobs and publications alone.
LEMMA RequestQuiet ==
    ASSUME TInv, PInv, NEW q \in Requests,
           Arrive(q) \/ Queue(q) \/ NotUploaded(q) \/ FindAppended(q) \/ PlanRefresh(q) \/ DropTable(q)
    PROVE  PInv'
<1>1. /\ UNCHANGED <<deleted, payload, status, pubs, publisher>>
      /\ handler'[q].at \in {"start", "work", "plan", "over"} \/ q.op \in {"complete", "refresh"}
      /\ \A r \in Requests : r # q => handler'[r] = handler[r]
  <2>1. ASSUME EndRequest(q) PROVE handler'[q].at = "over" /\ \A r \in Requests : r # q => handler'[r] = handler[r]
    BY <2>1, OverFacts
  <2>2. CASE Arrive(q)
    BY <2>2, HandlerKnows DEF Arrive, At, Handlers, compute
  <2>3. CASE Queue(q)
    BY <2>3, HandlerKnows DEF Queue, EndRequest, At, Handlers, compute
  <2>4. CASE NotUploaded(q)
    BY <2>1, <2>4 DEF NotUploaded, compute
  <2>5. CASE FindAppended(q)
    BY <2>5, HandlerKnows DEF FindAppended, compute
  <2>6. CASE PlanRefresh(q)
    <3>1. q.op = "refresh"
      BY <2>6, HandlerKnows DEF PlanRefresh, HandlerFits
    <3> QED BY <2>1, <2>6, <3>1, HandlerKnows DEF PlanRefresh, compute
  <2>7. CASE DropTable(q)
    BY <2>7, HandlerKnows DEF DropTable, compute, Handlers
  <2> QED BY <2>2, <2>3, <2>4, <2>5, <2>6, <2>7
<1>2. SameTable
  <2>1. table' = table \/ table' = Dropped
    BY DEF Arrive, Queue, NotUploaded, FindAppended, PlanRefresh, DropTable
  <2> QED BY <2>1, DroppedFacts DEF SameTable
<1> QED BY <1>1, <1>2, QuietStep

\* Steps of the publisher that do.
LEMMA PublisherQuiet ==
    ASSUME TInv, PInv, Reconcile \/ Look \/ PassEnds \/ CommitRefresh \/ Settle \/ Fail
    PROVE  PInv'
<1>1. UNCHANGED <<deleted, payload, status, pubs, handler>>
  BY DEF Reconcile, Look, PassEnds, CommitRefresh, Settle, Fail, compute
<1>2. SameTable
  <2>1. table' = table \/ table' = Dropped
    BY DEF Reconcile, Look, PassEnds, CommitRefresh, Settle, Fail
  <2> QED BY <2>1, DroppedFacts DEF SameTable
<1> QED BY <1>1, <1>2, QuietStep

\* So does a publication that is settled,
LEMMA MarkQuiet == ASSUME TInv, PInv, Mark PROVE PInv'
<1>1. UNCHANGED <<table, deleted, payload, status, handler>>
  BY DEF Mark, compute
<1>2. SameTable
  BY <1>1 DEF SameTable
<1> QED BY <1>1, <1>2, MarkFacts, QuietStep

\* the second publication of an import,
LEMMA InsertIngestQuiet == ASSUME TInv, PInv, InsertIngest PROVE PInv'
<1>1. UNCHANGED <<table, deleted, payload, status, handler>>
  BY DEF InsertIngest, compute
<1>2. PICK p : pubs' = Append(pubs, p) /\ p.kind = "ingest"
  <2> DEFINE p == [Publication("ingest", Current.of, publisher.job, table.id) EXCEPT !.created = TRUE]
  <2>1. pubs' = Append(pubs, p)
    BY DEF InsertIngest
  <2>2. p.kind = "ingest"
    BY DEF Publication
  <2> HIDE DEF p
  <2> QED BY <2>1, <2>2
<1>3. /\ DOMAIN pubs' = DOMAIN pubs \cup {Len(pubs) + 1} /\ pubs'[Len(pubs) + 1] = p
      /\ \A n \in DOMAIN pubs : pubs'[n] = pubs[n]
  <2>1. pubs \in Seq(Pubs)
    BY DEF TInv, Shape
  <2> QED BY <1>2, <2>1
<1>4. SameTable
  BY <1>1 DEF SameTable
<1> QED BY <1>1, <1>2, <1>3, <1>4, QuietStep

\* a crash,
LEMMA CrashQuiet == ASSUME TInv, PInv, Crash PROVE PInv'
<1>1. UNCHANGED <<table, deleted, payload, status, pubs>>
  BY DEF Crash, compute
<1>2. SameTable
  BY <1>1 DEF SameTable
<1> QED BY <1>1, <1>2, CrashFacts, QuietStep

\* and a new import.
LEMMA CreateImportQuiet == ASSUME TInv, PInv, NEW i \in Imports, CreateImport(i) PROVE PInv'
<1>1. UNCHANGED <<table, deleted, payload, status, pubs, handler>>
  BY DEF CreateImport, compute
<1>2. SameTable
  BY <1>1 DEF SameTable
<1> QED BY <1>1, <1>2, QuietStep

\* A batch job removes files that were doomed.
LEMMA JobEndsPInv == ASSUME TInv, PInv, NEW j \in Jobs, JobEnds(j) PROVE PInv'
<1>1. UNCHANGED <<table, payload, pubs, handler, publisher>>
  BY DEF JobEnds
<1>2. SameTable
  BY <1>1 DEF SameTable
<1>3. Kept
  <2>1. PICK o \in Ends : status[j] = "pending" /\ status' = [status EXCEPT ![j] = o]
    BY DEF JobEnds, Contract!End
  <2>2. o # "absent"
    BY PublicationsAssumption
  <2> QED BY <1>1, <2>1, <2>2 DEF Kept, Accepted, TInv, Shape
<1>4. RewritesFit'
  BY <1>1, <1>2, <1>3, RewritesStay
<1>5. Doomed' \subseteq Doomed
  <2>1. payload[j].op = "delete" => payload[j].files \subseteq Doomed
    BY DEF Doomed, OfDeletes, OfExpiries
  <2>2. deleted \subseteq Doomed
    BY DEF Doomed, OfDeletes, OfExpiries
  <2>3. deleted' \subseteq Doomed
    <3>1. CASE payload[j].op # "delete"
      BY <2>2, <3>1 DEF JobEnds
    <3>2. CASE payload[j].op = "delete"
      <4>1. deleted' \subseteq deleted \cup payload[j].files
        BY <3>2 DEF JobEnds
      <4> QED BY <2>1, <2>2, <3>2, <4>1
    <3> QED BY <3>1, <3>2
  <2> QED BY <1>1, <2>3 DEF Doomed, OfDeletes, OfExpiries
<1> QED BY <1>2, <1>3, <1>4, <1>5, ContentsStay

\* The table of an import is created, and is empty.
LEMMA CreateTablePInv == ASSUME TInv, TInv', PInv, CreateTable PROVE PInv'
<1>1. UNCHANGED <<deleted, payload, status, pubs, handler>>
  BY DEF CreateTable, compute
<1>2. CASE table' = table
  <2>1. SameTable
    BY <1>2 DEF SameTable
  <2> QED BY <1>1, <2>1, QuietStep
<1>3. CASE table' = NewTable
  <2>1. /\ table'.snaps = <<>> /\ table'.kept = {} /\ DOMAIN table'.snaps = {} /\ Len(table'.snaps) = 0
        /\ table'.id = table.id + 1 /\ table.id \in Nat
    BY <1>3, TableKnows DEF NewTable
  <2>2. FilesFit' /\ SnapsFit'
    BY <2>1 DEF FilesFit, SnapsFit
  <2>3. \A q \in Requests : handler[q].table # table'.id
    BY <2>1, HandlerKnows DEF Handlers
  <2>4. \A n \in DOMAIN pubs : pubs[n].table # table'.id
    <3> SUFFICES ASSUME NEW n \in DOMAIN pubs PROVE pubs[n].table # table'.id
      OBVIOUS
    <3>1. pubs[n] \in Pubs /\ pubs[n].table <= table.id
      BY ElementOfSeq DEF TInv, Shape, PubsFit, PubFits
    <3> QED BY <2>1, <3>1 DEF Pubs
  <2>5. RewritesFit'
    BY <1>1, <2>3, <2>4 DEF RewritesFit
  <2>6. CurrentFiles(table)' = {} /\ ReferencedFiles(table)' = {}
    BY <2>1 DEF CurrentFiles, CurrentSnapshot, ReferencedFiles, FilesAt, Paths
  <2>7. Since(table)' = {}
    BY <2>1 DEF Since
  <2>8. RowsOnce'
    BY <2>6, <2>7 DEF RowsOnce, Rows
  <2>9. DoomFits'
    <3>1. Doomed' = Doomed
      BY <1>1 DEF Doomed, OfDeletes, OfExpiries
    <3>2. \A w \in Doomed : \E n \in DOMAIN pubs : pubs[n].job = w
      BY DEF PInv, DoomFits
    <3> QED BY <1>1, <2>4, <2>6, <3>1, <3>2 DEF DoomFits, Paths
  <2> QED BY <2>2, <2>5, <2>8, <2>9 DEF PInv
<1> QED BY <1>2, <1>3 DEF CreateTable

\* An optimize plans files that are in the table.
LEMMA PlanOptimizePInv == ASSUME TInv, PInv, NEW q \in Requests, PlanOptimize(q) PROVE PInv'
<1>1. UNCHANGED <<table, deleted, payload, status, pubs, publisher>> /\ q.op = "optimize"
  BY DEF PlanOptimize, compute
<1>2. SameTable /\ Kept
  BY <1>1 DEF SameTable, Kept, Accepted
<1>3. \A r \in Requests : r # q => handler'[r] = handler[r]
  BY HandlerKnows DEF PlanOptimize, EndRequest, At
<1>4. handler'[q].at # "insert" /\ (handler'[q].at = "post" => handler'[q].files \subseteq Paths(AllEntries))
  <2>1. CASE EndRequest(q)
    BY <2>1, HandlerKnows DEF EndRequest, At, Handlers
  <2>2. CASE ~EndRequest(q)
    <3>1. PICK old \in SUBSET Paths(CurrentFiles(table)) :
            handler' = [handler EXCEPT ![q].at = IF old = {} THEN "over" ELSE "post", ![q].files = old]
      BY <2>2 DEF PlanOptimize
    <3>2. handler'[q].files = old /\ handler'[q].at \in {"over", "post"}
      BY <3>1, HandlerKnows DEF Handlers
    <3>3. \A e \in CurrentFiles(table) : e \in AllEntries
      BY CurrentKnows DEF PInv
    <3>4. Paths(CurrentFiles(table)) \subseteq Paths(AllEntries)
      BY <3>3 DEF Paths
    <3> QED BY <3>2, <3>4
  <2> QED BY <2>1, <2>2
<1>5. RewritesFit'
  <2>1. AllEntries' = AllEntries
    BY <1>1 DEF AllEntries, FilesAt
  <2>2. \A j : Rewrites(j)' <=> Rewrites(j)
    BY <1>1 DEF Rewrites, RowsOf, Accepted
  <2>3. ASSUME NEW r \in Requests, r.op = "optimize", handler'[r].at = "post", handler'[r].table = table.id
        PROVE  handler'[r].files \subseteq Paths(AllEntries)
    BY <1>3, <1>4, <2>3 DEF PInv, RewritesFit
  <2>4. ASSUME NEW r \in Requests, r.op = "optimize", handler'[r].at = "insert", handler'[r].table = table.id
        PROVE  Rewrites(handler[r].job)'
    <3>1. handler'[r] = handler[r]
      BY <1>3, <1>4, <2>4
    <3>2. PICK j : j = handler[r].job
      OBVIOUS
    <3>3. Rewrites(j)'
      BY <2>2, <2>4, <3>1, <3>2 DEF PInv, RewritesFit
    <3> QED BY <3>1, <3>2, <3>3 DEF Rewrites
  <2>5. ASSUME NEW n \in DOMAIN pubs, pubs[n].kind = "optimize", pubs[n].table = table.id
        PROVE  Rewrites(pubs[n].job)'
    <3>2. PICK j : j = pubs[n].job
      OBVIOUS
    <3>3. Rewrites(j)'
      BY <2>2, <2>5, <3>2 DEF PInv, RewritesFit
    <3> QED BY <1>1, <3>2, <3>3 DEF Rewrites
  <2> QED BY <1>1, <2>1, <2>3, <2>4, <2>5 DEF RewritesFit
<1>6. Doomed' \subseteq Doomed
  <2>1. \A r \in Requests : r.op = "expire" => handler'[r] = handler[r]
    BY <1>1, <1>3
  <2> QED BY <1>1, <2>1 DEF Doomed, OfDeletes, OfExpiries
<1> QED BY <1>2, <1>5, <1>6, ContentsStay

\* Who dooms a file.
LEMMA DoomedIs ==
    /\ \A w : w \in Doomed <=>
         \/ w \in deleted
         \/ \E j \in Jobs : payload[j].op = "delete" /\ w \in payload[j].files
         \/ \E q \in Requests : q.op = "expire" /\ handler[q].at = "post" /\ w \in handler[q].files
    /\ \A w : w \in Doomed' <=>
         \/ w \in deleted'
         \/ \E j \in Jobs : payload'[j].op = "delete" /\ w \in payload'[j].files
         \/ \E q \in Requests : q.op = "expire" /\ handler'[q].at = "post" /\ w \in handler'[q].files
<1>1. \A w : w \in OfDeletes <=> \E j \in Jobs : payload[j].op = "delete" /\ w \in payload[j].files
  BY DEF OfDeletes
<1>2. \A w : w \in OfExpiries <=>
                \E q \in Requests : q.op = "expire" /\ handler[q].at = "post" /\ w \in handler[q].files
  BY DEF OfExpiries
<1>3. \A w : w \in OfDeletes' <=> \E j \in Jobs : payload'[j].op = "delete" /\ w \in payload'[j].files
  BY DEF OfDeletes
<1>4. \A w : w \in OfExpiries' <=>
                \E q \in Requests : q.op = "expire" /\ handler'[q].at = "post" /\ w \in handler'[q].files
  BY DEF OfExpiries
<1> QED BY <1>1, <1>2, <1>3, <1>4 DEF Doomed

\* A job that is submitted to rewrite files gets their rows.
LEMMA PostRewrites ==
    ASSUME TInv, PInv, Kept, NEW files \in SUBSET Paths(AllEntries), NEW j,
           payload'[j].files = files, payload'[j].rows = Rows({e \in AllEntries : e.path \in files})
    PROVE  Rewrites(j)'
<1>1. \A e \in AllEntries : e.path \in Accepted /\ e.rows = RowsOf(e.path)
  <2> SUFFICES ASSUME NEW e \in AllEntries PROVE e.path \in Accepted /\ e.rows = RowsOf(e.path)
    OBVIOUS
  <2>1. PICK k \in DOMAIN table.snaps : e \in FilesAt(table, k)
    BY DEF AllEntries
  <2>2. e \in table.snaps[k].files
    BY <2>1, FilesAreFiles, TableKnows
  <2> QED BY <2>2, SnapKnows DEF PInv
<1>2. files \subseteq Accepted /\ \A f \in files : \E e \in AllEntries : e.path = f
  BY <1>1 DEF Paths
<1>3. \A f \in Accepted : RowsOf(f)' = RowsOf(f) /\ f \in Accepted'
  BY DEF RowsOf, Kept
<1>4. payload'[j].rows = UNION {RowsOf(f) : f \in files}
  <2>1. \A x : x \in payload'[j].rows <=> \E e \in AllEntries : e.path \in files /\ x \in e.rows
    BY DEF Rows
  <2>2. \A x : x \in payload'[j].rows <=> \E f \in files : x \in RowsOf(f)
    BY <1>1, <1>2, <2>1
  <2>3. Rows({e \in AllEntries : e.path \in files}) = UNION {RowsOf(f) : f \in files}
    BY <2>2 DEF Rows
  <2> QED BY <2>3
<1>5. payload'[j].rows = UNION {RowsOf(f)' : f \in files}
  <2>1. \A f \in files : RowsOf(f)' = RowsOf(f)
    BY <1>2, <1>3
  <2>2. {RowsOf(f)' : f \in files} = {RowsOf(f) : f \in files}
    BY <2>1
  <2> QED BY <1>4, <2>2
<1> QED BY <1>2, <1>3, <1>5 DEF Rewrites

\* A job is accepted, or it is not.
LEMMA PostJobPInv == ASSUME TInv, TInv', PInv, NEW q \in Requests, PostJob(q) PROVE PInv'
<1>1. /\ handler[q].at = "post"
      /\ UNCHANGED <<table, deleted, mode, pubs, publisher>>
  BY DEF PostJob, records
<1>2. q.op # "drop" /\ JobOf(q) \in Kinds
  BY <1>1, HandlerKnows, JobOfFacts DEF TInv, HandlerFits
<1>3. SameTable
  BY <1>1 DEF SameTable
<1>4. CASE EndRequest(q) /\ UNCHANGED compute
  <2>1. handler'[q].at = "over" /\ \A r \in Requests : r # q => handler'[r] = handler[r]
    BY <1>4, OverFacts
  <2> QED BY <1>1, <1>3, <1>4, <2>1, QuietStep DEF compute
<1>5. CASE /\ Post(JobOf(q), handler[q].files)
           /\ handler' = [handler EXCEPT ![q].at = "insert", ![q].job = NextJob]
  <2>1. handler[q].files \in SUBSET Jobs
    BY HandlerKnows DEF Handlers
  <2>0. /\ NextJob \in Jobs
        /\ payload'[NextJob].op = JobOf(q) /\ payload'[NextJob].files = handler[q].files
        /\ \A j \in Accepted : j \in Accepted' /\ payload'[j] = payload[j]
    BY <1>2, <1>5, <2>1, PostFacts DEF TInv
  <2>2. /\ NextJob \in Jobs /\ payload'[NextJob].op = JobOf(q) /\ payload'[NextJob].files = handler[q].files
        /\ payload'[NextJob].rows = Rows({e \in AllEntries : e.path \in handler[q].files})
        /\ \A j \in Accepted : j \in Accepted' /\ payload'[j] = payload[j]
    <3>1. payload'[NextJob].rows = Rows({e \in AllEntries : e.path \in handler[q].files})
      BY <1>5, <2>0 DEF Post, TInv, Shape
    <3> QED BY <2>0, <3>1
  <2>3. \A j \in Jobs : j # NextJob => payload'[j] = payload[j]
    BY <1>5 DEF Post, TInv, Shape
  <2>4. /\ handler'[q].at = "insert" /\ handler'[q].job = NextJob /\ handler'[q].table = handler[q].table
        /\ \A r \in Requests : r # q => handler'[r] = handler[r]
    BY <1>5, HandlerKnows DEF Handlers
  <2>5. Kept
    BY <1>1, <2>2 DEF Kept
  <2>6. RewritesFit'
    <3>1. CASE q.op # "optimize"
      <4>1. \A r \in Requests : r.op = "optimize" /\ handler'[r].at \in {"post", "insert"} =>
                                  handler'[r] = handler[r]
        BY <2>4, <3>1
      <4> QED BY <1>1, <1>3, <2>5, <4>1, RewritesStay
    <3>2. CASE q.op = "optimize"
      <4>1. AllEntries' = AllEntries
        BY <1>1 DEF AllEntries, FilesAt
      <4>2. ASSUME NEW r \in Requests, r.op = "optimize", handler'[r].at = "post", handler'[r].table = table.id
            PROVE  handler'[r].files \subseteq Paths(AllEntries)
        BY <2>4, <4>2 DEF PInv, RewritesFit
      <4>3. ASSUME NEW r \in Requests, r.op = "optimize", handler'[r].at = "insert", handler'[r].table = table.id
            PROVE  Rewrites(handler[r].job)'
        <5>1. CASE r = q
          <6>1. PICK j : j = NextJob
            OBVIOUS
          <6>2. handler[q].files \in SUBSET Paths(AllEntries)
            BY <1>1, <2>4, <3>2, <4>3, <5>1 DEF PInv, RewritesFit
          <6>3. Rewrites(j)'
            BY <2>2, <2>5, <6>1, <6>2, PostRewrites
          <6> QED BY <2>4, <5>1, <6>1, <6>3 DEF Rewrites
        <5>2. CASE r # q
          <6>1. PICK j : j = handler[r].job
            OBVIOUS
          <6>2. handler'[r] = handler[r] /\ j \in Accepted /\ Rewrites(j)
            BY <2>4, <4>3, <5>2, <6>1, HandlerKnows DEF PInv, RewritesFit, HandlerFits
          <6>3. Rewrites(j)'
            BY <2>5, <6>2, RewritesStays
          <6> QED BY <6>1, <6>2, <6>3 DEF Rewrites
        <5> QED BY <5>1, <5>2
      <4>4. ASSUME NEW n \in DOMAIN pubs, pubs[n].kind = "optimize", pubs[n].table = table.id
            PROVE  Rewrites(pubs[n].job)'
        <5>1. PICK j : j = pubs[n].job
          OBVIOUS
        <5>2. j \in Accepted /\ Rewrites(j)
          BY <4>4, <5>1 DEF PInv, RewritesFit, TInv, PubsFit, PubFits
        <5>3. Rewrites(j)'
          BY <2>5, <5>2, RewritesStays
        <5> QED BY <1>1, <5>1, <5>3 DEF Rewrites
      <4> QED BY <1>1, <4>1, <4>2, <4>3, <4>4 DEF RewritesFit
    <3> QED BY <3>1, <3>2
  <2>7. Doomed' \subseteq Doomed
    <3>1. ASSUME NEW w, NEW j \in Jobs, payload'[j].op = "delete", w \in payload'[j].files PROVE w \in Doomed
      <4>1. CASE j = NextJob
        <5>1. q.op = "expire"
          BY <1>2, <2>2, <3>1, <4>1, JobOfFacts DEF TInv
        <5> QED BY <1>1, <2>2, <3>1, <4>1, <5>1, DoomedIs
      <4>2. CASE j # NextJob
        BY <2>3, <3>1, <4>2, DoomedIs
      <4> QED BY <4>1, <4>2
    <3>2. \A r \in Requests : handler'[r].at = "post" => handler'[r] = handler[r]
      BY <2>4
    <3>3. \A w : w \in Doomed' => w \in Doomed
      BY <1>1, <3>1, <3>2, DoomedIs
    <3> QED BY <3>3
  <2> QED BY <1>3, <2>5, <2>6, <2>7, ContentsStay
<1> QED BY <1>4, <1>5 DEF PostJob

\* The second job of an import is accepted.
LEMMA PostIngestPInv == ASSUME TInv, PInv, PostIngest PROVE PInv'
<1>1. UNCHANGED <<table, deleted, pubs, handler>>
  BY DEF PostIngest
<1>2. SameTable
  BY <1>1 DEF SameTable
<1>3. CASE UNCHANGED compute
  BY <1>1, <1>2, <1>3, QuietStep DEF compute
<1>4. CASE Post("ingest", {})
  <2>1. "ingest" \in Kinds /\ {} \in SUBSET Jobs
    BY DEF Kinds
  <2>2. /\ payload'[NextJob].op = "ingest" /\ \A j \in Accepted : j \in Accepted' /\ payload'[j] = payload[j]
    BY <1>4, <2>1, PostFacts DEF TInv
  <2>3. \A j \in Jobs : j # NextJob => payload'[j] = payload[j]
    BY <1>4 DEF Post, TInv, Shape
  <2>4. Kept
    BY <1>1, <2>2 DEF Kept
  <2>5. RewritesFit'
    BY <1>1, <1>2, <2>4, RewritesStay
  <2>6. Doomed' \subseteq Doomed
    BY <1>1, <2>2, <2>3 DEF Doomed, OfDeletes, OfExpiries
  <2> QED BY <1>2, <2>4, <2>5, <2>6, ContentsStay
<1> QED BY <1>3, <1>4 DEF PostIngest

\* The publication of a request is stored.
LEMMA InsertPublicationPInv == ASSUME TInv, TInv', PInv, NEW q \in Requests, InsertPublication(q) PROVE PInv'
<1>1. /\ handler[q].at = "insert" /\ EndRequest(q)
      /\ UNCHANGED <<table, deleted, status, payload>>
  BY DEF InsertPublication, compute
<1>2. handler'[q].at = "over" /\ \A r \in Requests : r # q => handler'[r] = handler[r]
  BY <1>1, OverFacts
<1>3. PICK p : /\ pubs' = Append(pubs, p)
               /\ p.job = handler[q].job /\ p.kind = JobOf(q) /\ p.table = handler[q].table
  <2> DEFINE b == Publication(JobOf(q), IF q.op = "complete" THEN q.of ELSE q, handler[q].job, handler[q].table)
             p == [b EXCEPT !.full = handler[q].full, !.source = handler[q].source]
  <2>1. pubs' = Append(pubs, p)
    BY DEF InsertPublication
  <2>2. p.job = handler[q].job /\ p.kind = JobOf(q) /\ p.table = handler[q].table
    BY DEF Publication
  <2> HIDE DEF p
  <2> QED BY <2>1, <2>2
<1>4. /\ DOMAIN pubs' = DOMAIN pubs \cup {Len(pubs) + 1} /\ pubs'[Len(pubs) + 1] = p
      /\ \A n \in DOMAIN pubs : pubs'[n] = pubs[n]
  <2>1. pubs \in Seq(Pubs)
    BY DEF TInv, Shape
  <2> QED BY <1>3, <2>1
<1>5. SameTable
  BY <1>1 DEF SameTable
<1>6. CASE JobOf(q) # "optimize"
  BY <1>1, <1>2, <1>3, <1>4, <1>5, <1>6, QuietStep
<1>7. CASE JobOf(q) = "optimize"
  <2>1. Kept
    BY <1>1, <1>4 DEF Kept, Accepted
  <2>2. q.op = "optimize"
    BY <1>1, <1>7, HandlerKnows, JobOfFacts DEF TInv, HandlerFits
  <2>3. \A j : Rewrites(j)' <=> Rewrites(j)
    BY <1>1 DEF Rewrites, RowsOf, Accepted
  <2>4. RewritesFit'
    <3>1. AllEntries' = AllEntries
      BY <1>1 DEF AllEntries, FilesAt
    <3>2. ASSUME NEW r \in Requests, r.op = "optimize", handler'[r].at = "post", handler'[r].table = table.id
          PROVE  handler'[r].files \subseteq Paths(AllEntries)
      BY <1>2, <3>2 DEF PInv, RewritesFit
    <3>3. ASSUME NEW r \in Requests, r.op = "optimize", handler'[r].at = "insert", handler'[r].table = table.id
          PROVE  Rewrites(handler[r].job)'
      <4>1. handler'[r] = handler[r]
        BY <1>2, <3>3
      <4>2. PICK j : j = handler[r].job
        OBVIOUS
      <4>3. Rewrites(j)'
        BY <2>3, <3>3, <4>1, <4>2 DEF PInv, RewritesFit
      <4> QED BY <4>1, <4>2, <4>3 DEF Rewrites
    <3>4. ASSUME NEW n \in DOMAIN pubs', pubs'[n].kind = "optimize", pubs'[n].table = table.id
          PROVE  Rewrites(pubs[n].job)'
      <4>1. PICK j : j = pubs'[n].job
        OBVIOUS
      <4>2. Rewrites(j)
        <5>1. CASE n \in DOMAIN pubs
          BY <1>4, <3>4, <4>1, <5>1 DEF PInv, RewritesFit
        <5>2. CASE n = Len(pubs) + 1
          BY <1>1, <1>3, <1>4, <2>2, <3>4, <4>1, <5>2 DEF PInv, RewritesFit
        <5> QED BY <1>4, <5>1, <5>2
      <4> QED BY <2>3, <4>1, <4>2 DEF Rewrites
    <3> QED BY <1>1, <3>1, <3>2, <3>3, <3>4 DEF RewritesFit
  <2>5. Doomed' \subseteq Doomed
    <3>1. \A r \in Requests : r.op = "expire" => handler'[r] = handler[r]
      BY <1>2, <2>2
    <3> QED BY <1>1, <3>1 DEF Doomed, OfDeletes, OfExpiries
  <2> QED BY <1>5, <2>1, <2>4, <2>5, ContentsStay
<1> QED BY <1>6, <1>7

\* An expiry leaves the newest snapshot, and dooms what only the others had.
LEMMA PlanExpirePInv == ASSUME TInv, PInv, NEW q \in Requests, PlanExpire(q) PROVE PInv'
<1>1. UNCHANGED <<deleted, payload, status, pubs, publisher>> /\ q.op = "expire"
  BY DEF PlanExpire, compute
<1>2. CASE EndRequest(q) /\ table' = table
  <2>1. handler'[q].at = "over" /\ \A r \in Requests : r # q => handler'[r] = handler[r]
    BY <1>2, OverFacts
  <2>2. SameTable
    BY <1>2 DEF SameTable
  <2> QED BY <1>1, <2>1, <2>2, QuietStep
<1>3. CASE ~(EndRequest(q) /\ table' = table)
  <2>0. IsThere(handler[q].table)
    BY <1>3 DEF PlanExpire
  <2>1. PICK n \in 1 .. (CurrentSnapshot(table) + 1) :
          /\ MayExpire(table, n, RetainLast) /\ table' = Expired(table, n)
          /\ handler' = [handler EXCEPT ![q].at = IF Unreferenced(table, n) = {} THEN "over" ELSE "post",
                                        ![q].files = Unreferenced(table, n)]
    BY <2>0 DEF PlanExpire
  <2> DEFINE kept == {k \in table.kept : k >= n}
  <2>2. /\ table'.id = table.id /\ table'.live = table.live /\ table'.snaps = table.snaps
        /\ table'.kept = kept
    BY <2>1, TableKnows DEF Expired, Tables
  <2>3. /\ handler'[q].at \in {"over", "post"} /\ handler'[q].files = Unreferenced(table, n)
        /\ \A r \in Requests : r # q => handler'[r] = handler[r]
    BY <2>1, HandlerKnows DEF Handlers
  <2>4. table.snaps # <<>> => Len(table.snaps) \in kept
    <3> SUFFICES ASSUME table.snaps # <<>> PROVE Len(table.snaps) \in kept
      OBVIOUS
    <3>1. Len(table.snaps) \in table.kept /\ Len(table.snaps) \in Nat /\ n \in Nat
      BY TableKnows DEF PInv, SnapsFit, CurrentSnapshot
    <3>2. table.kept \subseteq 1 .. Len(table.snaps)
      BY TableKnows DEF TInv, TablesFit
    <3>7. IsFiniteSet(1 .. Len(table.snaps))
      BY <3>1, FS_Interval
    <3>8. IsFiniteSet(table.kept) /\ table.kept # {}
      BY <3>1, <3>2, <3>7, FS_Subset
    <3>3. Cardinality(table.kept) \in Nat /\ Cardinality(table.kept) # 0
      BY <3>8, FS_CardinalityType, FS_EmptySet
    <3>4. Cardinality(kept) # 0
      BY <2>1, <3>3, ConstantFacts DEF MayExpire
    <3>5. PICK k \in kept : TRUE
      BY <3>4, FS_EmptySet
    <3>6. k \in Nat /\ k <= Len(table.snaps) /\ k >= n
      BY <3>1, <3>2, <3>5
    <3> QED BY <3>1, <3>6
  <2>5. FilesFit' /\ SnapsFit'
    <3>1. \A j : RowsOf(j)' = RowsOf(j)
      BY <1>1 DEF RowsOf
    <3> QED BY <1>1, <2>2, <2>4, <3>1 DEF PInv, FilesFit, SnapsFit
  <2>6. RewritesFit'
    <3>1. AllEntries' = AllEntries
      BY <2>2 DEF AllEntries, FilesAt
    <3>2. \A j : Rewrites(j)' <=> Rewrites(j)
      BY <1>1 DEF Rewrites, RowsOf, Accepted
    <3>3. \A r \in Requests : r.op = "optimize" => handler'[r] = handler[r]
      BY <1>1, <2>3
    <3>4. ASSUME NEW r \in Requests, r.op = "optimize", handler'[r].at = "insert", handler'[r].table = table.id
          PROVE  Rewrites(handler[r].job)'
      <4>1. PICK j : j = handler[r].job
        OBVIOUS
      <4>2. Rewrites(j)'
        BY <3>2, <3>3, <3>4, <4>1 DEF PInv, RewritesFit
      <4> QED BY <3>3, <3>4, <4>1, <4>2 DEF Rewrites
    <3>5. ASSUME NEW m \in DOMAIN pubs, pubs[m].kind = "optimize", pubs[m].table = table.id
          PROVE  Rewrites(pubs[m].job)'
      <4>1. PICK j : j = pubs[m].job
        OBVIOUS
      <4>2. Rewrites(j)'
        BY <3>2, <3>5, <4>1 DEF PInv, RewritesFit
      <4> QED BY <1>1, <4>1, <4>2 DEF Rewrites
    <3>6. ASSUME NEW r \in Requests, r.op = "optimize", handler'[r].at = "post", handler'[r].table = table.id
          PROVE  handler'[r].files \subseteq Paths(AllEntries)
      BY <3>3, <3>6 DEF PInv, RewritesFit
    <3> QED BY <1>1, <2>2, <3>1, <3>4, <3>5, <3>6 DEF RewritesFit
  <2>7. RowsOnce'
    <3>1. CurrentFiles(table)' = CurrentFiles(table)
      BY <2>2 DEF CurrentFiles, CurrentSnapshot, FilesAt
    <3>2. Since(table)' = Since(table)
      BY <1>1, <2>2 DEF Since
    <3> QED BY <3>1, <3>2 DEF PInv, RowsOnce
  <2>8. DoomFits'
    <3>1. \A w : w \in Doomed' => w \in Doomed \/ w \in Unreferenced(table, n)
      BY <1>1, <2>3, DoomedIs
    <3>2. CurrentFiles(table)' = CurrentFiles(table) /\ InTable' = InTable
      BY <2>2 DEF CurrentFiles, CurrentSnapshot, FilesAt, InTable
    <3>3. ReferencedFiles(table)' \subseteq ReferencedFiles(table)
      BY <2>2 DEF ReferencedFiles, FilesAt, Paths
    <3>4. ReferencedFiles(table)' \cap Unreferenced(table, n) = {}
      BY <2>1 DEF Unreferenced
    <3>5. Paths(CurrentFiles(table)) \subseteq ReferencedFiles(table)'
      <4> SUFFICES ASSUME NEW e \in CurrentFiles(table) PROVE e.path \in ReferencedFiles(table)'
        BY DEF Paths
      <4>1. PICK l : l = Len(table.snaps) /\ l \in Nat /\ DOMAIN table.snaps = 1 .. l
        BY TableKnows, LenProperties
      <4>2. l # 0 /\ e \in table'.snaps[l].files
        BY <2>2, <4>1 DEF CurrentFiles, CurrentSnapshot, FilesAt
      <4>3. l \in table'.kept
        <5>1. table.snaps # <<>>
          BY <4>1, <4>2
        <5> QED BY <2>2, <2>4, <4>1, <5>1
      <4> QED BY <4>2, <4>3 DEF ReferencedFiles, Paths, FilesAt
    <3>6. ASSUME NEW w \in Unreferenced(table, n)
          PROVE  w \in InTable /\ \E m \in DOMAIN pubs : pubs[m].job = w
      <4>1. w \in ReferencedFiles(table)
        BY DEF Unreferenced
      <4>2. PICK k \in table.kept : \E e \in FilesAt(table, k) : e.path = w
        BY <4>1 DEF ReferencedFiles, Paths
      <4>3. k \in DOMAIN table.snaps
        BY DEF TInv, TablesFit
      <4>4. PICK e \in table.snaps[k].files : e.path = w
        BY <4>2, <4>3, FilesAreFiles, TableKnows
      <4>5. w \in InTable
        BY <4>3, <4>4, SnapKnows DEF PInv
      <4>6. \E m \in DOMAIN pubs : pubs[m].job = w
        BY <4>5 DEF InTable, PInv, SnapsFit
      <4> QED BY <4>5, <4>6
    <3>7. table'.live => (ReferencedFiles(table)' \cup Paths(CurrentFiles(table))) \cap Doomed' = {}
      BY <2>2, <3>1, <3>3, <3>4, <3>5 DEF PInv, DoomFits
    <3>8. \A w \in Doomed' : \E m \in DOMAIN pubs :
            pubs[m].job = w /\ (pubs[m].table = table.id => w \in InTable)
      BY <3>1, <3>6 DEF PInv, DoomFits
    <3> QED BY <1>1, <2>2, <3>2, <3>7, <3>8 DEF DoomFits, Paths
  <2> QED BY <2>5, <2>6, <2>7, <2>8 DEF PInv
<1> QED BY <1>2, <1>3
\* A file of job w is added to the table, along with what is left of the others.
AddsFile(op, w, left) ==
    /\ op \in {"append", "overwrite"} /\ w \in Accepted /\ w \notin InTable
    /\ left \subseteq CurrentFiles(table)
    /\ Adds(table, table', op, w, left, RowsOf(w))
    /\ table'.id = table.id /\ table'.live = table.live
    /\ UNCHANGED <<deleted, payload, status, pubs, handler>>

\* It is the n-th snapshot that adds it, as e; the i-th one before, if it is another, has
\* taken the other files out.
Added(op, w, left, i, n, e) ==
    /\ i \in Nat /\ n \in Nat /\ i = Len(table.snaps) + 1 /\ i # 0 /\ (n = i \/ n = i + 1)
    /\ i \notin DOMAIN table.snaps /\ n \notin DOMAIN table.snaps /\ Len(table'.snaps) = n
    /\ DOMAIN table'.snaps = DOMAIN table.snaps \cup {i, n}
    /\ \A k \in DOMAIN table.snaps : table'.snaps[k] = table.snaps[k] /\ k \in Nat /\ k < i
    /\ table'.snaps[n].op = op /\ table'.snaps[n].write = w /\ table'.snaps[n].files = left \cup {e}
    /\ n # i => /\ left = {} /\ op = "append" /\ table'.snaps[i].op = "delete"
                /\ table'.snaps[i].write = w /\ table'.snaps[i].files = {}
    /\ table'.kept = table.kept \cup {i, n}
    /\ e.path = w /\ e.rows = RowsOf(w) /\ e.at = n
    /\ CurrentFiles(table') = left \cup {e}

\* That is what a commit does.
LEMMA AddedIs ==
    ASSUME TInv, NEW op, NEW w, NEW left, AddsFile(op, w, left)
    PROVE  \E i, n, e : Added(op, w, left, i, n, e)
<1>0. table.snaps \in Seq(Snaps) /\ DOMAIN table.snaps = 1 .. Len(table.snaps) /\ Len(table.snaps) \in Nat
  BY TableKnows
<1>1. PICK i, n : i = Len(table.snaps) + 1 /\ n = Len(table'.snaps)
  OBVIOUS
<1>2. PICK e : e = Entry(w, RowsOf(w), n)
  OBVIOUS
<1>3. /\ table'.kept = table.kept \cup {i, n} /\ (n = i \/ n = i + 1)
      /\ DOMAIN table'.snaps = DOMAIN table.snaps \cup {i, n}
      /\ \A k \in DOMAIN table.snaps : table'.snaps[k] = table.snaps[k]
      /\ table'.snaps[n] = Snap(op, w, left \cup {e})
      /\ n # i => left = {} /\ op = "append" /\ table'.snaps[i] = Snap("delete", w, {})
  BY <1>1, <1>2 DEF AddsFile, Adds
<1>4. e.path = w /\ e.rows = RowsOf(w) /\ e.at = n
  BY <1>2 DEF Entry
<1>5. /\ table'.snaps[n].op = op /\ table'.snaps[n].write = w /\ table'.snaps[n].files = left \cup {e}
      /\ n # i => /\ table'.snaps[i].op = "delete" /\ table'.snaps[i].write = w
                  /\ table'.snaps[i].files = {}
  BY <1>3 DEF Snap
<1>6. /\ i \in Nat /\ n \in Nat /\ i # 0 /\ n # 0 /\ i \notin DOMAIN table.snaps
      /\ n \notin DOMAIN table.snaps /\ \A k \in DOMAIN table.snaps : k \in Nat /\ k < i
  BY <1>0, <1>1, <1>3
<1>7. CurrentFiles(table') = left \cup {e}
  BY <1>1, <1>5, <1>6 DEF CurrentFiles, CurrentSnapshot, FilesAt
<1>8. Added(op, w, left, i, n, e)
  BY <1>1, <1>3, <1>4, <1>5, <1>6, <1>7 DEF Added
<1> QED BY <1>8

\* Files and snapshots fit as before.
LEMMA AddedFits ==
    ASSUME TInv, PInv, NEW op, NEW w, NEW left, AddsFile(op, w, left),
           NEW i, NEW n, NEW e, Added(op, w, left, i, n, e),
           \E m \in DOMAIN pubs : pubs[m].job = w /\ pubs[m].table = table.id /\ pubs[m].kind \in {"ingest", "optimize"}
    PROVE  FilesFit' /\ SnapsFit'
<1>1. payload' = payload /\ pubs' = pubs /\ table'.id = table.id
  BY DEF AddsFile
<1>2. FilesFit'
  <2> SUFFICES ASSUME NEW k \in DOMAIN table'.snaps, NEW f \in table'.snaps[k].files
               PROVE  /\ table'.snaps[f.at].write = f.path /\ table'.snaps[f.at].op # "delete"
                      /\ f.rows = RowsOf(f.path)'
    BY DEF FilesFit
  <2>1. CASE f = e
    <3>1. /\ f.rows = RowsOf(w) /\ f.path = w /\ table'.snaps[f.at].write = w
          /\ table'.snaps[f.at].op # "delete"
      BY <2>1 DEF Added, AddsFile
    <3> QED BY <1>1, <3>1 DEF RowsOf
  <2>2. CASE f # e
    <3>1. /\ f.at \in DOMAIN table.snaps /\ table.snaps[f.at].write = f.path
          /\ table.snaps[f.at].op # "delete" /\ f.rows = RowsOf(f.path)
      <4>1. CASE k \in DOMAIN table.snaps
        <5>1. f \in table.snaps[k].files
          BY <4>1 DEF Added
        <5> QED BY <4>1, <5>1, SnapKnows DEF PInv
      <4>2. CASE k \notin DOMAIN table.snaps
        <5>1. f \in CurrentFiles(table)
          BY <2>2, <4>2 DEF Added, AddsFile
        <5>2. f \in table.snaps[Len(table.snaps)].files /\ Len(table.snaps) \in DOMAIN table.snaps
          BY <5>1, CurrentKnows DEF PInv
        <5> QED BY <5>2, SnapKnows DEF PInv
      <4> QED BY <4>1, <4>2
    <3>2. table'.snaps[f.at] = table.snaps[f.at]
      BY <3>1 DEF Added
    <3>3. PICK j : j = f.path
      OBVIOUS
    <3>4. RowsOf(j)' = RowsOf(j)
      BY <1>1 DEF RowsOf
    <3> QED BY <3>1, <3>2, <3>3, <3>4
  <2> QED BY <2>1, <2>2
<1>3. SnapsFit'
  <2>1. Len(table'.snaps) \in table'.kept
    BY DEF Added
  <2>2. \A k \in DOMAIN table'.snaps : \E m \in DOMAIN pubs' :
          /\ pubs'[m].job = table'.snaps[k].write /\ pubs'[m].table = table'.id
          /\ pubs'[m].kind \in {"ingest", "optimize"}
    <3> SUFFICES ASSUME NEW k \in DOMAIN table'.snaps
                 PROVE  \E m \in DOMAIN pubs : /\ pubs[m].job = table'.snaps[k].write /\ pubs[m].table = table.id
                                               /\ pubs[m].kind \in {"ingest", "optimize"}
      BY <1>1
    <3>1. CASE k \in DOMAIN table.snaps
      BY <3>1 DEF Added, PInv, SnapsFit
    <3>2. CASE k \notin DOMAIN table.snaps
      <4>1. table'.snaps[k].write = w
        BY <3>2 DEF Added
      <4> QED BY <4>1
    <3> QED BY <3>1, <3>2
  <2>3. \A k \in DOMAIN table.snaps : /\ table'.snaps[k] = table.snaps[k]
                                      /\ table.snaps[k].write # w /\ k \in Nat /\ k < i
    BY DEF Added, AddsFile, InTable
  <2>4. /\ i \in Nat /\ n \in Nat /\ (n = i \/ n = i + 1)
        /\ DOMAIN table'.snaps = DOMAIN table.snaps \cup {i, n}
        /\ table'.snaps[n].write = w /\ table'.snaps[n].op # "delete"
        /\ n # i => /\ table'.snaps[i].op = "delete" /\ table'.snaps[i].write = w
                    /\ table'.snaps[i].files = {}
    BY DEF Added, AddsFile
  <2>5. ASSUME NEW j \in DOMAIN table'.snaps, NEW k \in DOMAIN table'.snaps,
               table'.snaps[j].write = table'.snaps[k].write, j < k
        PROVE  k = j + 1 /\ table'.snaps[j].op = "delete"
    <3>1. CASE k \in DOMAIN table.snaps
      <4>1. j \in DOMAIN table.snaps
        BY <2>3, <2>4, <2>5, <3>1
      <4> QED BY <2>3, <2>5, <3>1, <4>1 DEF PInv, SnapsFit
    <3>2. CASE k \notin DOMAIN table.snaps
      <4>1. j \notin DOMAIN table.snaps
        BY <2>3, <2>4, <2>5, <3>2
      <4> QED BY <2>4, <2>5, <3>2, <4>1
    <3> QED BY <3>1, <3>2
  <2>6. \A k \in DOMAIN table'.snaps : table'.snaps[k].op = "delete" => table'.snaps[k].files = {}
    BY <2>3, <2>4 DEF PInv, SnapsFit
  <2> QED BY <2>1, <2>2, <2>5, <2>6 DEF SnapsFit
<1> QED BY <1>2, <1>3

\* What was to be rewritten still is.
LEMMA AddedRewrites ==
    ASSUME TInv, PInv, NEW op, NEW w, NEW left, AddsFile(op, w, left),
           NEW i, NEW n, NEW e, Added(op, w, left, i, n, e)
    PROVE  RewritesFit'
<1>1. /\ payload' = payload /\ pubs' = pubs /\ handler' = handler /\ table'.id = table.id /\ status' = status
  BY DEF AddsFile
<1>2. ASSUME NEW f \in AllEntries PROVE f \in AllEntries'
  <2>1. PICK k \in DOMAIN table.snaps : f \in FilesAt(table, k)
    BY <1>2 DEF AllEntries
  <2>2. k \in DOMAIN table'.snaps /\ FilesAt(table', k) = FilesAt(table, k)
    BY DEF Added, FilesAt
  <2>3. f \in FilesAt(table', k)
    BY <2>1, <2>2
  <2> QED BY <2>2, <2>3 DEF AllEntries
<1>3. Paths(AllEntries) \subseteq Paths(AllEntries')
  BY <1>2 DEF Paths
<1>4. \A j : Rewrites(j) => Rewrites(j)'
  BY <1>1 DEF Rewrites, RowsOf, Accepted
<1>5. ASSUME NEW q \in Requests, q.op = "optimize", handler[q].at = "insert", handler[q].table = table.id
      PROVE  Rewrites(handler[q].job)'
  <2>1. PICK j : j = handler[q].job
    OBVIOUS
  <2>2. Rewrites(j)'
    BY <1>4, <1>5, <2>1 DEF PInv, RewritesFit
  <2> QED BY <1>1, <2>1, <2>2 DEF Rewrites
<1>6. ASSUME NEW m \in DOMAIN pubs, pubs[m].kind = "optimize", pubs[m].table = table.id
      PROVE  Rewrites(pubs[m].job)'
  <2>1. PICK j : j = pubs[m].job
    OBVIOUS
  <2>2. Rewrites(j)'
    BY <1>4, <1>6, <2>1 DEF PInv, RewritesFit
  <2> QED BY <1>1, <2>1, <2>2 DEF Rewrites
<1>7. ASSUME NEW q \in Requests, q.op = "optimize", handler[q].at = "post", handler[q].table = table.id
      PROVE  handler[q].files \subseteq Paths(AllEntries')
  BY <1>3, <1>7 DEF PInv, RewritesFit
<1> QED BY <1>1, <1>5, <1>6, <1>7 DEF RewritesFit, Paths

\* Nothing that is doomed comes back.
LEMMA AddedDooms ==
    ASSUME TInv, PInv, NEW op, NEW w, NEW left, AddsFile(op, w, left),
           NEW i, NEW n, NEW e, Added(op, w, left, i, n, e),
           w \notin Doomed, table.live
    PROVE  DoomFits'
<1>1. /\ UNCHANGED <<deleted, payload, pubs, handler>> /\ table'.id = table.id
  BY DEF AddsFile
<1>2. Doomed' = Doomed
  BY <1>1 DEF Doomed, OfDeletes, OfExpiries
<1>3. (ReferencedFiles(table) \cup Paths(CurrentFiles(table))) \cap Doomed = {}
  BY DEF PInv, DoomFits
<1>4. \A f \in left \cup {e} : f.path \notin Doomed
  BY <1>3 DEF AddsFile, Added, Paths
<1>5. Paths(CurrentFiles(table')) \cap Doomed = {}
  BY <1>4 DEF Added, Paths
<1>6. ReferencedFiles(table') \cap Doomed = {}
  <2> SUFFICES ASSUME NEW k \in table'.kept, NEW f \in FilesAt(table', k) PROVE f.path \notin Doomed
    BY DEF ReferencedFiles, Paths
  <2>1. CASE k = n
    BY <1>4, <2>1 DEF Added, FilesAt
  <2>2. CASE k = i /\ i # n
    BY <2>2 DEF Added, FilesAt
  <2>3. CASE k # n /\ k # i
    <3>1. k \in table.kept /\ k \in DOMAIN table.snaps
      BY <2>3 DEF Added, TInv, TablesFit
    <3>2. f \in FilesAt(table, k)
      BY <3>1 DEF Added, FilesAt
    <3>3. f.path \in ReferencedFiles(table)
      BY <3>1, <3>2 DEF ReferencedFiles, Paths
    <3> QED BY <1>3, <3>3
  <2> QED BY <2>1, <2>2, <2>3
<1>7. InTable \subseteq InTable'
  BY DEF InTable, Added
<1> QED BY <1>1, <1>2, <1>5, <1>6, <1>7 DEF PInv, DoomFits

\* An import's rows are added; a rewrite adds those it takes away.
LEMMA AddedRows ==
    ASSUME TInv, PInv, NEW op, NEW w, NEW left, AddsFile(op, w, left),
           NEW i, NEW n, NEW e, Added(op, w, left, i, n, e),
           \/ payload[w].op = "ingest" /\ op = "append" /\ (n = i => left = CurrentFiles(table))
           \/ /\ payload[w].op = "optimize" /\ op = "overwrite" /\ Rewrites(w)
              /\ payload[w].files \subseteq Paths(CurrentFiles(table))
              /\ left = {f \in CurrentFiles(table) : f.path \notin payload[w].files}
    PROVE  RowsOnce'
<1>1. payload' = payload
  BY DEF AddsFile
<1>2. CurrentFiles(table') = left \cup {e} /\ e.rows = RowsOf(w)
  BY DEF Added
<1>3. /\ \A f, g \in CurrentFiles(table) : f # g => f.rows \cap g.rows = {}
      /\ Rows(CurrentFiles(table)) = Since(table)
  BY DEF PInv, RowsOnce
<1>4. w \notin Since(table)
  BY SinceIs DEF AddsFile, InTable, Counts
<1>5. \A k \in DOMAIN table.snaps : /\ table'.snaps[k] = table.snaps[k] /\ k \in Nat
                                    /\ k < i /\ k < n /\ k # n
  BY DEF Added
<1>6. /\ i \in Nat /\ n \in Nat /\ n \in DOMAIN table'.snaps /\ (n = i \/ n = i + 1)
      /\ DOMAIN table'.snaps = DOMAIN table.snaps \cup {i, n}
      /\ table'.snaps[n].op = op /\ table'.snaps[n].write = w
      /\ n # i => /\ left = {} /\ table'.snaps[i].op = "delete" /\ table'.snaps[i].write = w
  BY DEF Added
<1>7. \A m : Counts(m)' <=> /\ m \in DOMAIN table'.snaps /\ payload[table'.snaps[m].write].op = "ingest"
                            /\ \A k \in DOMAIN table'.snaps :
                                 payload[table'.snaps[k].write].op = "ingest" /\ table'.snaps[k].op = "delete" => m >= k
  BY <1>1 DEF Counts
<1>8. \A v : v \in Since(table)' <=> \E m : Counts(m)' /\ v = table'.snaps[m].write
  BY SinceIs
<1>9. ASSUME \A f, g \in left \cup {e} : f # g => f.rows \cap g.rows = {}, Rows(left \cup {e}) = Since(table)'
      PROVE  RowsOnce'
  <2>1. CurrentFiles(table)' = left \cup {e}
    BY <1>2 DEF CurrentFiles, CurrentSnapshot, FilesAt
  <2>2. Rows(CurrentFiles(table))' = Rows(left \cup {e})
    BY <2>1 DEF Rows
  <2> QED BY <1>9, <2>1, <2>2 DEF RowsOnce
<1>10. CASE payload[w].op = "ingest" /\ op = "append" /\ n = i /\ left = CurrentFiles(table)
  <2>1. e.rows = {w}
    BY <1>2, <1>10 DEF RowsOf
  <2>2. Rows(left \cup {e}) = Since(table) \cup {w}
    BY <1>3, <1>10, <2>1 DEF Rows
  <2>3. \A f \in CurrentFiles(table) : w \notin f.rows
    BY <1>3, <1>4 DEF Rows
  <2>4. \A m \in DOMAIN table.snaps : Counts(m)' <=> Counts(m)
    BY <1>5, <1>6, <1>7, <1>10 DEF Counts
  <2>5. Counts(n)'
    BY <1>5, <1>6, <1>7, <1>10
  <2>6. \A v : v \in Since(table)' <=> v \in Since(table) \/ v = w
    <3>1. \A m : Counts(m)' => m \in DOMAIN table.snaps \/ m = n
      BY <1>6, <1>7, <1>10
    <3>2. \A m : Counts(m) => m \in DOMAIN table.snaps
      BY DEF Counts
    <3>3. ASSUME NEW v \in Since(table)' PROVE v \in Since(table) \/ v = w
      <4>1. PICK m : Counts(m)' /\ v = table'.snaps[m].write
        BY <1>8
      <4>2. CASE m = n
        BY <1>6, <4>1, <4>2
      <4>3. CASE m \in DOMAIN table.snaps
        <5>1. Counts(m) /\ v = table.snaps[m].write
          BY <1>5, <2>4, <4>1, <4>3
        <5> QED BY <5>1, SinceIs
      <4> QED BY <3>1, <4>1, <4>2, <4>3
    <3>4. ASSUME NEW v \in Since(table) PROVE v \in Since(table)'
      <4>1. PICK m : Counts(m) /\ v = table.snaps[m].write
        BY SinceIs
      <4> QED BY <1>5, <1>8, <2>4, <3>2, <4>1
    <3>5. w \in Since(table)'
      BY <1>6, <1>8, <2>5
    <3> QED BY <3>3, <3>4, <3>5
  <2>7. Since(table)' = Since(table) \cup {w}
    BY <2>6 DEF Since
  <2>8. \A f, g \in left \cup {e} : f # g => f.rows \cap g.rows = {}
    BY <1>3, <1>10, <2>1, <2>3
  <2> QED BY <1>9, <2>2, <2>7, <2>8
<1>11. CASE payload[w].op = "ingest" /\ op = "append" /\ n # i
  <2>1. e.rows = {w}
    BY <1>2, <1>11 DEF RowsOf
  <2>2. left = {} /\ Rows(left \cup {e}) = {w}
    BY <1>6, <1>11, <2>1 DEF Rows
  <2>3. \A m \in DOMAIN table.snaps : ~ Counts(m)'
    BY <1>5, <1>6, <1>7, <1>11
  <2>4. Counts(n)'
    BY <1>5, <1>6, <1>7, <1>11
  <2>5. \A m : Counts(m)' => m = n \/ m = i
    BY <1>6, <1>7, <2>3
  <2>6. \A v : v \in Since(table)' <=> v = w
    BY <1>6, <1>8, <1>11, <2>4, <2>5
  <2>7. Since(table)' = {w}
    BY <2>6 DEF Since
  <2> QED BY <1>9, <2>2, <2>7
<1>12. CASE /\ payload[w].op = "optimize" /\ op = "overwrite" /\ n = i /\ Rewrites(w)
            /\ payload[w].files \subseteq Paths(CurrentFiles(table))
            /\ left = {f \in CurrentFiles(table) : f.path \notin payload[w].files}
  <2>1. e.rows = UNION {RowsOf(f) : f \in payload[w].files}
    BY <1>2, <1>12 DEF RowsOf, Rewrites
  <2>2. \A f \in CurrentFiles(table) : f.rows = RowsOf(f.path)
    BY CurrentKnows DEF PInv
  <2>3. \A x : x \in e.rows <=> \E f \in CurrentFiles(table) : f.path \in payload[w].files /\ x \in f.rows
    <3>1. ASSUME NEW x \in e.rows PROVE \E f \in CurrentFiles(table) : f.path \in payload[w].files /\ x \in f.rows
      <4>1. PICK j \in payload[w].files : x \in RowsOf(j)
        BY <2>1, <3>1
      <4>2. PICK f \in CurrentFiles(table) : f.path = j
        BY <1>12, <4>1 DEF Paths
      <4> QED BY <2>2, <4>1, <4>2
    <3>2. ASSUME NEW x, NEW f \in CurrentFiles(table), f.path \in payload[w].files, x \in f.rows PROVE x \in e.rows
      BY <2>1, <2>2, <3>2
    <3> QED BY <3>1, <3>2
  <2>4. \A f, g \in left \cup {e} : f # g => f.rows \cap g.rows = {}
    <3>1. \A f \in left : f.rows \cap e.rows = {}
      <4> SUFFICES ASSUME NEW f \in left, NEW x \in f.rows, x \in e.rows PROVE FALSE
        OBVIOUS
      <4>1. PICK g \in CurrentFiles(table) : g.path \in payload[w].files /\ x \in g.rows
        BY <2>3
      <4>2. f \in CurrentFiles(table) /\ f.path \notin payload[w].files
        BY <1>12
      <4> QED BY <1>3, <4>1, <4>2
    <3> QED BY <1>3, <1>12, <3>1
  <2>5. Rows(left \cup {e}) = Rows(CurrentFiles(table))
    <3>1. \A x : x \in Rows(left \cup {e}) <=> x \in Rows(CurrentFiles(table))
      BY <1>12, <2>3 DEF Rows
    <3> QED BY <3>1 DEF Rows
  <2>6. \A m \in DOMAIN table.snaps : Counts(m)' <=> Counts(m)
    BY <1>5, <1>6, <1>7, <1>12 DEF Counts
  <2>7. ~ Counts(n)'
    BY <1>6, <1>7, <1>12
  <2>8. \A v : v \in Since(table)' <=> v \in Since(table)
    <3>1. \A m : Counts(m)' => m \in DOMAIN table.snaps
      BY <1>6, <1>7, <1>12, <2>7
    <3>2. \A m : Counts(m) => m \in DOMAIN table.snaps
      BY DEF Counts
    <3>3. ASSUME NEW v \in Since(table)' PROVE v \in Since(table)
      <4>1. PICK m : Counts(m)' /\ v = table'.snaps[m].write
        BY <1>8
      <4>2. Counts(m) /\ v = table.snaps[m].write
        BY <1>5, <2>6, <3>1, <4>1
      <4> QED BY <4>2, SinceIs
    <3>4. ASSUME NEW v \in Since(table) PROVE v \in Since(table)'
      <4>1. PICK m : Counts(m) /\ v = table.snaps[m].write
        BY SinceIs
      <4> QED BY <1>5, <1>8, <2>6, <3>2, <4>1
    <3> QED BY <3>3, <3>4
  <2>9. Since(table)' = Since(table)
    BY <2>8 DEF Since
  <2> QED BY <1>3, <1>9, <2>4, <2>5, <2>9
<1>13. op # "append" => n = i
  BY DEF Added
<1> QED BY <1>10, <1>11, <1>12, <1>13

\* The publisher commits to the table: a job whose snapshot is remembered is not
\* committed again.
LEMMA CommitPInv == ASSUME TInv, PInv, Remembers, Commit PROVE PInv'
<1>1. /\ publisher.at = "commit" /\ Current.kind \in {"ingest", "optimize"}
      /\ UNCHANGED <<deleted, payload, status, pubs, handler>>
      /\ table' = table \/ /\ table' = Committed(Current) /\ IsThere(Current.table)
                           /\ ~ (Current.kind = "optimize" /\ IsGone(table, Current.job, payload[Current.job].files))
  BY DEF Commit, TInv, PublisherFits, compute
<1>2. CASE table' = table
  <2>1. SameTable
    BY <1>2 DEF SameTable
  <2> QED BY <1>1, <2>1, QuietStep
<1>3. CASE table' # table
  <2>1. PICK m : m = First(publisher.todo) /\ m \in DOMAIN pubs /\ pubs[m] = Current /\ pubs[m].state = "pending"
    <3>1. publisher.todo \in SUBSET Nat /\ publisher.todo # {}
      BY <1>1 DEF TInv, Shape, Publishers, PublisherFits
    <3>2. First(publisher.todo) \in publisher.todo
      BY <3>1, FirstFacts
    <3> QED BY <3>2 DEF TInv, PublisherFits, Current
  <2>2. PICK p : p = Current
    OBVIOUS
  <2>3. /\ p \in Pubs /\ PubFits(p) /\ p.kind \in {"ingest", "optimize"} /\ p = pubs[m]
        /\ p.job \in Accepted /\ p.table = table.id /\ table.live /\ payload[p.job].op = p.kind
    <3>1. p \in Pubs /\ PubFits(p)
      BY <1>1, <2>2, CurrentFacts
    <3> QED BY <1>1, <1>3, <2>1, <2>2, <3>1 DEF PubFits, IsThere
  <2>4. table' = Committed(p) /\ Committed(p) # table
    BY <1>1, <1>3, <2>2
  <2>5. ~HasWrite(table, p.job)
    BY <2>3, <2>4, CommittedFacts
  <2>6. p.job \notin InTable
    <3>1. Replayable(m)
      BY <1>1, <2>1 DEF Replayable
    <3> QED BY <2>1, <2>3, <2>5, <3>1 DEF Remembers, InTable
  <2>7. PICK op \in {"append", "overwrite"}, left \in SUBSET CurrentFiles(table) :
          /\ Adds(table, table', op, p.job, left, Written(p)) /\ Written(p) \in SUBSET Jobs
          /\ table'.id = table.id /\ table'.live = table.live
          /\ p.kind = "ingest" =>
               /\ op = "append"
               /\ Len(table'.snaps) = Len(table.snaps) + 1 => left = CurrentFiles(table)
          /\ p.kind = "optimize" =>
               /\ op = "overwrite"
               /\ left = {e \in CurrentFiles(table) : e.path \notin payload[p.job].files}
    <3>1. /\ ~HasWrite(table, p.job) /\ Written(p) \in SUBSET Jobs
          /\ Committed(p).id = table.id /\ Committed(p).live = table.live
          /\ \E op \in {"append", "overwrite"}, left \in SUBSET CurrentFiles(table) :
               /\ Adds(table, Committed(p), op, p.job, left, Written(p))
               /\ p.kind = "ingest" =>
                    /\ op = "append"
                    /\ Len(Committed(p).snaps) = Len(table.snaps) + 1
                         => left = CurrentFiles(table)
               /\ p.kind = "optimize" =>
                    /\ op = "overwrite"
                    /\ left = {e \in CurrentFiles(table) : e.path \notin payload[p.job].files}
      BY <2>3, <2>4, CommittedFacts
    <3>2. Committed(p) = table'
      BY <2>4
    <3> QED BY <3>1, <3>2
  <2>8. Written(p) = RowsOf(p.job)
    BY <2>3 DEF Written, RowsOf
  <2>9. AddsFile(op, p.job, left)
    BY <1>1, <2>3, <2>6, <2>7, <2>8 DEF AddsFile
  <2>10. PICK i, n, e : Added(op, p.job, left, i, n, e)
    BY <2>9, AddedIs
  <2>11. FilesFit' /\ SnapsFit'
    BY <2>1, <2>3, <2>9, <2>10, AddedFits
  <2>12. RewritesFit'
    BY <2>9, <2>10, AddedRewrites
  <2>13. p.job \notin Doomed
    <3> SUFFICES ASSUME p.job \in Doomed PROVE FALSE
      OBVIOUS
    <3>1. PICK k \in DOMAIN pubs : pubs[k].job = p.job /\ (pubs[k].table = table.id => p.job \in InTable)
      BY DEF PInv, DoomFits
    <3>2. k = m
      BY <2>1, <2>3, <3>1 DEF TInv, OneHand
    <3> QED BY <2>3, <2>6, <3>1, <3>2
  <2>14. DoomFits'
    BY <2>3, <2>9, <2>10, <2>13, AddedDooms
  <2>15. RowsOnce'
    <3>1. CASE p.kind = "ingest"
      <4>1. n = i => left = CurrentFiles(table)
        BY <2>7, <2>10, <3>1 DEF Added
      <4> QED BY <2>3, <2>7, <2>9, <2>10, <3>1, <4>1, AddedRows
    <3>2. CASE p.kind = "optimize"
      <4>1. Rewrites(p.job)
        BY <2>1, <2>3, <3>2 DEF PInv, RewritesFit
      <4>2. payload[p.job].files \subseteq Paths(CurrentFiles(table))
        BY <1>1, <1>3, <2>2, <2>5, <3>2 DEF IsGone
      <4> QED BY <2>3, <2>7, <2>9, <2>10, <3>2, <4>1, <4>2, AddedRows
    <3> QED BY <2>3, <3>1, <3>2
  <2> QED BY <2>11, <2>12, <2>14, <2>15 DEF PInv
<1> QED BY <1>2, <1>3

\* At first there is nothing.
LEMMA InitPInv == ASSUME Init PROVE PInv
<1>1. /\ DOMAIN table.snaps = {} /\ table.snaps = <<>> /\ table.kept = {} /\ Len(table.snaps) = 0
  BY DEF Init
<1>2. deleted = {} /\ DOMAIN pubs = {} /\ \A q \in Requests : handler[q].at = "start"
  BY DEF Init, NotYet
<1>3. \A j \in Jobs : payload[j] = NoWork
  BY DEF Init
<1>4. FilesFit /\ SnapsFit
  BY <1>1 DEF FilesFit, SnapsFit
<1>5. RewritesFit
  BY <1>2 DEF RewritesFit
<1>6. CurrentFiles(table) = {} /\ Since(table) = {}
  BY <1>1 DEF CurrentFiles, CurrentSnapshot, FilesAt, Since
<1>7. RowsOnce
  BY <1>6 DEF RowsOnce, Rows
<1>8. Doomed = {}
  BY <1>2, <1>3 DEF Doomed, OfDeletes, OfExpiries, NoWork
<1>9. DoomFits
  BY <1>8 DEF DoomFits
<1> QED BY <1>4, <1>5, <1>7, <1>9 DEF PInv

\* As long as the commits that may come again are remembered, every step keeps the
\* contents of the table right.
LEMMA NextPInv == ASSUME TInv, TInv', PInv, Remembers, [Next]_vars PROVE PInv'
<1>1. CASE Next
  <2>1. CASE \E i \in Imports : CreateImport(i)
    BY <2>1, CreateImportQuiet
  <2>2. CASE \E q \in Requests : Serve(q)
    <3>1. PICK q \in Requests : Serve(q)
      BY <2>2
    <3>2. CASE Arrive(q) \/ Queue(q) \/ NotUploaded(q) \/ FindAppended(q) \/ PlanRefresh(q) \/ DropTable(q)
      BY <3>2, RequestQuiet
    <3>3. CASE PlanOptimize(q)
      BY <3>3, PlanOptimizePInv
    <3>4. CASE PlanExpire(q)
      BY <3>4, PlanExpirePInv
    <3>5. CASE PostJob(q)
      BY <3>5, PostJobPInv
    <3>6. CASE InsertPublication(q)
      BY <3>6, InsertPublicationPInv
    <3> QED BY <3>1, <3>2, <3>3, <3>4, <3>5, <3>6 DEF Serve
  <2>3. CASE Publish
    <3>1. CASE Reconcile \/ Look \/ PassEnds \/ CommitRefresh \/ Settle \/ Fail
      BY <3>1, PublisherQuiet
    <3>2. CASE CreateTable
      BY <3>2, CreateTablePInv
    <3>3. CASE PostIngest
      BY <3>3, PostIngestPInv
    <3>4. CASE InsertIngest
      BY <3>4, InsertIngestQuiet
    <3>5. CASE Commit
      BY <3>5, CommitPInv
    <3>6. CASE Mark
      BY <3>6, MarkQuiet
    <3> QED BY <2>3, <3>1, <3>2, <3>3, <3>4, <3>5, <3>6 DEF Publish
  <2>4. CASE \E j \in Jobs : JobEnds(j)
    BY <2>4, JobEndsPInv
  <2>5. CASE Crash
    BY <2>5, CrashQuiet
  <2> QED BY <1>1, <2>1, <2>2, <2>3, <2>4, <2>5 DEF Next
<1>2. CASE UNCHANGED vars
  <2>1. SameTable /\ UNCHANGED <<deleted, payload, status, pubs, handler>>
    BY <1>2 DEF vars, SameTable, compute
  <2> QED BY <2>1, QuietStep
<1> QED BY <1>1, <1>2

\* No snapshot points at a file that has been removed.
LEMMA PInvNoDangling == ASSUME PInv PROVE NoDanglingFile
<1>1. deleted \subseteq Doomed
  BY DEF Doomed
<1> QED BY <1>1 DEF PInv, DoomFits, NoDanglingFile

\* As long as the snapshot of a publication that may be committed again has not been
\* expired, the rows of every committed write are in the table exactly once and no
\* snapshot that can still be read points at a file that has been deleted, whatever
\* rewrites, overwrites, expiries, drops, crashes and late errors come in between
\* (commit_files, replace_files, expire).
THEOREM RememberedContents == Spec /\ []Remembers => [](RowsOnce /\ NoDanglingFile)
<1>1. Init => PInv
  BY InitPInv
<1>2. TInv /\ TInv' /\ PInv /\ Remembers /\ [Next]_vars => PInv'
  BY NextPInv
<1>3. PInv => RowsOnce /\ NoDanglingFile
  BY PInvNoDangling DEF PInv
<1> QED BY <1>1, <1>2, <1>3, PublicationsAreConsistent, PTL DEF Spec

-----------------------------------------------------------------------------
(* When no snapshot is ever expired.                                       *)

NoExpiry == \A q \in Requests : q.op # "expire"
KeepsAll == table.kept = DOMAIN table.snaps

\* The snapshots that are kept: an expiry drops some, a commit adds one, and a new table
\* has none.
LEMMA KeptMoves ==
    ASSUME TInv, [Next]_vars
    PROVE  \/ table'.kept = table.kept /\ table'.snaps = table.snaps
           \/ \E q \in Requests : PlanExpire(q)
           \/ table'.kept = {} /\ DOMAIN table'.snaps = {}
           \/ \E i, n : /\ i = Len(table.snaps) + 1 /\ n = Len(table'.snaps) /\ (n = i \/ n = i + 1)
                        /\ table'.kept = table.kept \cup {i, n}
                        /\ DOMAIN table'.snaps = DOMAIN table.snaps \cup {i, n}
<1>1. CASE table' = table \/ table' = Dropped
  BY <1>1, DroppedFacts
<1>2. CASE CreateTable
  <2>1. table' = table \/ (table'.kept = {} /\ DOMAIN table'.snaps = {})
    BY <1>2 DEF CreateTable, NewTable
  <2> QED BY <2>1
<1>3. CASE Commit
  <2>1. publisher.at = "commit" /\ Current.kind \in {"ingest", "optimize"} /\ table' \in {table, Committed(Current)}
    BY <1>3 DEF Commit, TInv, PublisherFits
  <2>2. PICK p \in Pubs : p = Current /\ PubFits(p)
    BY <2>1, CurrentFacts
  <2>3. p.job \in Jobs /\ p.kind \in {"ingest", "optimize"}
    BY <2>1, <2>2 DEF Pubs
  <2>4. CASE table' # table
    <3>1. table' = Committed(p) /\ Committed(p) # table
      BY <2>1, <2>2, <2>4
    <3>2. PICK op, left : Adds(table, table', op, p.job, left, Written(p))
      BY <2>2, <2>3, <3>1, CommittedFacts
    <3>3. PICK i, n : i = Len(table.snaps) + 1 /\ n = Len(table'.snaps)
      OBVIOUS
    <3>4. /\ table'.kept = table.kept \cup {i, n} /\ DOMAIN table'.snaps = DOMAIN table.snaps \cup {i, n}
          /\ n = i \/ n = i + 1
      BY <3>2, <3>3 DEF Adds
    <3> QED BY <3>3, <3>4
  <2> QED BY <2>4
<1>4. CASE ~ CreateTable /\ ~ Commit /\ Next
  <2>1. CASE \E q \in Requests : Serve(q)
    <3>1. PICK q \in Requests : Serve(q)
      BY <2>1
    <3> QED BY <1>1, <3>1 DEF Serve, Arrive, Queue, NotUploaded, PlanOptimize, FindAppended, PlanRefresh,
                               PostJob, InsertPublication, DropTable
  <2>2. CASE Publish
    <3>1. table' = table \/ table' = Dropped
      BY <1>4, <2>2 DEF Publish, Reconcile, Look, PassEnds, PostIngest, InsertIngest, CommitRefresh, Settle, Fail, Mark
    <3> QED BY <1>1, <3>1
  <2>3. CASE \E i \in Imports : CreateImport(i)
    BY <2>3 DEF CreateImport
  <2>4. CASE (\E j \in Jobs : JobEnds(j)) \/ Crash
    BY <2>4 DEF JobEnds, Crash
  <2> QED BY <1>4, <2>1, <2>2, <2>3, <2>4 DEF Next
<1>5. CASE UNCHANGED vars
  BY <1>5 DEF vars
<1> QED BY <1>2, <1>3, <1>4, <1>5

\* Then all of them are kept.
LEMMA NextKeepsAll == ASSUME TInv, KeepsAll, NoExpiry, [Next]_vars PROVE KeepsAll'
<1>1. \A q \in Requests : ~ PlanExpire(q)
  BY DEF NoExpiry, PlanExpire
<1>2. CASE table'.kept = table.kept /\ table'.snaps = table.snaps
  BY <1>2 DEF KeepsAll
<1>3. CASE table'.kept = {} /\ DOMAIN table'.snaps = {}
  BY <1>3 DEF KeepsAll
<1>4. CASE \E i, n : /\ table'.kept = table.kept \cup {i, n}
                     /\ DOMAIN table'.snaps = DOMAIN table.snaps \cup {i, n}
  BY <1>4 DEF KeepsAll
<1> QED BY <1>1, <1>2, <1>3, <1>4, KeptMoves

\* Where nobody expires snapshots, a write is in the table exactly once and no file of
\* it is removed, however often the publisher crashes and replays its publications.
THEOREM ContentsWithoutExpiry == ASSUME NoExpiry PROVE Spec => [](RowsOnce /\ NoDanglingFile)
<1>1. Init => KeepsAll
  BY DEF Init, KeepsAll
<1>2. TInv /\ KeepsAll /\ [Next]_vars => KeepsAll'
  BY NextKeepsAll
<1>3. KeepsAll => Remembers
  BY DEF KeepsAll, Remembers, HasWrite
<1>4. Spec => []Remembers
  BY <1>1, <1>2, <1>3, PublicationsAreConsistent, PTL DEF Spec
<1> QED BY <1>4, RememberedContents, PTL

-----------------------------------------------------------------------------
(* When snapshots are expired and the process crashes.                     *)

\* The newest retain_last snapshots are never expired.
NewestKept ==
    \A k \in DOMAIN table.snaps : Len(table.snaps) - k < RetainLast => k \in table.kept

\* An expiry that keeps enough of them keeps the newest: those after a snapshot that it
\* drops are too few.
LEMMA ExpiryKeeps ==
    ASSUME NEW len \in Nat, NEW kept \in SUBSET (1 .. len), NEW n \in Nat, NEW retain \in Nat,
           Cardinality({j \in kept : j >= n}) >= IF retain < Cardinality(kept) THEN retain
                                                 ELSE Cardinality(kept),
           NEW k \in kept, len - k < retain
    PROVE  k >= n
<1> SUFFICES ASSUME k < n PROVE FALSE
  OBVIOUS
<1> DEFINE S == {j \in kept : j >= n}
<1>1. k \in Nat /\ k + 1 \in Nat /\ k <= len
  OBVIOUS
<1>2. IsFiniteSet(1 .. len) /\ IsFiniteSet((k + 1) .. len) /\ Cardinality((k + 1) .. len) = len - k
  BY <1>1, FS_Interval
<1>3. S \subseteq kept /\ S \subseteq (k + 1) .. len /\ k \notin S
  <2>1. ASSUME NEW j \in S PROVE j \in (k + 1) .. len /\ j # k
    <3>1. j \in kept /\ j >= n /\ j \in Nat /\ j <= len
      OBVIOUS
    <3> QED BY <1>1, <3>1
  <2> QED BY <2>1
<1>4. IsFiniteSet(kept) /\ Cardinality(kept) \in Nat
  BY <1>2, FS_Subset, FS_CardinalityType
<1>5. Cardinality(S) <= len - k /\ Cardinality(S) <= Cardinality(kept) /\ Cardinality(S) \in Nat
  BY <1>2, <1>3, <1>4, FS_Subset, FS_CardinalityType
<1>6. S # kept
  BY <1>3
<1> HIDE DEF S
<1>7. Cardinality(S) # Cardinality(kept)
  BY <1>3, <1>4, <1>6, FS_Subset
<1>8. Cardinality(S) >= IF retain < Cardinality(kept) THEN retain ELSE Cardinality(kept)
  BY DEF S
<1> QED BY <1>1, <1>4, <1>5, <1>7, <1>8

\* No step expires one of them.
LEMMA NextNewestKept == ASSUME TInv, NewestKept, [Next]_vars PROVE NewestKept'
<1>1. CASE table'.kept = table.kept /\ table'.snaps = table.snaps
  BY <1>1 DEF NewestKept
<1>2. CASE table'.kept = {} /\ DOMAIN table'.snaps = {}
  BY <1>2 DEF NewestKept
<1>3. CASE \E i, n : /\ i = Len(table.snaps) + 1 /\ n = Len(table'.snaps) /\ (n = i \/ n = i + 1)
                     /\ table'.kept = table.kept \cup {i, n}
                     /\ DOMAIN table'.snaps = DOMAIN table.snaps \cup {i, n}
  <2>1. PICK i, n : /\ i = Len(table.snaps) + 1 /\ n = Len(table'.snaps) /\ (n = i \/ n = i + 1)
                    /\ table'.kept = table.kept \cup {i, n}
                    /\ DOMAIN table'.snaps = DOMAIN table.snaps \cup {i, n}
    BY <1>3
  <2>2. Len(table.snaps) \in Nat /\ DOMAIN table.snaps = 1 .. Len(table.snaps) /\ RetainLast \in Nat
    BY TableKnows, ConstantFacts
  <2> SUFFICES ASSUME NEW k \in DOMAIN table'.snaps, n - k < RetainLast PROVE k \in table'.kept
    BY <2>1 DEF NewestKept
  <2>3. CASE k = i \/ k = n
    BY <2>1, <2>3
  <2>4. CASE k # i /\ k # n
    <3>1. k \in DOMAIN table.snaps
      BY <2>1, <2>4
    <3>2. PICK l \in Nat : l = Len(table.snaps)
      BY <2>2
    <3>3. k \in Nat /\ (n = l + 1 \/ n = l + 2) /\ RetainLast \in Nat
      BY <2>1, <2>2, <3>1, <3>2
    <3>4. l - k < RetainLast
      BY <3>3
    <3> QED BY <2>1, <3>1, <3>2, <3>4 DEF NewestKept
  <2> QED BY <2>3, <2>4
<1>4. CASE \E q \in Requests : PlanExpire(q)
  <2>1. PICK q \in Requests : PlanExpire(q)
    BY <1>4
  <2>2. CASE table' = table
    BY <1>1, <2>2
  <2>3. CASE table' # table
    <3>1. PICK n \in 1 .. (CurrentSnapshot(table) + 1) :
            MayExpire(table, n, RetainLast) /\ table' = Expired(table, n)
      BY <2>1, <2>3 DEF PlanExpire
    <3>2. table'.snaps = table.snaps /\ table'.kept = {j \in table.kept : j >= n}
      BY <3>1, TableKnows DEF Expired, Tables
    <3>3. /\ Len(table.snaps) \in Nat /\ table.kept \subseteq 1 .. Len(table.snaps)
          /\ RetainLast \in Nat /\ n \in Nat
      BY <3>1, TableKnows, ConstantFacts DEF TInv, TablesFit, CurrentSnapshot
    <3> SUFFICES ASSUME NEW k \in DOMAIN table.snaps, Len(table.snaps) - k < RetainLast
                 PROVE  k \in table.kept /\ k >= n
      BY <3>2 DEF NewestKept
    <3>4. k \in table.kept
      BY DEF NewestKept
    <3>5. k >= n
      BY <3>1, <3>3, <3>4, ExpiryKeeps DEF MayExpire
    <3> QED BY <3>4, <3>5
  <2> QED BY <2>2, <2>3
<1> QED BY <1>1, <1>2, <1>3, <1>4, KeptMoves

\* The newest retain_last snapshots of a table are kept through every expiry, whatever is
\* committed, rewritten or replayed in between (expire_snapshots).
THEOREM NewestAreKept == Spec => []NewestKept
<1>1. Init => NewestKept
  BY DEF Init, NewestKept
<1>2. TInv /\ NewestKept /\ [Next]_vars => NewestKept'
  BY NextNewestKept
<1> QED BY <1>1, <1>2, PublicationsAreConsistent, PTL DEF Spec

\* A publication that may be committed again is replayed before retain_last snapshots
\* have been made after any of its own.
Recent ==
    \A n \in DOMAIN pubs : Replayable(n) =>
        \A k \in DOMAIN table.snaps : table.snaps[k].write = pubs[n].job
                                        => Len(table.snaps) - k < RetainLast

\* Then retain_last is enough: whatever is expired and however often the publisher dies
\* between a commit and its record, a write is in the table exactly once and no file of
\* it is removed (commit_files, replace_files, expire).
THEOREM ContentsWithRetention == Spec /\ []Recent => [](RowsOnce /\ NoDanglingFile)
<1>1. NewestKept /\ Recent => Remembers
  BY DEF NewestKept, Recent, Remembers, HasWrite
<1> QED BY <1>1, NewestAreKept, RememberedContents, PTL

-----------------------------------------------------------------------------
(* When the process does not crash.                                        *)

\* No publication has to be committed again.
Fresh == \A n \in DOMAIN pubs : Replayable(n) => pubs[n].job \notin InTable

\* Nothing is, as long as what becomes replayable is not in the table yet.
LEMMA FreshStays ==
    ASSUME Fresh, InTable' \subseteq InTable,
           \A n \in DOMAIN pubs' : Replayable(n)' =>
             \/ n \in DOMAIN pubs /\ Replayable(n) /\ pubs'[n].job = pubs[n].job
             \/ pubs'[n].job \notin InTable
    PROVE  Fresh'
BY DEF Fresh

\* A new publication is of a job that nobody has committed.
LEMMA FreshAppended ==
    ASSUME TInv, SnapsFit, Fresh, NEW p, pubs' = Append(pubs, p), InTable' = InTable,
           \A n \in DOMAIN pubs : pubs[n].job # p.job,
           publisher.at \notin {"settle", "fail", "mark"} \/ publisher' = publisher
    PROVE  Fresh'
<1>1. /\ DOMAIN pubs' = DOMAIN pubs \cup {Len(pubs) + 1} /\ pubs'[Len(pubs) + 1] = p
      /\ \A n \in DOMAIN pubs : pubs'[n] = pubs[n]
  <2>1. pubs \in Seq(Pubs)
    BY DEF TInv, Shape
  <2> QED BY <2>1
<1>2. p.job \notin InTable
  BY DEF SnapsFit, InTable
<1>3. ASSUME NEW n \in DOMAIN pubs', Replayable(n)'
      PROVE  \/ n \in DOMAIN pubs /\ Replayable(n) /\ pubs'[n].job = pubs[n].job
             \/ pubs'[n].job \notin InTable
  BY <1>1, <1>2, <1>3 DEF Replayable
<1> QED BY <1>3, FreshStays

\* The publisher is at the same publication, or at none that is being settled.
LEMMA FreshGoesOn ==
    ASSUME Fresh, InTable' \subseteq InTable, pubs' = pubs,
           \/ publisher.at \notin {"settle", "fail", "mark"}
           \/ publisher'.at \in {"settle", "fail", "mark"} /\ publisher'.todo = publisher.todo
    PROVE  Fresh'
<1>1. ASSUME NEW n \in DOMAIN pubs', Replayable(n)'
      PROVE  n \in DOMAIN pubs /\ Replayable(n) /\ pubs'[n].job = pubs[n].job
  BY <1>1 DEF Replayable
<1> QED BY <1>1, FreshStays

\* The table forgets nothing, or everything.
LEMMA InTableStays ==
    ASSUME TInv, SnapsFit, [Next]_vars, ~ Commit
    PROVE  InTable' \subseteq InTable
<1>1. CASE table'.snaps = table.snaps
  BY <1>1 DEF InTable
<1>2. CASE CreateTable
  <2>1. table' = table \/ table'.snaps = <<>>
    BY <1>2 DEF CreateTable, NewTable
  <2> QED BY <1>1, <2>1 DEF InTable
<1>3. CASE Next /\ ~ CreateTable
  <2>1. table'.snaps = table.snaps
    <3>1. CASE \E q \in Requests : Serve(q)
      <4>1. PICK q \in Requests : Serve(q)
        BY <3>1
      <4>2. \/ table' = table \/ table' = Dropped
            \/ \E n \in 1 .. (CurrentSnapshot(table) + 1) : table' = Expired(table, n)
        BY <4>1 DEF Serve, Arrive, Queue, NotUploaded, PlanOptimize, PlanExpire, FindAppended, PlanRefresh,
                    PostJob, InsertPublication, DropTable
      <4>3. \A n : Expired(table, n).snaps = table.snaps
        BY TableKnows DEF Expired, Tables
      <4> QED BY <4>2, <4>3, DroppedFacts
    <3>2. CASE Publish
      <4>1. table' = table \/ table' = Dropped
        BY <1>3, <3>2 DEF Publish, Reconcile, Look, PassEnds, PostIngest, InsertIngest, CommitRefresh, Settle, Fail, Mark
      <4> QED BY <4>1, DroppedFacts
    <3>3. CASE \E i \in Imports : CreateImport(i)
      BY <3>3 DEF CreateImport
    <3>4. CASE (\E j \in Jobs : JobEnds(j)) \/ Crash
      BY <3>4 DEF JobEnds, Crash
    <3> QED BY <1>3, <3>1, <3>2, <3>3, <3>4 DEF Next
  <2> QED BY <1>1, <2>1
<1>4. CASE UNCHANGED vars
  BY <1>1, <1>4 DEF vars
<1> QED BY <1>2, <1>3, <1>4

\* Only what the publisher commits, and then settles, comes into the table.
LEMMA CommitFresh == ASSUME TInv, PInv, Fresh, Commit PROVE Fresh'
<1>1. /\ publisher.at = "commit" /\ Current.kind \in {"ingest", "optimize"} /\ pubs' = pubs /\ view' = view
      /\ table' \in {table, Committed(Current)} /\ (ToFail \/ GoOn("settle"))
  BY DEF Commit, TInv, PublisherFits
<1>2. publisher'.at \in {"settle", "fail"} /\ publisher'.todo = publisher.todo
  BY <1>1, ToFailFacts, GoOnFacts
<1>3. PICK p \in Pubs : p = Current /\ PubFits(p)
  BY <1>1, CurrentFacts
<1>4. p.job \in Jobs /\ p.kind \in {"ingest", "optimize"}
  BY <1>1, <1>3 DEF Pubs
<1>5. \A w : w \in InTable' => w \in InTable \/ w = p.job
  <2>1. CASE table' = table
    BY <2>1 DEF InTable
  <2>2. CASE table' # table
    <3>1. table' = Committed(p) /\ Committed(p) # table
      BY <1>1, <1>3, <2>2
    <3>2. PICK op, left : Adds(table, table', op, p.job, left, Written(p))
      BY <1>3, <1>4, <3>1, CommittedFacts
    <3> PICK i, n : i = Len(table.snaps) + 1 /\ n = Len(table'.snaps)
      OBVIOUS
    <3>3. /\ DOMAIN table'.snaps = DOMAIN table.snaps \cup {i, n}
          /\ table'.snaps[i].write = p.job /\ table'.snaps[n].write = p.job
          /\ \A k \in DOMAIN table.snaps : table'.snaps[k] = table.snaps[k]
      BY <3>2 DEF Adds, Snap
    <3> SUFFICES ASSUME NEW w \in InTable' PROVE w \in InTable \/ w = p.job
      OBVIOUS
    <3>4. PICK k \in DOMAIN table'.snaps : w = table'.snaps[k].write
      BY DEF InTable
    <3>5. CASE k = i \/ k = n
      BY <3>3, <3>4, <3>5
    <3>6. CASE k \in DOMAIN table.snaps
      BY <3>3, <3>4, <3>6 DEF InTable
    <3> QED BY <3>3, <3>4, <3>5, <3>6
  <2> QED BY <2>1, <2>2
<1>6. ASSUME NEW n \in DOMAIN pubs, Replayable(n)' PROVE pubs[n].job \notin InTable'
  <2>1. n # First(publisher.todo) /\ Replayable(n)
    BY <1>1, <1>2, <1>6 DEF Replayable
  <2>2. First(publisher.todo) \in DOMAIN pubs /\ pubs[First(publisher.todo)] = p
    BY <1>1, <1>3, CurrentFacts DEF Current
  <2>3. pubs[n].job # p.job
    BY <2>1, <2>2 DEF TInv, OneHand
  <2>4. pubs[n].job \notin InTable
    BY <2>1 DEF Fresh
  <2> QED BY <1>5, <2>3, <2>4
<1> QED BY <1>1, <1>6 DEF Fresh

\* Without a crash, a publication is committed once.
LEMMA NextFresh == ASSUME TInv, PInv, Fresh, "crash" \notin Faults, [Next]_vars PROVE Fresh'
<1>1. CASE Commit
  BY <1>1, CommitFresh
<1>2. CASE ~ Commit
  <2>1. InTable' \subseteq InTable
    BY <1>2, InTableStays DEF PInv
  <2>2. CASE pubs' = pubs /\ publisher' = publisher
    BY <2>1, <2>2, FreshGoesOn
  <2>3. CASE \E q \in Requests : InsertPublication(q)
    <3>1. PICK q \in Requests : InsertPublication(q)
      BY <2>3
    <3>2. PICK p : pubs' = Append(pubs, p) /\ p.job = handler[q].job
      <4> DEFINE p == [Publication(JobOf(q), IF q.op = "complete" THEN q.of ELSE q, handler[q].job, handler[q].table)
                         EXCEPT !.full = handler[q].full, !.source = handler[q].source]
      <4>1. pubs' = Append(pubs, p)
        BY <3>1 DEF InsertPublication
      <4>2. p.job = handler[q].job
        BY DEF Publication
      <4> HIDE DEF p
      <4> QED BY <4>1, <4>2
    <3>3. handler[q].at = "insert" /\ publisher' = publisher /\ table' = table
      BY <3>1 DEF InsertPublication
    <3>4. InTable' = InTable
      BY <3>3 DEF InTable
    <3>5. \A n \in DOMAIN pubs : pubs[n].job # p.job
      BY <3>2, <3>3 DEF TInv, OneHand
    <3> QED BY <3>2, <3>3, <3>4, <3>5, FreshAppended DEF PInv
  <2>4. CASE InsertIngest
    <3>1. PICK p : pubs' = Append(pubs, p) /\ p.job = publisher.job
      <4> DEFINE p == [Publication("ingest", Current.of, publisher.job, table.id) EXCEPT !.created = TRUE]
      <4>1. pubs' = Append(pubs, p)
        BY <2>4 DEF InsertIngest
      <4>2. p.job = publisher.job
        BY DEF Publication
      <4> HIDE DEF p
      <4> QED BY <4>1, <4>2
    <3>2. publisher.at = "insert" /\ table' = table
      BY <2>4 DEF InsertIngest
    <3>3. InTable' = InTable
      BY <3>2 DEF InTable
    <3>4. \A n \in DOMAIN pubs : pubs[n].job # p.job
      BY <3>1, <3>2 DEF TInv, OneHand
    <3> QED BY <3>1, <3>2, <3>3, <3>4, FreshAppended DEF PInv
  <2>5. CASE Mark
    <3>1. ASSUME NEW n \in DOMAIN pubs', Replayable(n)'
          PROVE  n \in DOMAIN pubs /\ Replayable(n) /\ pubs'[n].job = pubs[n].job
      <4>1. pubs'[n].state = "pending" /\ n \in DOMAIN pubs
        BY <2>5, <3>1, MarkFacts DEF Replayable
      <4>2. n # First(publisher.todo)
        BY <2>5, <4>1, MarkFacts
      <4> QED BY <2>5, <4>1, <4>2, MarkFacts DEF Replayable
    <3> QED BY <2>1, <3>1, FreshStays
  <2>6. CASE Settle \/ Fail
    <3>1. publisher.at \in {"settle", "fail"} /\ pubs' = pubs /\ (ToFail \/ GoOn("mark"))
      BY <2>6 DEF Settle, Fail
    <3>2. publisher'.at \in {"fail", "mark"} /\ publisher'.todo = publisher.todo
      BY <3>1, ToFailFacts, GoOnFacts
    <3> QED BY <2>1, <3>1, <3>2, FreshGoesOn
  <2>7. CASE Reconcile \/ Look \/ PassEnds \/ CreateTable \/ PostIngest \/ CommitRefresh
    <3>1. publisher.at \notin {"settle", "fail", "mark"} /\ pubs' = pubs
      BY <2>7 DEF Reconcile, Look, PassEnds, CreateTable, PostIngest, CommitRefresh
    <3> QED BY <2>1, <3>1, FreshGoesOn
  <2>8. CASE UNCHANGED vars
    BY <2>2, <2>8 DEF vars
  <2>9. CASE \E q \in Requests : Serve(q) /\ ~ InsertPublication(q)
    <3>1. PICK q \in Requests : Serve(q) /\ ~ InsertPublication(q)
      BY <2>9
    <3>2. pubs' = pubs /\ publisher' = publisher
      BY <3>1 DEF Serve, Arrive, Queue, NotUploaded, PlanOptimize, PlanExpire, FindAppended, PlanRefresh,
                  PostJob, DropTable
    <3> QED BY <2>2, <3>2
  <2>10. CASE (\E i \in Imports : CreateImport(i)) \/ (\E j \in Jobs : JobEnds(j))
    BY <2>2, <2>10 DEF CreateImport, JobEnds
  <2>11. ~ Crash
    BY DEF Crash, Fault
  <2>12. CASE Next
    <3>1. CASE Publish
      BY <1>2, <2>4, <2>5, <2>6, <2>7, <3>1 DEF Publish
    <3>2. CASE \E q \in Requests : Serve(q)
      BY <2>3, <2>9, <3>2
    <3> QED BY <2>10, <2>11, <2>12, <3>1, <3>2 DEF Next
  <2> QED BY <2>8, <2>12
<1> QED BY <1>1, <1>2

\* In a process that does not crash, a write is in the table exactly once and no file
\* of it is removed, whatever is expired while requests and publisher take their turns
\* and although compute and the commits may fail.
THEOREM ContentsWithoutCrash ==
    ASSUME "crash" \notin Faults PROVE Spec => [](RowsOnce /\ NoDanglingFile)
<1>1. Init => PInv /\ Fresh
  BY InitPInv DEF Init, Fresh
<1>2. Fresh => Remembers
  BY DEF Fresh, Remembers, InTable
<1>3. TInv /\ TInv' /\ PInv /\ Fresh /\ [Next]_vars => PInv' /\ Fresh'
  BY <1>2, NextPInv, NextFresh
<1>4. PInv => RowsOnce /\ NoDanglingFile
  BY PInvNoDangling DEF PInv
<1> QED BY <1>1, <1>3, <1>4, PublicationsAreConsistent, PTL DEF Spec

-----------------------------------------------------------------------------
(* Third part: what has become of an import.                               *)

\* Nobody completes one import twice.
CompletedOnce ==
    \A q, r \in Requests : q.op = "complete" /\ r.op = "complete" /\ q.of = r.of => q = r

IsImport(n) == pubs[n].kind \in {"infer", "ingest"}

\* The request of an import with a publication is over.
Asked ==
    \A q \in Requests, n \in DOMAIN pubs :
      q.op = "complete" /\ IsImport(n) /\ pubs[n].of = q.of => handler[q].at = "over"

\* An import creates its table before it ingests: what it does first is settled first.
Follows(n, m) ==
    /\ n < m /\ status[pubs[n].job] # "pending"
    /\ pubs[n].state = "pending" /\ m \in publisher.todo => n \in publisher.todo

InOrder ==
    /\ \A n \in DOMAIN pubs : pubs[n].created => pubs[n].kind = "ingest"
    /\ \A n, m \in DOMAIN pubs :
         pubs[n].kind = "infer" /\ pubs[m].kind = "infer" /\ pubs[n].of = pubs[m].of => n = m
    /\ \A n, m \in DOMAIN pubs :
         pubs[n].kind = "infer" /\ pubs[m].created /\ pubs[n].of = pubs[m].of => Follows(n, m)
    /\ publisher.at \in {"create", "post", "insert"} => status[Current.job] # "pending"

\* The import of publication n has failed for good: nothing of it is left to do.
FailedForGood(n) ==
    /\ pubs[n].created /\ import[pubs[n].of] = "failed"
    /\ \A m \in DOMAIN pubs : IsImport(m) /\ pubs[m].of = pubs[n].of =>
         /\ pubs[m].kind = "infer" => pubs[m].state # "pending"
         /\ pubs[m].kind = "ingest" => ~ IsThere(pubs[m].table)

\* What may have become of a table that is gone.
Lost(id) ==
    \/ \E q \in Requests : q.op = "drop" /\ handler[q].at = "over" /\ handler[q].table = id
    \/ \E n \in DOMAIN pubs : pubs[n].table = id /\ FailedForGood(n)

\* A committed publication is in its table as long as that is there.
StillThere(n) == IsThere(pubs[n].table) => pubs[n].job \in InTable

Accounted ==
    /\ \A id \in 1 .. table.id : ~ IsThere(id) => Lost(id)
    /\ publisher.at = "settle" /\ Current.kind = "ingest" => StillThere(First(publisher.todo))
    /\ \A i \in Imports : import[i] = "succeeded" =>
         \E n \in DOMAIN pubs : pubs[n].kind = "ingest" /\ pubs[n].of = i /\ StillThere(n)

SInv == Asked /\ InOrder /\ Accounted

\* Publications are stored by two actions and settled by one.
LEMMA PubsMove ==
    ASSUME [Next]_vars
    PROVE  pubs' = pubs \/ Mark \/ InsertIngest \/ \E q \in Requests : InsertPublication(q)
<1>1. CASE \E q \in Requests : Serve(q)
  BY <1>1, ServeKeeps
<1>2. CASE Publish
  BY <1>2 DEF Publish, Reconcile, Look, PassEnds, CreateTable, PostIngest, Commit, CommitRefresh, Settle, Fail
<1>3. CASE (\E i \in Imports : CreateImport(i)) \/ (\E j \in Jobs : JobEnds(j)) \/ Crash
  BY <1>3 DEF CreateImport, JobEnds, Crash
<1>4. CASE UNCHANGED vars
  BY <1>4 DEF vars
<1> QED BY <1>1, <1>2, <1>3, <1>4 DEF Next

\* A publication that is stored stays what it is.
SamePub(n) ==
    /\ n \in DOMAIN pubs' /\ pubs'[n].job = pubs[n].job /\ pubs'[n].kind = pubs[n].kind
    /\ pubs'[n].of = pubs[n].of /\ pubs'[n].table = pubs[n].table /\ pubs'[n].created = pubs[n].created
    /\ pubs'[n].full = pubs[n].full /\ pubs'[n].source = pubs[n].source
    /\ pubs'[n].state = "pending" => pubs[n].state = "pending"

\* What the two actions store.
Asks(n, q) ==
    /\ InsertPublication(q) /\ q.op # "drop" /\ pubs'[n].kind = JobOf(q) /\ pubs'[n].created = FALSE
    /\ pubs'[n].of = IF q.op = "complete" THEN q.of ELSE q
    /\ pubs'[n].job = handler[q].job /\ pubs'[n].full = handler[q].full /\ pubs'[n].source = handler[q].source
Follow(n) ==
    InsertIngest /\ pubs'[n].kind = "ingest" /\ pubs'[n].created = TRUE /\ pubs'[n].of = Current.of
Stored(n) ==
    /\ n \notin DOMAIN pubs /\ n \in DOMAIN pubs' /\ \A m \in DOMAIN pubs : m < n
    /\ (\E q \in Requests : Asks(n, q)) \/ Follow(n)

\* A publication is an old one or one of these.
LEMMA PubsAre ==
    ASSUME TInv, [Next]_vars
    PROVE  /\ \A n \in DOMAIN pubs : SamePub(n)
           /\ \A n \in DOMAIN pubs' : n \in DOMAIN pubs \/ Stored(n)
           /\ \A n, m : Stored(n) /\ Stored(m) => n = m
<1>1. CASE pubs' = pubs
  BY <1>1 DEF SamePub, Stored
<1>2. CASE Mark
  <2>1. \A n \in DOMAIN pubs : SamePub(n)
    BY <1>2, MarkFacts DEF SamePub
  <2>2. DOMAIN pubs' = DOMAIN pubs
    BY <1>2, MarkFacts
  <2> QED BY <2>1, <2>2 DEF Stored
<1>3. ASSUME NEW p, pubs' = Append(pubs, p)
      PROVE  /\ \A n \in DOMAIN pubs : SamePub(n) /\ n < Len(pubs) + 1
             /\ pubs'[Len(pubs) + 1] = p /\ Len(pubs) + 1 \notin DOMAIN pubs
             /\ \A n : n \in DOMAIN pubs' <=> n \in DOMAIN pubs \/ n = Len(pubs) + 1
  <2>1. pubs \in Seq(Pubs) /\ Len(pubs) \in Nat /\ DOMAIN pubs = 1 .. Len(pubs)
    BY DEF TInv, Shape
  <2>2. pubs'[Len(pubs) + 1] = p /\ \A n \in DOMAIN pubs : pubs'[n] = pubs[n]
    BY <1>3, <2>1
  <2>3. \A n : n \in DOMAIN pubs' <=> n \in DOMAIN pubs \/ n = Len(pubs) + 1
    BY <1>3, <2>1
  <2> QED BY <2>1, <2>2, <2>3 DEF SamePub
<1>4. CASE InsertIngest
  <2>1. PICK p : pubs' = Append(pubs, p) /\ p.kind = "ingest" /\ p.created = TRUE /\ p.of = Current.of
    <3> DEFINE p == [Publication("ingest", Current.of, publisher.job, table.id) EXCEPT !.created = TRUE]
    <3>1. pubs' = Append(pubs, p)
      BY <1>4 DEF InsertIngest
    <3>2. p.kind = "ingest" /\ p.created = TRUE /\ p.of = Current.of
      BY DEF Publication
    <3> HIDE DEF p
    <3> QED BY <3>1, <3>2
  <2>2. PICK k : k = Len(pubs) + 1
    OBVIOUS
  <2>3. Stored(k)
    BY <1>3, <1>4, <2>1, <2>2 DEF Stored, Follow
  <2> QED BY <1>3, <2>1, <2>2, <2>3 DEF Stored
<1>5. CASE \E q \in Requests : InsertPublication(q)
  <2>0. PICK q \in Requests : InsertPublication(q)
    BY <1>5
  <2>1. PICK p : /\ pubs' = Append(pubs, p) /\ p.kind = JobOf(q) /\ p.created = FALSE
                 /\ p.of = IF q.op = "complete" THEN q.of ELSE q
                 /\ p.job = handler[q].job /\ p.full = handler[q].full /\ p.source = handler[q].source
    <3> DEFINE p == [Publication(JobOf(q), IF q.op = "complete" THEN q.of ELSE q, handler[q].job, handler[q].table)
                       EXCEPT !.full = handler[q].full, !.source = handler[q].source]
    <3>1. pubs' = Append(pubs, p)
      BY <2>0 DEF InsertPublication
    <3>2. /\ p.kind = JobOf(q) /\ p.created = FALSE /\ p.of = IF q.op = "complete" THEN q.of ELSE q
          /\ p.job = handler[q].job /\ p.full = handler[q].full /\ p.source = handler[q].source
      BY DEF Publication
    <3> HIDE DEF p
    <3> QED BY <3>1, <3>2
  <2>2. PICK k : k = Len(pubs) + 1
    OBVIOUS
  <2>3. q.op # "drop"
    BY <2>0, HandlerKnows DEF InsertPublication, HandlerFits
  <2>4. Stored(k)
    BY <1>3, <2>0, <2>1, <2>2, <2>3 DEF Stored, Asks
  <2> QED BY <1>3, <2>1, <2>2, <2>4 DEF Stored
<1> QED BY <1>1, <1>2, <1>4, <1>5, PubsMove

\* A request that is over stays over.
LEMMA OverStays ==
    ASSUME TInv, [Next]_vars, NEW q \in Requests, handler[q].at = "over"
    PROVE  handler'[q].at = "over" /\ handler'[q].table = handler[q].table
<1>1. handler[q] \in Handlers /\ handler \in [Requests -> Handlers]
  BY HandlerKnows
<1>2. CASE handler' = handler
  BY <1>2
<1>3. CASE \E r \in Requests : Serve(r)
  <2>1. PICK r \in Requests : Serve(r)
    BY <1>3
  <2>2. handler[r].at # "over"
    BY <2>1 DEF Serve, Arrive, Queue, NotUploaded, PlanOptimize, PlanExpire, FindAppended, PlanRefresh,
                PostJob, InsertPublication, DropTable
  <2>3. r # q
    BY <2>2
  <2>4. handler'[q] = handler[q]
    <3>1. CASE Arrive(r)
      BY <1>1, <2>3, <3>1 DEF Arrive, At
    <3>2. CASE Queue(r) \/ NotUploaded(r)
      BY <1>1, <2>3, <3>2 DEF Queue, NotUploaded, EndRequest, At
    <3>3. CASE PlanOptimize(r)
      BY <1>1, <2>3, <3>3 DEF PlanOptimize, EndRequest, At
    <3>4. CASE PlanExpire(r)
      BY <1>1, <2>3, <3>4 DEF PlanExpire, EndRequest, At
    <3>5. CASE FindAppended(r)
      BY <1>1, <2>3, <3>5 DEF FindAppended, EndRequest, At
    <3>6. CASE PlanRefresh(r)
      BY <1>1, <2>3, <3>6 DEF PlanRefresh, EndRequest, At
    <3>7. CASE PostJob(r)
      BY <1>1, <2>3, <3>7 DEF PostJob, EndRequest, At
    <3>8. CASE InsertPublication(r) \/ DropTable(r)
      BY <1>1, <2>3, <3>8 DEF InsertPublication, DropTable, EndRequest, At
    <3> QED BY <2>1, <3>1, <3>2, <3>3, <3>4, <3>5, <3>6, <3>7, <3>8 DEF Serve
  <2> QED BY <2>4
<1>4. CASE Publish
  BY <1>2, <1>4 DEF Publish, Reconcile, Look, PassEnds, CreateTable, PostIngest, InsertIngest, Commit, CommitRefresh,
                    Settle, Fail, Mark
<1>5. CASE (\E i \in Imports : CreateImport(i)) \/ (\E j \in Jobs : JobEnds(j))
  BY <1>2, <1>5 DEF CreateImport, JobEnds
<1>6. CASE Crash
  BY <1>1, <1>6, CrashFacts DEF Crash, Handlers
<1>7. CASE UNCHANGED vars
  BY <1>7 DEF vars
<1> QED BY <1>3, <1>4, <1>5, <1>6, <1>7 DEF Next

\* A job that has ended stays so.
LEMMA EndedStays ==
    ASSUME TInv, [Next]_vars, NEW j \in Accepted, status[j] # "pending"
    PROVE  status'[j] # "pending"
<1>1. CASE status' = status
  BY <1>1
<1>2. status \in [Jobs -> {"absent", "pending"} \cup Contract!Outcomes]
  BY DEF TInv, Shape
<1>3. CASE \E k \in Jobs : JobEnds(k)
  <2>1. PICK k \in Jobs, o \in Ends : status' = [status EXCEPT ![k] = o]
    BY <1>3 DEF JobEnds, Contract!End
  <2>2. o # "pending"
    BY PublicationsAssumption
  <2> QED BY <1>2, <2>1, <2>2 DEF Accepted
<1>4. ASSUME NEW op, NEW files, Post(op, files) PROVE status'[j] # "pending"
  <2>1. status' = [status EXCEPT ![NextJob] = "pending"]
    BY <1>4 DEF Post, Contract!Accept
  <2>2. NextJob # j
    BY <1>4, NextJobFacts DEF Post
  <2> QED BY <1>2, <2>1, <2>2 DEF Accepted
<1>5. CASE \E q \in Requests : Serve(q)
  <2>1. PICK q \in Requests : Serve(q)
    BY <1>5
  <2>2. CASE PostJob(q)
    BY <1>1, <1>4, <2>2 DEF PostJob, compute
  <2>3. CASE ~ PostJob(q)
    BY <1>1, <2>1, <2>3 DEF Serve, Arrive, Queue, NotUploaded, PlanOptimize, PlanExpire, FindAppended, PlanRefresh,
                            InsertPublication, DropTable, compute
  <2> QED BY <2>2, <2>3
<1>6. CASE Publish
  <2>1. CASE PostIngest
    BY <1>1, <1>4, <2>1 DEF PostIngest, compute
  <2>2. CASE ~ PostIngest
    BY <1>1, <1>6, <2>2 DEF Publish, Reconcile, Look, PassEnds, CreateTable, InsertIngest, Commit, CommitRefresh,
                            Settle, Fail, Mark, compute
  <2> QED BY <2>1, <2>2
<1>7. CASE (\E i \in Imports : CreateImport(i)) \/ Crash
  BY <1>1, <1>7 DEF CreateImport, Crash, compute
<1>8. CASE UNCHANGED vars
  BY <1>1, <1>8 DEF vars
<1> QED BY <1>3, <1>5, <1>6, <1>7, <1>8 DEF Next

\* The request of an import with a publication stays over.
LEMMA NextAsked == ASSUME TInv, CompletedOnce, Asked, [Next]_vars PROVE Asked'
<1> SUFFICES ASSUME NEW q \in Requests, NEW n \in DOMAIN pubs', q.op = "complete",
                    pubs'[n].kind \in {"infer", "ingest"}, pubs'[n].of = q.of
             PROVE  handler'[q].at = "over"
  BY DEF Asked, IsImport
<1>1. CASE n \in DOMAIN pubs
  <2>1. SamePub(n)
    BY <1>1, PubsAre
  <2>2. handler[q].at = "over"
    BY <1>1, <2>1 DEF Asked, IsImport, SamePub
  <2> QED BY <2>2, OverStays
<1>2. CASE n \notin DOMAIN pubs
  <2>1. Stored(n)
    BY <1>2, PubsAre
  <2>2. CASE \E r \in Requests : Asks(n, r)
    <3>1. PICK r \in Requests : Asks(n, r)
      BY <2>2
    <3>2. r.op = "complete"
      BY <3>1, JobOfFacts DEF Asks, TInv
    <3>3. r = q
      BY <3>1, <3>2 DEF Asks, CompletedOnce
    <3>4. EndRequest(q)
      BY <3>1, <3>3 DEF Asks, InsertPublication
    <3> QED BY <3>4, HandlerKnows DEF EndRequest, At, Handlers
  <2>3. CASE Follow(n)
    <3>1. publisher.at = "insert"
      BY <2>3 DEF Follow, InsertIngest
    <3>2. Current.kind = "infer" /\ First(publisher.todo) \in DOMAIN pubs
      BY <3>1, CurrentFacts DEF TInv, PublisherFits
    <3>3. handler[q].at = "over"
      BY <2>3, <3>2 DEF Follow, Current, Asked, IsImport
    <3> QED BY <3>3, OverStays
  <2> QED BY <2>1, <2>2, <2>3 DEF Stored
<1> QED BY <1>1, <1>2

\* What is stored next to the publications of an import is its second.
LEMMA StoredFollows ==
    ASSUME TInv, Asked, NEW n, Stored(n), NEW m \in DOMAIN pubs, IsImport(m), pubs[m].of = pubs'[n].of,
           pubs'[n].kind \in {"infer", "ingest"}
    PROVE  Follow(n)
<1> SUFFICES ASSUME NEW r \in Requests, Asks(n, r) PROVE FALSE
  BY DEF Stored
<1>1. r.op = "complete" /\ handler[r].at = "insert"
  BY JobOfFacts DEF Asks, TInv, InsertPublication
<1>2. handler[r].at = "over"
  BY <1>1 DEF Asks, Asked
<1> QED BY <1>1, <1>2

\* What the publisher has before it.
LEMMA TodoMoves ==
    ASSUME TInv, [Next]_vars
    PROVE  \/ publisher'.todo = publisher.todo
           \/ publisher'.todo = {}
           \/ Reconcile /\ publisher'.todo = Oldest(Pending)
           \/ Look /\ status[Current.job] = "pending" /\ publisher'.todo = publisher.todo \ {First(publisher.todo)}
           \/ Mark /\ publisher'.todo = publisher.todo \ {First(publisher.todo)}
<1>1. publisher \in Publishers
  BY DEF TInv, Shape
<1>2. CASE publisher' = publisher \/ publisher' = Resting
  BY <1>2 DEF Resting
<1>3. CASE Publish
  <2>1. CASE Reconcile
    BY <2>1 DEF Reconcile, Resting
  <2>2. CASE Look
    BY <1>1, <2>2 DEF Look, Publishers
  <2>3. CASE Mark
    BY <2>3, MarkFacts
  <2>4. CASE PassEnds
    BY <1>2, <2>4 DEF PassEnds
  <2>5. CASE PostIngest
    BY <1>1, <2>5 DEF PostIngest, ToFail, Publishers
  <2>6. CASE CreateTable \/ InsertIngest \/ Commit \/ CommitRefresh \/ Settle \/ Fail
    BY <1>1, <2>6 DEF CreateTable, InsertIngest, Commit, CommitRefresh, Settle, Fail, GoOn, ToFail, Publishers
  <2> QED BY <1>3, <2>1, <2>2, <2>3, <2>4, <2>5, <2>6 DEF Publish
<1>4. CASE \E q \in Requests : Serve(q)
  BY <1>2, <1>4, ServeKeeps
<1>5. CASE (\E i \in Imports : CreateImport(i)) \/ (\E j \in Jobs : JobEnds(j)) \/ Crash
  BY <1>2, <1>5 DEF CreateImport, JobEnds, Crash
<1>6. CASE UNCHANGED vars
  BY <1>2, <1>6 DEF vars
<1> QED BY <1>3, <1>4, <1>5, <1>6 DEF Next

\* A pass takes those before the ones it takes.
LEMMA OldestFirst ==
    ASSUME TInv, NEW n \in Pending, NEW m \in Oldest(Pending), n < m
    PROVE  n \in Oldest(Pending)
<1> DEFINE Until(k) == {l \in Pending : l <= k}
<1>1. pubs \in Seq(Pubs) /\ PassSize \in Nat
  BY ConstantFacts DEF TInv, Shape
<1>2. DOMAIN pubs = 1 .. Len(pubs) /\ Len(pubs) \in Nat
  BY <1>1
<1>3. n \in Nat /\ m \in Nat /\ m \in Pending /\ \A l \in Pending : l \in 1 .. Len(pubs)
  BY <1>2 DEF Oldest, Pending
<1>4. IsFiniteSet(Until(m)) /\ Until(n) \subseteq Until(m)
  <2>1. IsFiniteSet(1 .. Len(pubs))
    BY <1>2, FS_Interval
  <2>2. Until(m) \subseteq 1 .. Len(pubs)
    BY <1>3
  <2>3. Until(n) \subseteq Until(m)
    <3> SUFFICES ASSUME NEW l \in Pending, l <= n PROVE l <= m
      OBVIOUS
    <3>1. l \in Nat
      BY <1>2, <1>3
    <3> QED BY <1>3, <3>1
  <2> HIDE DEF Until
  <2> QED BY <2>1, <2>2, <2>3, FS_Subset
<1>5. Cardinality(Until(m)) <= PassSize
  BY DEF Oldest
<1> HIDE DEF Until
<1>6. Cardinality(Until(n)) <= PassSize
  <2>1. Cardinality(Until(n)) <= Cardinality(Until(m)) /\ Cardinality(Until(n)) \in Nat /\ Cardinality(Until(m)) \in Nat
    BY <1>4, FS_Subset, FS_CardinalityType
  <2> QED BY <1>1, <1>5, <2>1
<1> QED BY <1>6 DEF Oldest, Until

\* A pass has the publications of an import in their order.
LEMMA TodoStays ==
    ASSUME TInv, [Next]_vars, NEW n \in DOMAIN pubs, NEW m, n < m,
           status[pubs[n].job] # "pending", m \in publisher.todo => n \in publisher.todo,
           pubs'[n].state = "pending", pubs[n].state = "pending", m \in publisher'.todo
    PROVE  n \in publisher'.todo
<1>1. CASE publisher'.todo = publisher.todo \/ publisher'.todo = {}
  BY <1>1
<1>2. CASE Reconcile /\ publisher'.todo = Oldest(Pending)
  <2>1. n \in Pending /\ m \in Oldest(Pending)
    BY <1>2 DEF Pending
  <2> QED BY <1>2, <2>1, OldestFirst
<1>3. CASE Look /\ status[Current.job] = "pending" /\ publisher'.todo = publisher.todo \ {First(publisher.todo)}
  <2>1. n # First(publisher.todo)
    BY <1>3 DEF Current
  <2> QED BY <1>3, <2>1
<1>4. CASE Mark /\ publisher'.todo = publisher.todo \ {First(publisher.todo)}
  <2>1. n # First(publisher.todo)
    BY <1>4, MarkFacts
  <2> QED BY <1>4, <2>1
<1> QED BY <1>1, <1>2, <1>3, <1>4, TodoMoves

\* The job of an import whose table is being made has ended.
LEMMA MakerEnded ==
    ASSUME TInv, InOrder, [Next]_vars, publisher'.at \in {"create", "post", "insert"}
    PROVE  (status[Current.job] # "pending")'
<1>1. publisher \in Publishers
  BY DEF TInv, Shape
<1>2. ASSUME publisher.todo # {}, publisher'.todo = publisher.todo, status[Current.job] # "pending"
      PROVE  (status[Current.job] # "pending")'
  <2>1. PICK n : n = First(publisher.todo)
    OBVIOUS
  <2>2. n \in DOMAIN pubs /\ pubs[n] = Current /\ PubFits(Current)
    BY <1>2, <2>1, CurrentFacts DEF Current
  <2>3. pubs'[n].job = pubs[n].job
    BY <2>2, PubsAre DEF SamePub
  <2>4. PICK j : j = pubs[n].job
    OBVIOUS
  <2>5. j \in Accepted /\ status[j] # "pending"
    BY <1>2, <2>2, <2>4 DEF PubFits
  <2>6. status'[j] # "pending"
    BY <2>5, EndedStays
  <2> QED BY <1>2, <2>1, <2>3, <2>4, <2>6 DEF Current
<1>3. publisher.at \in {"create", "post", "insert"} => status[Current.job] # "pending" /\ publisher.todo # {}
  BY DEF InOrder, TInv, PublisherFits
<1>4. CASE publisher' = publisher
  BY <1>2, <1>3, <1>4
<1>5. CASE Publish
  <2>1. CASE Look
    <3>1. publisher.todo # {} /\ publisher'.at = "create"
      BY <1>1, <2>1 DEF Look, Publishers
    <3>2. status[Current.job] = "succeeded" /\ publisher'.todo = publisher.todo
      BY <1>1, <2>1, <3>1 DEF Look, Publishers
    <3> QED BY <1>2, <3>1, <3>2
  <2>2. CASE CreateTable \/ PostIngest
    <3>1. publisher.at \in {"create", "post"}
      BY <2>2 DEF CreateTable, PostIngest
    <3>2. publisher'.todo = publisher.todo
      BY <1>1, <2>2 DEF CreateTable, PostIngest, GoOn, ToFail, Publishers
    <3> QED BY <1>2, <1>3, <3>1, <3>2
  <2>4. CASE Reconcile \/ PassEnds
    <3>1. publisher'.at \in {"next", "idle"}
      <4>1. CASE Reconcile
        <5>1. publisher' = [Resting EXCEPT !.at = "next", !.todo = Oldest(Pending)]
          BY <4>1 DEF Reconcile
        <5> QED BY <5>1 DEF Resting
      <4>2. CASE PassEnds
        BY <4>2 DEF PassEnds, Resting
      <4> QED BY <2>4, <4>1, <4>2
    <3> QED BY <3>1
  <2>5. CASE InsertIngest \/ Commit \/ CommitRefresh \/ Settle \/ Fail
    BY <1>1, <2>5 DEF InsertIngest, Commit, CommitRefresh, Settle, Fail, GoOn, ToFail, Publishers
  <2>6. CASE Mark
    BY <2>6, MarkFacts
  <2> QED BY <1>5, <2>1, <2>2, <2>4, <2>5, <2>6 DEF Publish
<1>6. CASE \E q \in Requests : Serve(q)
  BY <1>4, <1>6, ServeKeeps
<1>7. CASE (\E i \in Imports : CreateImport(i)) \/ (\E j \in Jobs : JobEnds(j))
  BY <1>4, <1>7 DEF CreateImport, JobEnds
<1>8. CASE Crash
  BY <1>8 DEF Crash, Resting
<1>9. CASE UNCHANGED vars
  BY <1>4, <1>9 DEF vars
<1> QED BY <1>5, <1>6, <1>7, <1>8, <1>9 DEF Next

\* The publications of an import stay in order.
LEMMA NextInOrder == ASSUME TInv, Asked, InOrder, [Next]_vars PROVE InOrder'
<1>1. /\ \A n \in DOMAIN pubs : SamePub(n)
      /\ \A n \in DOMAIN pubs' : n \in DOMAIN pubs \/ Stored(n)
      /\ \A n, m : Stored(n) /\ Stored(m) => n = m
  BY PubsAre
<1>2. \A n \in DOMAIN pubs' : pubs'[n].created => pubs'[n].kind = "ingest"
  BY <1>1 DEF SamePub, Stored, Asks, Follow, InOrder
<1>3. ASSUME NEW n, NEW m \in DOMAIN pubs, Stored(n), pubs'[n].kind = "infer", IsImport(m), pubs[m].of = pubs'[n].of
      PROVE  FALSE
  <2>1. Follow(n)
    BY <1>3, StoredFollows
  <2> QED BY <1>3, <2>1 DEF Follow
<1>4. ASSUME NEW n \in DOMAIN pubs', NEW m \in DOMAIN pubs', pubs'[n].kind = "infer", pubs'[m].kind = "infer",
             pubs'[n].of = pubs'[m].of
      PROVE  n = m
  <2>1. CASE n \in DOMAIN pubs /\ m \in DOMAIN pubs
    BY <1>1, <1>4, <2>1 DEF SamePub, InOrder
  <2>2. CASE Stored(n) /\ m \in DOMAIN pubs
    BY <1>1, <1>3, <1>4, <2>2 DEF SamePub, IsImport
  <2>3. CASE Stored(m) /\ n \in DOMAIN pubs
    BY <1>1, <1>3, <1>4, <2>3 DEF SamePub, IsImport
  <2> QED BY <1>1, <2>1, <2>2, <2>3
<1>5. ASSUME NEW n \in DOMAIN pubs', NEW m \in DOMAIN pubs', pubs'[n].kind = "infer", pubs'[m].created,
             pubs'[n].of = pubs'[m].of
      PROVE  /\ n < m /\ status'[pubs'[n].job] # "pending"
             /\ pubs'[n].state = "pending" /\ m \in publisher'.todo => n \in publisher'.todo
  <2>1. n \in DOMAIN pubs
    <3> SUFFICES ASSUME Stored(n) PROVE FALSE
      BY <1>1
    <3>1. pubs'[n].created = FALSE
      BY <1>5 DEF Stored, Asks, Follow
    <3>2. m \in DOMAIN pubs
      BY <1>1, <1>5, <3>1
    <3>3. IsImport(m) /\ pubs[m].of = pubs'[n].of
      BY <1>1, <1>5, <3>2 DEF SamePub, IsImport, InOrder
    <3> QED BY <1>3, <1>5, <3>2, <3>3
  <2>2. /\ pubs'[n].job = pubs[n].job /\ pubs[n].job \in Accepted /\ pubs[n].kind = "infer" /\ pubs[n].of = pubs'[m].of
        /\ pubs'[n].state = "pending" => pubs[n].state = "pending"
    BY <1>1, <1>5, <2>1 DEF SamePub, TInv, PubsFit, PubFits
  <2>3. CASE m \in DOMAIN pubs
    <3>1. Follows(n, m)
      BY <1>1, <1>5, <2>1, <2>2, <2>3 DEF SamePub, InOrder
    <3>2. status'[pubs[n].job] # "pending"
      BY <2>2, <3>1, EndedStays DEF Follows
    <3> QED BY <2>1, <2>2, <3>1, <3>2, TodoStays DEF Follows
  <2>4. CASE Stored(m)
    <3>1. InsertIngest /\ pubs'[m].of = Current.of
      BY <1>5, <2>4 DEF Stored, Asks, Follow
    <3>2. publisher.at = "insert" /\ publisher'.todo = publisher.todo
      BY <3>1, CurrentFacts DEF InsertIngest, GoOn, Publishers
    <3>3. /\ First(publisher.todo) \in DOMAIN pubs /\ Current = pubs[First(publisher.todo)] /\ Current.kind = "infer"
      BY <3>2, CurrentFacts DEF Current, TInv, PublisherFits
    <3>4. n = First(publisher.todo)
      BY <2>1, <2>2, <3>1, <3>3 DEF InOrder
    <3>5. status[pubs[n].job] # "pending"
      BY <3>2, <3>3, <3>4 DEF InOrder
    <3>6. m \notin publisher'.todo
      BY <2>4, <3>2 DEF Stored, TInv, PublisherFits
    <3>7. n < m
      BY <2>1, <2>4 DEF Stored
    <3> QED BY <2>2, <3>5, <3>6, <3>7, EndedStays
  <2> QED BY <1>1, <2>3, <2>4
<1>6. publisher'.at \in {"create", "post", "insert"} => (status[Current.job] # "pending")'
  BY MakerEnded
<1> QED BY <1>2, <1>4, <1>5, <1>6 DEF InOrder, Follows

\* A table stays with what was committed to it, is taken away by its owner or its
\* import, or makes room for the next.
LEMMA TableMoves ==
    ASSUME TInv, [Next]_vars
    PROVE  \/ table'.id = table.id /\ table'.live = table.live /\ InTable \subseteq InTable'
           \/ /\ table'.id = table.id /\ table'.live = FALSE
              /\ (\E q \in Requests : DropTable(q)) \/ (Fail /\ Current.created /\ IsThere(Current.table))
           \/ table.live = FALSE /\ table'.id = table.id + 1 /\ table'.live = TRUE
<1>1. CASE table' = table
  BY <1>1 DEF InTable
<1>2. CASE \E q \in Requests : Serve(q)
  <2>1. PICK q \in Requests : Serve(q)
    BY <1>2
  <2>2. CASE DropTable(q)
    BY <2>2, DroppedFacts DEF DropTable
  <2>3. CASE PlanExpire(q)
    <3>1. \A n : /\ Expired(table, n).snaps = table.snaps /\ Expired(table, n).id = table.id
                 /\ Expired(table, n).live = table.live
      BY TableKnows DEF Expired, Tables
    <3>2. table' = table \/ \E n : table' = Expired(table, n)
      BY <2>3 DEF PlanExpire
    <3> QED BY <1>1, <3>1, <3>2 DEF InTable
  <2>4. CASE ~ DropTable(q) /\ ~ PlanExpire(q)
    BY <1>1, <2>1, <2>4 DEF Serve, Arrive, Queue, NotUploaded, PlanOptimize, FindAppended, PlanRefresh,
                            PostJob, InsertPublication
  <2> QED BY <2>2, <2>3, <2>4
<1>3. CASE Publish
  <2>1. CASE CreateTable
    <3>1. table' = table \/ (~ table.live /\ table' = NewTable)
      BY <2>1 DEF CreateTable
    <3>2. NewTable.id = table.id + 1 /\ NewTable.live = TRUE /\ table.live \in BOOLEAN
      BY TableKnows DEF NewTable, Tables
    <3> QED BY <1>1, <3>1, <3>2
  <2>2. CASE Commit
    <3>1. /\ publisher.at = "commit" /\ Current.kind \in {"ingest", "optimize"} /\ view' = view
          /\ table' \in {table, Committed(Current)}
      BY <2>2 DEF Commit, TInv, PublisherFits
    <3>2. PICK p \in Pubs : p = Current /\ PubFits(p)
      BY <3>1, CurrentFacts
    <3>3. p.job \in Jobs /\ p.kind \in {"ingest", "optimize"}
      BY <3>1, <3>2 DEF Pubs
    <3>4. CASE table' # table
      <4>1. table' = Committed(p) /\ Committed(p) # table
        BY <3>1, <3>2, <3>4
      <4>2. PICK op, left : /\ table'.id = table.id /\ table'.live = table.live
                            /\ Adds(table, table', op, p.job, left, Written(p))
        BY <3>2, <3>3, <4>1, CommittedFacts
      <4>3. /\ DOMAIN table.snaps \subseteq DOMAIN table'.snaps
            /\ \A k \in DOMAIN table.snaps : table'.snaps[k] = table.snaps[k]
        BY <4>2 DEF Adds
      <4> QED BY <4>2, <4>3 DEF InTable
    <3> QED BY <1>1, <3>4
  <2>3. CASE Fail
    <3>1. table' = table \/ (table' = Dropped /\ Current.created /\ IsThere(Current.table))
      BY <2>3 DEF Fail
    <3> QED BY <1>1, <2>3, <3>1, DroppedFacts
  <2>4. CASE ~ CreateTable /\ ~ Commit /\ ~ Fail
    BY <1>1, <1>3, <2>4 DEF Publish, Reconcile, Look, PassEnds, PostIngest, InsertIngest, CommitRefresh, Settle, Mark
  <2> QED BY <2>1, <2>2, <2>3, <2>4
<1>4. CASE (\E i \in Imports : CreateImport(i)) \/ (\E j \in Jobs : JobEnds(j)) \/ Crash
  BY <1>1, <1>4 DEF CreateImport, JobEnds, Crash
<1>5. CASE UNCHANGED vars
  BY <1>1, <1>5 DEF vars
<1> QED BY <1>2, <1>3, <1>4, <1>5 DEF Next

\* A publication is of the table there is now or of one before it.
LEMMA TableOfPub ==
    ASSUME TInv, NEW n \in DOMAIN pubs
    PROVE  pubs[n].table \in Nat /\ pubs[n].table <= table.id
<1>1. PICK p \in Pubs : p = pubs[n]
  BY ElementOfSeq DEF TInv, Shape
<1>2. PubFits(p)
  BY <1>1 DEF TInv, PubsFit
<1>3. p.table \in Nat
  BY DEF Pubs
<1>4. p.table <= table.id
  BY <1>2 DEF PubFits
<1> QED BY <1>1, <1>3, <1>4

\* A table that is gone does not come back, and one that is there keeps its writes.
LEMMA ThereStays ==
    ASSUME TInv, [Next]_vars, NEW id \in Nat, id <= table.id, IsThere(id)'
    PROVE  IsThere(id) /\ InTable \subseteq InTable'
<1>1. table.id \in Nat /\ id # table.id + 1
  BY TableKnows
<1> QED BY <1>1, TableMoves DEF IsThere

\* Nor does a publication of it.
LEMMA StillThereStays ==
    ASSUME TInv, [Next]_vars, NEW n \in DOMAIN pubs, StillThere(n)
    PROVE  StillThere(n)'
<1>1. PICK id, j : id = pubs[n].table /\ j = pubs[n].job
  OBVIOUS
<1>2. id \in Nat /\ id <= table.id
  BY <1>1, TableOfPub
<1>3. pubs'[n].table = id /\ pubs'[n].job = j
  BY <1>1, PubsAre DEF SamePub
<1>4. IsThere(id)' => j \in InTable'
  BY <1>1, <1>2, ThereStays DEF StillThere
<1>5. IsThere(id)' <=> IsThere(pubs[n].table)'
  BY <1>3 DEF IsThere
<1> QED BY <1>3, <1>4, <1>5 DEF StillThere

\* Who changes the status of an import.
LEMMA ImportMoves ==
    ASSUME TInv, [Next]_vars, NEW i \in Imports, import'[i] # import[i]
    PROVE  \/ import[i] = "none" /\ import'[i] = "awaiting_upload"
           \/ /\ import'[i] \in {"queued", "inferring", "ingesting"}
              /\ \/ \E q \in Requests : q.op = "complete" /\ q.of = i /\ handler[q].at # "over"
                 \/ publisher.at \in {"create", "insert"} /\ Current.of = i
           \/ Settle /\ import'[i] = "succeeded" /\ Current.kind = "ingest" /\ Current.of = i /\ IsThere(Current.table)
           \/ Fail /\ import'[i] = "failed"
<1>0. import \in [Imports -> Imported]
  BY DEF TInv, Shape
<1>1. CASE \E q \in Requests : Serve(q)
  <2>1. PICK q \in Requests : Serve(q)
    BY <1>1
  <2>2. CASE Queue(q)
    BY <1>0, <2>2 DEF Queue
  <2>3. CASE InsertPublication(q)
    BY <1>0, <2>3 DEF InsertPublication
  <2>4. CASE ~ Queue(q) /\ ~ InsertPublication(q)
    BY <2>1, <2>4 DEF Serve, Arrive, NotUploaded, PlanOptimize, PlanExpire, FindAppended, PlanRefresh,
                      PostJob, DropTable, records
  <2> QED BY <2>2, <2>3, <2>4
<1>2. CASE Publish
  <2>1. CASE CreateTable
    BY <1>0, <2>1 DEF CreateTable
  <2>2. CASE InsertIngest
    BY <1>0, <2>2 DEF InsertIngest
  <2>3. CASE Settle
    <3>1. /\ Current.kind = "ingest" /\ IsThere(Current.table)
          /\ import' = [import EXCEPT ![Current.of] = "succeeded"]
      BY <2>3 DEF Settle
    <3> QED BY <1>0, <2>3, <3>1
  <2>4. CASE Fail
    BY <1>0, <2>4 DEF Fail
  <2>5. CASE ~ CreateTable /\ ~ InsertIngest /\ ~ Settle /\ ~ Fail
    BY <1>2, <2>5 DEF Publish, Reconcile, Look, PassEnds, PostIngest, Commit, CommitRefresh, Mark, records
  <2> QED BY <2>1, <2>2, <2>3, <2>4, <2>5
<1>3. CASE \E k \in Imports : CreateImport(k)
  BY <1>0, <1>3 DEF CreateImport
<1>4. CASE (\E j \in Jobs : JobEnds(j)) \/ Crash
  BY <1>4 DEF JobEnds, Crash, records
<1>5. CASE UNCHANGED vars
  BY <1>5 DEF vars, records
<1> QED BY <1>1, <1>2, <1>3, <1>4, <1>5 DEF Next

\* An import that has failed for good has.
LEMMA FailedStays ==
    ASSUME TInv, Asked, InOrder, [Next]_vars, NEW n \in DOMAIN pubs, FailedForGood(n)
    PROVE  FailedForGood(n)'
<1>1. SamePub(n) /\ pubs[n].kind = "ingest" /\ IsImport(n)
  BY PubsAre DEF InOrder, FailedForGood, IsImport
<1>2. PICK i \in Imports : i = pubs[n].of /\ import[i] = "failed"
  BY <1>1 DEF FailedForGood, TInv, PubsFit, PubFits
<1>3. \A q \in Requests : q.op = "complete" /\ q.of = i => handler[q].at = "over"
  BY <1>1, <1>2 DEF Asked
<1>4. ~ (publisher.at \in {"create", "post", "insert"} /\ Current.of = i)
  <2> SUFFICES ASSUME publisher.at \in {"create", "post", "insert"}, Current.of = i PROVE FALSE
    OBVIOUS
  <2>1. First(publisher.todo) \in DOMAIN pubs /\ Current.state = "pending" /\ Current.kind = "infer"
    BY CurrentFacts DEF TInv, PublisherFits
  <2> QED BY <1>2, <2>1 DEF FailedForGood, IsImport, Current
<1>5. import'[i] = "failed"
  <2> SUFFICES ASSUME import'[i] # import[i], import'[i] # "failed" PROVE FALSE
    BY <1>2
  <2>1. Settle /\ Current.kind = "ingest" /\ Current.of = i /\ IsThere(Current.table)
    BY <1>2, <1>3, <1>4, ImportMoves
  <2>2. First(publisher.todo) \in DOMAIN pubs
    BY <2>1, CurrentFacts DEF Settle
  <2> QED BY <1>2, <2>1, <2>2 DEF FailedForGood, IsImport, Current
<1>6. ASSUME NEW m \in DOMAIN pubs', pubs'[m].kind \in {"infer", "ingest"}, pubs'[m].of = i
      PROVE  /\ pubs'[m].kind = "infer" => pubs'[m].state # "pending"
             /\ pubs'[m].kind = "ingest" => ~ IsThere(pubs[m].table)'
  <2>1. m \in DOMAIN pubs
    <3> SUFFICES ASSUME Stored(m) PROVE FALSE
      BY PubsAre
    <3>1. Follow(m)
      BY <1>1, <1>2, <1>6, StoredFollows
    <3>2. publisher.at = "insert" /\ Current.of = i
      BY <1>6, <3>1 DEF Follow, InsertIngest
    <3> QED BY <1>4, <3>2
  <2>2. SamePub(m) /\ pubs[m].kind \in {"infer", "ingest"} /\ pubs[m].of = i
    BY <1>6, <2>1, PubsAre DEF SamePub
  <2>3. /\ pubs[m].kind = "infer" => pubs[m].state # "pending"
        /\ pubs[m].kind = "ingest" => ~ IsThere(pubs[m].table)
    BY <1>2, <2>1, <2>2 DEF FailedForGood, IsImport
  <2>4. PICK id : id = pubs[m].table
    OBVIOUS
  <2>5. id \in Nat /\ id <= table.id
    BY <2>1, <2>4, TableOfPub
  <2>6. pubs[m].kind = "ingest" => ~ IsThere(id)'
    BY <2>3, <2>4, <2>5, ThereStays
  <2> QED BY <2>2, <2>3, <2>4, <2>6 DEF SamePub, IsThere
<1> QED BY <1>1, <1>2, <1>5, <1>6 DEF FailedForGood, SamePub, IsImport

\* And so a table that was lost is.
LEMMA LostStays ==
    ASSUME TInv, Asked, InOrder, [Next]_vars, NEW id, Lost(id)
    PROVE  Lost(id)'
<1>1. CASE \E q \in Requests : q.op = "drop" /\ handler[q].at = "over" /\ handler[q].table = id
  BY <1>1, OverStays DEF Lost
<1>2. CASE \E n \in DOMAIN pubs : pubs[n].table = id /\ FailedForGood(n)
  <2>1. PICK n \in DOMAIN pubs : pubs[n].table = id /\ FailedForGood(n)
    BY <1>2
  <2>2. SamePub(n) /\ FailedForGood(n)'
    BY <2>1, PubsAre, FailedStays
  <2> QED BY <2>1, <2>2 DEF Lost, SamePub
<1> QED BY <1>1, <1>2 DEF Lost

\* A table that goes is accounted for.
LEMMA TableGoes ==
    ASSUME TInv, InOrder, [Next]_vars, table'.id = table.id, table'.live = FALSE, table.live,
           (\E q \in Requests : DropTable(q)) \/ (Fail /\ Current.created /\ IsThere(Current.table))
    PROVE  Lost(table.id)'
<1>1. CASE \E q \in Requests : DropTable(q)
  <2>1. PICK q \in Requests : DropTable(q)
    BY <1>1
  <2>2. q.op = "drop" /\ handler'[q].at = "over" /\ handler'[q].table = table.id
    BY <2>1, HandlerKnows DEF DropTable, Handlers
  <2>3. PICK id : id = table.id
    OBVIOUS
  <2>4. Lost(id)'
    BY <2>2, <2>3 DEF Lost
  <2> QED BY <2>3, <2>4 DEF Lost, FailedForGood, IsThere, IsImport
<1>2. CASE Fail /\ Current.created /\ IsThere(Current.table)
  <2>1. PICK n : /\ n = First(publisher.todo) /\ n \in DOMAIN pubs /\ Current = pubs[n] /\ n \in Nat
                 /\ \A k \in publisher.todo : n <= k
    BY <1>2, CurrentFacts DEF Fail, Current
  <2>2. pubs' = pubs /\ publisher.todo \in SUBSET Nat /\ n \in publisher.todo
    BY <1>2, <2>1, CurrentFacts DEF Fail
  <2>3. pubs[n].created /\ pubs[n].kind = "ingest" /\ pubs[n].table = table.id
    BY <1>2, <2>1 DEF InOrder, IsThere
  <2>4. import' = [import EXCEPT ![pubs[n].of] = "failed"] /\ pubs[n].of \in Imports
    BY <1>2, <2>1, <2>3 DEF Fail, TInv, PubsFit, PubFits
  <2>5. import'[pubs[n].of] = "failed"
    BY <2>4 DEF TInv, Shape
  <2>6. ASSUME NEW m \in DOMAIN pubs, pubs[m].kind = "infer", pubs[m].of = pubs[n].of PROVE pubs[m].state # "pending"
    <3> SUFFICES ASSUME pubs[m].state = "pending" PROVE FALSE
      OBVIOUS
    <3>1. m < n /\ m \in publisher.todo
      BY <2>1, <2>2, <2>3, <2>6 DEF InOrder, Follows
    <3> QED BY <2>1, <2>2, <3>1
  <2>7. FailedForGood(n)'
    BY <2>2, <2>3, <2>5, <2>6 DEF FailedForGood, IsThere, IsImport
  <2>8. PICK id : id = table.id
    OBVIOUS
  <2>9. Lost(id)'
    BY <2>1, <2>2, <2>3, <2>7, <2>8 DEF Lost
  <2> QED BY <2>8, <2>9 DEF Lost, FailedForGood, IsThere, IsImport
<1> QED BY <1>1, <1>2

\* What the publisher settles is in its table.
LEMMA SettlesWhatIsThere ==
    ASSUME TInv, Accounted, [Next]_vars, publisher'.at = "settle", (Current.kind = "ingest")'
    PROVE  StillThere(First(publisher.todo))'
<1>1. publisher \in Publishers
  BY DEF TInv, Shape
<1>2. CASE publisher' = publisher
  <2>1. PICK n : n = First(publisher.todo)
    OBVIOUS
  <2>2. n \in DOMAIN pubs
    BY <1>2, <2>1, CurrentFacts
  <2>3. pubs'[n].kind = pubs[n].kind /\ Current = pubs[n]
    BY <2>1, <2>2, PubsAre DEF SamePub, Current
  <2>4. StillThere(n)
    BY <1>2, <2>1, <2>3 DEF Accounted, Current
  <2>5. StillThere(n)'
    BY <2>2, <2>4, StillThereStays
  <2> QED BY <1>2, <2>1, <2>5 DEF StillThere, IsThere, InTable
<1>3. CASE Publish
  <2>1. CASE Commit
    <3>1. publisher.at = "commit" /\ pubs' = pubs /\ publisher'.todo = publisher.todo /\ view' = view
      BY <1>1, <2>1 DEF Commit, GoOn, ToFail, Publishers
    <3>2. table' = Committed(Current) /\ Current.kind = "ingest"
      BY <1>1, <2>1, <3>1 DEF Commit, GoOn, ToFail, Publishers, Current
    <3>3. PICK n : n = First(publisher.todo) /\ n \in DOMAIN pubs /\ Current = pubs[n]
      BY <3>1, CurrentFacts DEF Current
    <3>4. PICK p \in Pubs : p = Current /\ PubFits(p)
      BY <3>1, CurrentFacts
    <3>5. p.job \in Jobs /\ p.kind \in {"ingest", "optimize"} /\ table' = Committed(p)
      BY <3>2, <3>4 DEF Pubs
    <3>6. p.job \in InTable'
      <4>1. CASE table' = table /\ HasWrite(table, p.job)
        <5>1. PICK k \in table.kept : table.snaps[k].write = p.job
          BY <4>1 DEF HasWrite
        <5>2. k \in DOMAIN table.snaps
          BY <5>1 DEF TInv, TablesFit
        <5> QED BY <4>1, <5>1, <5>2 DEF InTable
      <4>2. CASE \E op, left : Adds(table, table', op, p.job, left, Written(p))
        <5>1. PICK op, left : Adds(table, table', op, p.job, left, Written(p))
          BY <4>2
        <5>2. PICK k : k = Len(table'.snaps)
          OBVIOUS
        <5>3. k \in DOMAIN table'.snaps /\ table'.snaps[k].write = p.job
          BY <5>1, <5>2 DEF Adds, Snap
        <5> QED BY <5>3 DEF InTable
      <4> QED BY <3>4, <3>5, <4>1, <4>2, CommittedFacts
    <3> QED BY <3>1, <3>3, <3>4, <3>6 DEF StillThere
  <2>2. CASE Look
    <3>1. Current.kind = "delete" /\ pubs' = pubs /\ publisher'.todo = publisher.todo
      <4>1. pubs' = pubs /\ status[Current.job] = "succeeded" /\ publisher.todo # {}
        BY <1>1, <2>2 DEF Look, Publishers
      <4>2. publisher'.todo = publisher.todo
        BY <1>1, <2>2, <4>1 DEF Look, Publishers
      <4>3. Current.kind = "delete"
        BY <1>1, <2>2, <4>1 DEF Look, Publishers
      <4> QED BY <4>1, <4>2, <4>3
    <3> QED BY <3>1 DEF Current
  <2>3. CASE CommitRefresh
    <3>1. Current.kind = "refresh" /\ pubs' = pubs /\ publisher'.todo = publisher.todo
      BY <1>1, <2>3 DEF CommitRefresh, GoOn, ToFail, Publishers
    <3> QED BY <3>1 DEF Current
  <2>4. CASE Reconcile
    <3>1. publisher' = [Resting EXCEPT !.at = "next", !.todo = Oldest(Pending)]
      BY <2>4 DEF Reconcile
    <3> QED BY <3>1 DEF Resting
  <2>5. CASE PassEnds
    BY <2>5 DEF PassEnds, Resting
  <2>6. CASE CreateTable \/ PostIngest
    <3>1. publisher'.at \in {"fail", "post", "insert"}
      BY <1>1, <2>6 DEF CreateTable, PostIngest, GoOn, ToFail, Publishers
    <3> QED BY <3>1
  <2>7. CASE InsertIngest \/ Settle \/ Fail
    <3>1. publisher'.at \in {"fail", "mark"}
      BY <1>1, <2>7 DEF InsertIngest, Settle, Fail, GoOn, ToFail, Publishers
    <3> QED BY <3>1
  <2>8. CASE Mark
    BY <2>8, MarkFacts
  <2> QED BY <1>3, <2>1, <2>2, <2>3, <2>4, <2>5, <2>6, <2>7, <2>8 DEF Publish
<1>4. CASE \E q \in Requests : Serve(q)
  BY <1>2, <1>4, ServeKeeps
<1>5. CASE (\E i \in Imports : CreateImport(i)) \/ (\E j \in Jobs : JobEnds(j))
  BY <1>2, <1>5 DEF CreateImport, JobEnds
<1>6. CASE Crash
  BY <1>6 DEF Crash, Resting
<1>7. CASE UNCHANGED vars
  BY <1>2, <1>7 DEF vars
<1> QED BY <1>3, <1>4, <1>5, <1>6, <1>7 DEF Next

\* Tables that are gone and imports that succeeded are accounted for.
LEMMA NextAccounted == ASSUME TInv, Asked, InOrder, Accounted, [Next]_vars PROVE Accounted'
<1>1. ASSUME NEW id \in 1 .. table'.id, ~ IsThere(id)' PROVE Lost(id)'
  <2>1. id \in Nat /\ id # 0 /\ id <= table'.id /\ table.id \in Nat
    BY <1>1, TableKnows
  <2>2. CASE id <= table.id /\ ~ IsThere(id)
    <3>1. id \in 1 .. table.id
      BY <2>1, <2>2
    <3>2. Lost(id)
      BY <2>2, <3>1 DEF Accounted
    <3> QED BY <3>2, LostStays
  <2>3. CASE ~ (id <= table.id)
    <3>1. table'.id = table.id + 1 /\ table'.live
      BY <2>1, <2>3, TableMoves
    <3>2. id = table'.id
      BY <2>1, <2>3, <3>1
    <3> QED BY <1>1, <3>1, <3>2 DEF IsThere
  <2>4. CASE id <= table.id /\ IsThere(id)
    <3>1. table.live /\ id = table.id
      BY <2>4 DEF IsThere
    <3>2. /\ table'.id = table.id /\ table'.live = FALSE
          /\ (\E q \in Requests : DropTable(q)) \/ (Fail /\ Current.created /\ IsThere(Current.table))
      BY <1>1, <3>1, TableMoves DEF IsThere
    <3>3. Lost(table.id)'
      BY <3>1, <3>2, TableGoes
    <3> QED BY <3>1, <3>2, <3>3 DEF Lost, FailedForGood, IsThere, IsImport
  <2> QED BY <2>2, <2>3, <2>4
<1>2. ASSUME NEW i \in Imports, import'[i] = "succeeded"
      PROVE  \E n \in DOMAIN pubs' : pubs'[n].kind = "ingest" /\ pubs'[n].of = i /\ StillThere(n)'
  <2>1. PICK n \in DOMAIN pubs : pubs[n].kind = "ingest" /\ pubs[n].of = i /\ StillThere(n)
    <3>1. CASE import[i] = "succeeded"
      BY <3>1 DEF Accounted
    <3>2. CASE import[i] # "succeeded"
      <4>1. Settle /\ Current.kind = "ingest" /\ Current.of = i
        BY <1>2, <3>2, ImportMoves
      <4>2. publisher.at = "settle"
        BY <4>1 DEF Settle
      <4>3. First(publisher.todo) \in DOMAIN pubs /\ Current = pubs[First(publisher.todo)]
        BY <4>2, CurrentFacts DEF Current
      <4> QED BY <4>1, <4>2, <4>3 DEF Accounted
    <3> QED BY <3>1, <3>2
  <2>2. SamePub(n) /\ StillThere(n)'
    BY <2>1, PubsAre, StillThereStays
  <2> QED BY <2>1, <2>2 DEF SamePub
<1>3. publisher'.at = "settle" /\ (Current.kind = "ingest")' => StillThere(First(publisher.todo))'
  BY SettlesWhatIsThere
<1> QED BY <1>1, <1>2, <1>3 DEF Accounted

\* An import that is accounted for has its rows where it says.
LEMMA AccountedIsThere == ASSUME TInv, Accounted PROVE SucceededIsThere
<1> SUFFICES ASSUME NEW i \in Imports, import[i] = "succeeded"
             PROVE  \E p \in Ingests(i) : RowsThere(p) \/ TakenAway(p)
  BY DEF SucceededIsThere
<1>1. PICK n \in DOMAIN pubs : pubs[n].kind = "ingest" /\ pubs[n].of = i /\ StillThere(n)
  BY DEF Accounted
<1>2. PICK p : p = pubs[n]
  OBVIOUS
<1>3. p \in Ingests(i)
  BY <1>1, <1>2 DEF Ingests
<1>4. p \in Pubs /\ payload[p.job].op = "ingest" /\ p.table <= table.id /\ p.table # 0
  BY <1>1, <1>2, ElementOfSeq DEF TInv, Shape, PubsFit, PubFits
<1>5. p.table \in 1 .. table.id
  BY <1>4, TableKnows DEF Pubs
<1>6. CASE IsThere(p.table)
  <2>1. PICK m \in DOMAIN table.snaps : table.snaps[m].write = p.job
    BY <1>1, <1>2, <1>6 DEF StillThere, InTable
  <2>2. \A k \in DOMAIN table.snaps : k \in Nat
    BY TableKnows
  <2>3. p.job \in Since(table) \/ \E k \in DOMAIN table.snaps : k > m /\ table.snaps[k].op = "delete"
    <3> SUFFICES ASSUME \A k \in DOMAIN table.snaps : table.snaps[k].op = "delete" => ~ (k > m)
                 PROVE  p.job \in Since(table)
      OBVIOUS
    <3>1. Counts(m)
      BY <1>4, <2>1, <2>2 DEF Counts
    <3> QED BY <2>1, <3>1, SinceIs
  <2>4. RowsThere(p)
    BY <1>6, <2>1, <2>3 DEF RowsThere
  <2> QED BY <1>3, <2>4
<1>7. CASE ~ IsThere(p.table)
  <2>1. Lost(p.table)
    BY <1>5, <1>7 DEF Accounted
  <2>2. RowsThere(p) \/ TakenAway(p)
    BY <2>1 DEF Lost, RowsThere, TakenAway, FailedForGood
  <2> QED BY <1>3, <2>2
<1> QED BY <1>6, <1>7

\* At first there is nothing to account for.
LEMMA InitSInv == ASSUME Init PROVE SInv
<1>1. DOMAIN pubs = {} /\ publisher.at = "idle" /\ \A i \in Imports : import[i] = "none"
  BY DEF Init, Resting
<1>2. \A id \in 1 .. table.id : IsThere(id)
  BY ConstantFacts DEF Init, IsThere
<1> QED BY <1>1, <1>2 DEF SInv, Asked, InOrder, Accounted

\* Where nobody completes an import twice, an import that is reported as succeeded has
\* its rows in the table, unless a later import has overwritten them, the owner has
\* dropped the table, or the import that created it has failed: whatever is replayed,
\* rewritten, expired or fails late (ingested, fail, complete_import).
THEOREM ReportedIsThere == ASSUME CompletedOnce PROVE Spec => []SucceededIsThere
<1>1. Init => SInv
  BY InitSInv
<1>2. TInv /\ SInv /\ [Next]_vars => SInv'
  BY NextAsked, NextInOrder, NextAccounted DEF SInv
<1>3. TInv /\ SInv => SucceededIsThere
  BY AccountedIsThere DEF SInv
<1> QED BY <1>1, <1>2, <1>3, PublicationsAreConsistent, PTL DEF Spec

-----------------------------------------------------------------------------
(* Fourth part: what the view has of its source.                           *)

Refreshes == {q \in Requests : q.op = "refresh"}
Serving(q) == handler[q].at \in {"work", "plan", "post", "insert"}

\* Refreshes are served one at a time.
OneRefresh == \A q, r \in Refreshes : Serving(q) /\ Serving(r) => q = r

Busy(q) == Serving(q) \/ run[q].status = "running"
IsRefresh(n) == pubs[n].kind = "refresh"
Open(n) == IsRefresh(n) /\ run[pubs[n].of].status = "running"
InView(j) == \E k \in DOMAIN view.snaps : view.snaps[k].write = j
ViewRows == Rows(CurrentFiles(view))

\* A refresh that has begun and has not been settled keeps others from beginning.
OneBusy == \A q, r \in Refreshes : Busy(q) /\ Busy(r) => q = r

RunsFit == \A q \in Refreshes :
    run[q].table = 0 /\ (handler[q].at \in {"post", "insert"} => run[q].status = "running")

\* The publication of a refresh is open until the refresh is settled.
RefreshesFit ==
    /\ \A n \in DOMAIN pubs : pubs[n].kind \in {"optimize", "delete"} => pubs[n].of.op # "refresh"
    /\ \A n \in DOMAIN pubs : IsRefresh(n) =>
         /\ pubs[n].of \in Refreshes /\ handler[pubs[n].of].at = "over" /\ run[pubs[n].of].status # "none"
         /\ pubs[n].created = FALSE
         /\ ~ Open(n) => status[pubs[n].job] # "pending"
         /\ pubs[n].state # "pending" => ~ Open(n)

\* And they are settled in their order.
InTurn == \A n, m \in DOMAIN pubs : IsRefresh(n) /\ IsRefresh(m) /\ n < m => ~ Open(n) /\ Follows(n, m)

\* The publisher is at a refresh.
AtRefresh ==
    publisher.at \in {"commit", "settle", "fail", "mark"} /\ Current.kind = "refresh" =>
      /\ publisher.at = "commit" => status[Current.job] = "succeeded"
      /\ publisher.at = "settle" => InView(Current.job)
      /\ publisher.at = "fail" => status[Current.job] \notin {"pending", "succeeded"}
      /\ publisher.at = "mark" => ~ Open(First(publisher.todo))

\* These rows have been read from the source, no later than its snapshot src.
Known(rows, src) ==
    /\ \A w \in rows : \E n \in DOMAIN pubs :
         pubs[n].job = w /\ (pubs[n].table = table.id => w \in InTable)
    /\ src.id = table.id => \A k \in DOMAIN table.snaps : k > src.n => table.snaps[k].write \notin rows

\* And may be put into the view.
Reads(rows, full, source) ==
    /\ Known(rows, source) /\ Known(ViewRows, source)
    /\ ~ full => rows \cap ViewRows = {}

\* What is in the view was put there by a publication whose job has succeeded.
SeenFits == \A j \in Jobs : InView(j) => status[j] = "succeeded" /\ \E n \in DOMAIN pubs : pubs[n].job = j

\* The view has been read no later than it says, or than the refresh that has been
\* committed and not been settled says.
SinceFits ==
    /\ \A n \in DOMAIN pubs : Open(n) /\ InView(pubs[n].job) => Known(ViewRows, pubs[n].source)
    /\ (\A n \in DOMAIN pubs : ~ (Open(n) /\ InView(pubs[n].job))) => Known(ViewRows, view.since)

\* A refresh that is settled again changes nothing.
ReplaysFit ==
    \A n \in DOMAIN pubs : IsRefresh(n) /\ ~ Open(n) /\ pubs[n].state = "pending" =>
      /\ InView(pubs[n].job) => pubs[n].source = view.since
      /\ ~ InView(pubs[n].job) => status[pubs[n].job] # "succeeded"

InfoFits == \A q \in Refreshes : Serving(q) => handler[q].info = view.since

\* What a refresh is going to add to the view.
ToAddFits ==
    /\ \A q \in Refreshes :
         /\ handler[q].at \in {"plan", "post"} => handler[q].files \subseteq Accepted
         /\ handler[q].at = "plan" /\ ~ handler[q].full =>
              \A f \in handler[q].files : RowsOf(f) \cap ViewRows = {}
         /\ handler[q].at = "post" =>
              /\ \A f \in handler[q].files : Reads(RowsOf(f), handler[q].full, handler[q].source)
              /\ Known(ViewRows, handler[q].source)
         /\ handler[q].at = "insert" =>
              Reads(payload[handler[q].job].rows, handler[q].full, handler[q].source)
    /\ \A n \in DOMAIN pubs : Open(n) /\ ~ InView(pubs[n].job) =>
         Reads(payload[pubs[n].job].rows, pubs[n].full, pubs[n].source)

\* An append is of an import.
OpsFit == \A k \in DOMAIN table.snaps :
    table.snaps[k].op = "append" => payload[table.snaps[k].write].op = "ingest"

VInv == /\ OneBusy /\ RunsFit /\ RefreshesFit /\ InTurn /\ AtRefresh
        /\ SeenFits /\ SinceFits /\ ReplaysFit /\ InfoFits /\ ToAddFits /\ OpsFit /\ NoDuplicates

\* A job stays what it is, and the outcome it has.
LEMMA JobsStay ==
    ASSUME TInv, [Next]_vars
    PROVE  /\ \A j \in Accepted : j \in Accepted' /\ payload'[j] = payload[j]
           /\ \A j \in Accepted : status[j] # "pending" => status'[j] = status[j]
<1>1. CASE status' = status /\ payload' = payload
  BY <1>1 DEF Accepted
<1>2. status \in [Jobs -> {"absent", "pending"} \cup Contract!Outcomes]
  BY DEF TInv, Shape
<1>3. CASE \E k \in Jobs : JobEnds(k)
  <2>1. PICK k \in Jobs, o \in Ends : status' = [status EXCEPT ![k] = o] /\ status[k] = "pending" /\ payload' = payload
    BY <1>3 DEF JobEnds, Contract!End
  <2>2. o # "absent"
    BY PublicationsAssumption
  <2> QED BY <1>2, <2>1, <2>2 DEF Accepted
<1>4. ASSUME NEW op \in Kinds, NEW files \in SUBSET Jobs, Post(op, files)
      PROVE  /\ \A j \in Accepted : j \in Accepted' /\ payload'[j] = payload[j]
             /\ \A j \in Accepted : status[j] # "pending" => status'[j] = status[j]
  <2>1. status' = [status EXCEPT ![NextJob] = "pending"]
    BY <1>4 DEF Post, Contract!Accept
  <2>2. NextJob \notin Accepted /\ \A j \in Accepted : j \in Accepted' /\ payload'[j] = payload[j]
    BY <1>4, PostFacts DEF TInv
  <2> QED BY <1>2, <2>1, <2>2 DEF Accepted
<1>5. CASE \E q \in Requests : Serve(q)
  <2>1. PICK q \in Requests : Serve(q)
    BY <1>5
  <2>2. CASE PostJob(q)
    <3>1. q.op # "drop" /\ handler[q].files \in SUBSET Jobs
      BY <2>2, HandlerKnows DEF PostJob, HandlerFits, Handlers
    <3>2. JobOf(q) \in Kinds
      BY <3>1, JobOfFacts DEF TInv
    <3>3. Post(JobOf(q), handler[q].files) \/ UNCHANGED compute
      BY <2>2 DEF PostJob
    <3> QED BY <1>1, <1>4, <3>1, <3>2, <3>3 DEF compute
  <2>3. CASE ~ PostJob(q)
    BY <1>1, <2>1, <2>3 DEF Serve, Arrive, Queue, NotUploaded, PlanOptimize, PlanExpire, FindAppended, PlanRefresh,
                            InsertPublication, DropTable, compute
  <2> QED BY <2>2, <2>3
<1>6. CASE Publish
  <2>1. CASE PostIngest
    <3>1. Post("ingest", {}) \/ UNCHANGED compute
      BY <2>1 DEF PostIngest
    <3> QED BY <1>1, <1>4, <3>1 DEF compute, Kinds
  <2>2. CASE ~ PostIngest
    BY <1>1, <1>6, <2>2 DEF Publish, Reconcile, Look, PassEnds, CreateTable, InsertIngest, Commit, CommitRefresh,
                            Settle, Fail, Mark, compute
  <2> QED BY <2>1, <2>2
<1>7. CASE (\E i \in Imports : CreateImport(i)) \/ Crash
  BY <1>1, <1>7 DEF CreateImport, Crash, compute
<1>8. CASE UNCHANGED vars
  BY <1>1, <1>8 DEF vars, compute
<1> QED BY <1>3, <1>5, <1>6, <1>7, <1>8 DEF Next

\* How the table changes, while the writes that may come again are remembered.
LEMMA TableWrites ==
    ASSUME TInv, Remembers, [Next]_vars
    PROVE  \/ table'.id = table.id /\ table'.snaps = table.snaps
           \/ table'.id = table.id + 1 /\ table'.snaps = <<>>
           \/ /\ Commit /\ table'.id = table.id /\ Current.table = table.id /\ Current.job \notin InTable
              /\ \E i, n \in Nat :
                   /\ DOMAIN table'.snaps = DOMAIN table.snaps \cup {i, n}
                   /\ \A k \in DOMAIN table.snaps : table'.snaps[k] = table.snaps[k]
                   /\ \A k \in {i, n} :
                        /\ k \notin DOMAIN table.snaps /\ table'.snaps[k].write = Current.job
                        /\ table'.snaps[k].op = "append" => payload[Current.job].op = "ingest"
                   /\ n >= i /\ table'.snaps[n].op \in {"append", "overwrite"}
                   /\ n # i => table'.snaps[i].op = "delete"
<1>1. CASE table' = table \/ table' = Dropped
  BY <1>1, DroppedFacts
<1>2. CASE \E q \in Requests : Serve(q)
  <2>1. PICK q \in Requests : Serve(q)
    BY <1>2
  <2>2. \A n : Expired(table, n).snaps = table.snaps /\ Expired(table, n).id = table.id
    BY TableKnows DEF Expired, Tables
  <2>3. table' = table \/ table' = Dropped \/ \E n : table' = Expired(table, n)
    BY <2>1 DEF Serve, Arrive, Queue, NotUploaded, PlanOptimize, PlanExpire, FindAppended, PlanRefresh,
                PostJob, InsertPublication, DropTable
  <2> QED BY <1>1, <2>2, <2>3
<1>3. CASE Publish
  <2>1. CASE CreateTable
    <3>1. table' = table \/ table' = NewTable
      BY <2>1 DEF CreateTable
    <3>2. NewTable.id = table.id + 1 /\ NewTable.snaps = <<>>
      BY DEF NewTable
    <3> QED BY <1>1, <3>1, <3>2
  <2>2. CASE Commit
    <3>1. /\ publisher.at = "commit" /\ Current.kind \in {"ingest", "optimize"} /\ view' = view
          /\ table' # table => table' = Committed(Current) /\ IsThere(Current.table)
      BY <2>2 DEF Commit, TInv, PublisherFits
    <3>2. PICK p \in Pubs : p = Current /\ PubFits(p)
      BY <3>1, CurrentFacts
    <3>3. p.job \in Jobs /\ p.kind \in {"ingest", "optimize"}
      BY <3>1, <3>2 DEF Pubs
    <3>4. CASE table' # table
      <4>1. table' = Committed(p) /\ Committed(p) # table /\ p.table = table.id
        BY <3>1, <3>2, <3>4 DEF IsThere
      <4>2. PICK op \in {"append", "overwrite"}, left \in SUBSET CurrentFiles(table) :
              /\ Adds(table, table', op, p.job, left, Written(p))
              /\ table'.id = table.id /\ ~ HasWrite(table, p.job)
              /\ p.kind = "optimize" => op = "overwrite"
        BY <3>2, <3>3, <4>1, CommittedFacts
      <4>3. Len(table.snaps) \in Nat /\ DOMAIN table.snaps = 1 .. Len(table.snaps)
        BY TableKnows
      <4>4. PICK i, n \in Nat : i = Len(table.snaps) + 1 /\ n = Len(table'.snaps) /\ (n = i \/ n = i + 1)
        BY <4>2, <4>3 DEF Adds
      <4>5. /\ DOMAIN table'.snaps = DOMAIN table.snaps \cup {i, n}
            /\ \A k \in DOMAIN table.snaps : table'.snaps[k] = table.snaps[k]
            /\ table'.snaps[n].write = p.job /\ table'.snaps[n].op = op
            /\ n # i => table'.snaps[i].write = p.job /\ table'.snaps[i].op = "delete"
        BY <4>2, <4>4, EntryFacts DEF Adds
      <4>6. payload[p.job].op = p.kind
        BY <3>2 DEF PubFits
      <4>7. p.job \notin InTable
        <5>1. PICK m \in DOMAIN pubs : m = First(publisher.todo) /\ pubs[m] = p /\ p.state = "pending"
          BY <3>1, <3>2, CurrentFacts DEF Current
        <5>2. Replayable(m)
          BY <3>1, <5>1 DEF Replayable
        <5> QED BY <4>2, <5>1, <5>2 DEF Remembers, InTable
      <4>8. \A k \in {i, n} : /\ k \notin DOMAIN table.snaps /\ table'.snaps[k].write = p.job
                              /\ table'.snaps[k].op = "append" => payload[p.job].op = "ingest"
        <5>1. i \notin DOMAIN table.snaps /\ n \notin DOMAIN table.snaps
          BY <4>3, <4>4
        <5> QED BY <3>3, <4>2, <4>5, <4>6, <5>1
      <4>9. table'.id = table.id /\ Current.table = table.id /\ Current.job = p.job
        BY <3>2, <4>1, <4>2
      <4>10. n >= i /\ table'.snaps[n].op \in {"append", "overwrite"}
        BY <4>4, <4>5
      <4> QED BY <2>2, <4>5, <4>7, <4>8, <4>9, <4>10
    <3> QED BY <1>1, <3>4
  <2>3. CASE ~ CreateTable /\ ~ Commit
    BY <1>1, <1>3, <2>3 DEF Publish, Reconcile, Look, PassEnds, PostIngest, InsertIngest, CommitRefresh, Settle,
                            Fail, Mark
  <2> QED BY <2>1, <2>2, <2>3
<1>4. CASE (\E i \in Imports : CreateImport(i)) \/ (\E j \in Jobs : JobEnds(j)) \/ Crash
  BY <1>1, <1>4 DEF CreateImport, JobEnds, Crash
<1>5. CASE UNCHANGED vars
  BY <1>1, <1>5 DEF vars
<1> QED BY <1>2, <1>3, <1>4, <1>5 DEF Next

\* What has been read from the source stays so.
LEMMA KnownStays ==
    ASSUME TInv, Remembers, [Next]_vars, NEW rows, NEW src, src.id \in Nat, src.id <= table.id, Known(rows, src)
    PROVE  Known(rows, src)'
<1>0. \A n \in DOMAIN pubs : n \in DOMAIN pubs' /\ pubs'[n].job = pubs[n].job /\ pubs'[n].table = pubs[n].table
  BY PubsAre DEF SamePub
<1>1. CASE table'.id = table.id /\ table'.snaps = table.snaps
  BY <1>0, <1>1 DEF Known, InTable
<1>2. CASE table'.id = table.id + 1 /\ table'.snaps = <<>>
  <2>1. src.id # table'.id
    BY <1>2, TableKnows
  <2>2. \A n \in DOMAIN pubs : pubs[n].table # table'.id
    BY <1>2, TableOfPub, TableKnows
  <2> QED BY <1>0, <2>1, <2>2 DEF Known
<1>3. ASSUME table'.id = table.id, Commit, Current.table = table.id, Current.job \notin InTable,
             NEW i \in Nat, NEW n \in Nat, DOMAIN table'.snaps = DOMAIN table.snaps \cup {i, n},
             \A k \in DOMAIN table.snaps : table'.snaps[k] = table.snaps[k],
             \A k \in {i, n} : table'.snaps[k].write = Current.job
      PROVE  Known(rows, src)'
  <2>1. PICK m \in DOMAIN pubs : pubs[m] = Current
    BY <1>3, CurrentFacts DEF Commit, Current
  <2>2. Current.job \notin rows
    BY <1>3, <2>1 DEF Known, TInv, OneHand
  <2>3. \A w : w \in InTable => w \in InTable'
    BY <1>3 DEF InTable
  <2>4. \A k \in DOMAIN table'.snaps : k > src.n /\ src.id = table.id => table'.snaps[k].write \notin rows
    BY <1>3, <2>2 DEF Known
  <2>5. \A w \in rows : \E l \in DOMAIN pubs' : pubs'[l].job = w /\ (pubs'[l].table = table'.id => w \in InTable')
    BY <1>0, <1>3, <2>3 DEF Known
  <2> QED BY <1>3, <2>4, <2>5 DEF Known
<1> QED BY <1>1, <1>2, <1>3, TableWrites

\* So an append stays that of an import.
LEMMA NextOpsFit == ASSUME TInv, Remembers, SnapsFit, OpsFit, [Next]_vars PROVE OpsFit'
<1>1. \A k \in DOMAIN table.snaps : table.snaps[k].write \in Accepted
  BY DEF SnapsFit, TInv, PubsFit, PubFits
<1>2. \A j \in Accepted : payload'[j] = payload[j]
  BY JobsStay
<1>3. CASE table'.snaps = table.snaps \/ table'.snaps = <<>>
  BY <1>1, <1>2, <1>3 DEF OpsFit
<1>4. ASSUME Commit, NEW i \in Nat, NEW n \in Nat, DOMAIN table'.snaps = DOMAIN table.snaps \cup {i, n},
             \A k \in DOMAIN table.snaps : table'.snaps[k] = table.snaps[k],
             \A k \in {i, n} : /\ table'.snaps[k].write = Current.job
                               /\ table'.snaps[k].op = "append" => payload[Current.job].op = "ingest"
      PROVE  OpsFit'
  <2>1. Current.job \in Accepted
    BY <1>4, CurrentFacts DEF Commit, PubFits
  <2> QED BY <1>1, <1>2, <1>4, <2>1 DEF OpsFit
<1> QED BY <1>3, <1>4, TableWrites

\* What can become of a refresh.
GivesUp(q) == handler'[q].at = "over" /\ run'[q] = run[q]
Comes(q) ==
    /\ Arrive(q) /\ UNCHANGED <<run, view>> /\ ~ Running(0)
    /\ handler[q].at = "start" /\ handler'[q].at = "work" /\ handler'[q].info = view.since
Skips(q) ==
    /\ FindAppended(q) /\ handler[q].at = "work" /\ handler'[q].at = "over"
    /\ run'[q].status = "skipped" /\ run'[q].table = run[q].table
Finds(q) ==
    /\ FindAppended(q) /\ handler[q].at = "work" /\ handler'[q].at = "plan" /\ run' = run
    /\ handler'[q].info = handler[q].info
Plans(q) ==
    /\ PlanRefresh(q) /\ handler[q].at = "plan" /\ handler'[q].at = "post"
    /\ run'[q].status = "running" /\ run'[q].table = run[q].table
    /\ handler'[q].info = handler[q].info /\ handler'[q].full = handler[q].full
Posts(q) ==
    /\ PostJob(q) /\ handler[q].at = "post" /\ handler'[q].at = "insert" /\ run' = run
    /\ handler'[q].info = handler[q].info /\ handler'[q].full = handler[q].full
    /\ handler'[q].source = handler[q].source /\ handler'[q].job = NextJob /\ Post("refresh", handler[q].files)
Closes(q) ==
    /\ Settle \/ Fail
    /\ Current.kind = "refresh" /\ Current.of = q /\ handler' = handler
    /\ run'[q].table = run[q].table /\ run'[q].status \in {"succeeded", "failed"}

\* How a handler of a refresh moves.
LEMMA RefreshSteps ==
    ASSUME TInv, RunsFit, RefreshesFit, NEW q \in Refreshes, Serve(q)
    PROVE  GivesUp(q) \/ Comes(q) \/ Skips(q) \/ Finds(q) \/ Plans(q) \/ Posts(q)
<1>0. /\ q \in Requests /\ q \in Maintenance /\ q.op = "refresh" /\ JobOf(q) = "refresh"
      /\ handler \in [Requests -> Handlers] /\ handler[q] \in Handlers
      /\ run \in [Maintenance -> Runs] /\ run[q] \in Runs
  BY ConstantFacts, HandlerKnows DEF Refreshes, JobOf, TInv, Shape
<1>1. EndRequest(q) => handler'[q].at = "over"
  BY <1>0 DEF EndRequest, At, Handlers
<1>2. CASE Arrive(q)
  <2>1. /\ handler[q].at = "start" /\ UNCHANGED <<run, view>>
        /\ handler' = [handler EXCEPT ![q].at = IF Running(0) THEN "over" ELSE "work", ![q].info = view.since]
    BY <1>0, <1>2 DEF Arrive, records
  <2>2. handler'[q].at = (IF Running(0) THEN "over" ELSE "work") /\ handler'[q].info = view.since
    BY <1>0, <2>1 DEF Handlers
  <2> QED BY <1>2, <2>1, <2>2 DEF GivesUp, Comes
<1>3. CASE FindAppended(q)
  <2>1. PICK full, paths :
          /\ handler' = [handler EXCEPT ![q].at = IF ~full /\ paths = {} THEN "over" ELSE "plan",
                                        ![q].full = full, ![q].files = paths]
          /\ run' = IF ~full /\ paths = {} THEN [run EXCEPT ![q].status = "skipped"] ELSE run
    <3> DEFINE info == handler[q].info
               added == IF ~q.of /\ table.live /\ info.id = table.id THEN AppendedSince(table, info.n)
                        ELSE [full |-> TRUE, paths |-> {}]
    <3>1. /\ handler' = [handler EXCEPT ![q].at = IF ~added.full /\ added.paths = {} THEN "over" ELSE "plan",
                                        ![q].full = added.full, ![q].files = added.paths]
          /\ run' = IF ~added.full /\ added.paths = {} THEN [run EXCEPT ![q].status = "skipped"] ELSE run
      BY <1>3 DEF FindAppended
    <3> HIDE DEF added
    <3> QED BY <3>1
  <2>2. handler[q].at = "work"
    BY <1>3 DEF FindAppended
  <2>3. /\ handler'[q].at = (IF ~full /\ paths = {} THEN "over" ELSE "plan")
        /\ handler'[q].info = handler[q].info
    BY <1>0, <2>1 DEF Handlers
  <2>4. ~full /\ paths = {} => run'[q].status = "skipped" /\ run'[q].table = run[q].table
    BY <1>0, <2>1 DEF Runs
  <2> QED BY <1>3, <2>1, <2>2, <2>3, <2>4 DEF Skips, Finds
<1>4. CASE PlanRefresh(q)
  <2>1. handler[q].at = "plan"
    BY <1>4 DEF PlanRefresh
  <2>2. CASE ~ table.live
    BY <1>1, <1>4, <2>2 DEF PlanRefresh, GivesUp
  <2>3. CASE table.live
    <3>1. PICK files, source :
            /\ run' = [run EXCEPT ![q].status = "running"]
            /\ handler' = [handler EXCEPT ![q].at = "post", ![q].files = files, ![q].source = source]
      <4> DEFINE files == IF handler[q].full THEN Paths(CurrentFiles(table))
                          ELSE handler[q].files \cap Paths(CurrentFiles(table))
                 source == [id |-> table.id, n |-> CurrentSnapshot(table)]
      <4>1. /\ run' = [run EXCEPT ![q].status = "running"]
            /\ handler' = [handler EXCEPT ![q].at = "post", ![q].files = files, ![q].source = source]
        BY <1>4, <2>3 DEF PlanRefresh
      <4> HIDE DEF files, source
      <4> QED BY <4>1
    <3>2. run'[q].status = "running" /\ run'[q].table = run[q].table
      BY <1>0, <3>1 DEF Runs
    <3>3. /\ handler'[q].at = "post" /\ handler'[q].info = handler[q].info
          /\ handler'[q].full = handler[q].full
      BY <1>0, <3>1 DEF Handlers
    <3> QED BY <1>4, <2>1, <3>2, <3>3 DEF Plans
  <2> QED BY <2>2, <2>3
<1>5. CASE PostJob(q)
  <2>1. handler[q].at = "post" /\ run' = run
    BY <1>5 DEF PostJob, records
  <2>2. CASE EndRequest(q)
    BY <1>1, <2>1, <2>2 DEF GivesUp
  <2>3. CASE ~ EndRequest(q)
    <3>1. /\ handler' = [handler EXCEPT ![q].at = "insert", ![q].job = NextJob]
          /\ Post("refresh", handler[q].files)
      BY <1>0, <1>5, <2>3 DEF PostJob
    <3>2. /\ handler'[q].at = "insert" /\ handler'[q].info = handler[q].info
          /\ handler'[q].full = handler[q].full /\ handler'[q].source = handler[q].source
          /\ handler'[q].job = NextJob
      BY <1>0, <3>1 DEF Handlers
    <3> QED BY <1>5, <2>1, <3>1, <3>2 DEF Posts
  <2> QED BY <2>2, <2>3
<1>6. CASE InsertPublication(q)
  BY <1>1, <1>6 DEF InsertPublication, GivesUp
<1>7. ~ Queue(q) /\ ~ NotUploaded(q) /\ ~ PlanOptimize(q) /\ ~ PlanExpire(q) /\ ~ DropTable(q)
  BY <1>0 DEF Queue, NotUploaded, PlanOptimize, PlanExpire, DropTable
<1> QED BY <1>2, <1>3, <1>4, <1>5, <1>6, <1>7 DEF Serve

\* What is known of the publisher and of a refresh it is at.
LEMMA CurrentRefresh ==
    ASSUME TInv, RefreshesFit, publisher.at \notin {"idle", "next"}
    PROVE  /\ First(publisher.todo) \in DOMAIN pubs /\ Current = pubs[First(publisher.todo)]
           /\ Current.kind \in {"optimize", "delete"} => Current.of \notin Refreshes
           /\ Current.kind = "refresh" => /\ IsRefresh(First(publisher.todo)) /\ Current.of \in Refreshes
                                          /\ handler[Current.of].at = "over" /\ run[Current.of].status # "none"
                                          /\ Current.created = FALSE
<1>1. First(publisher.todo) \in DOMAIN pubs /\ Current = pubs[First(publisher.todo)]
  BY CurrentFacts DEF Current
<1> QED BY <1>1 DEF RefreshesFit, IsRefresh, Refreshes

\* A refresh moves by its handler, is settled, or is broken off.
LEMMA RefreshMoves ==
    ASSUME TInv, RunsFit, RefreshesFit, [Next]_vars, NEW q \in Refreshes
    PROVE  \/ handler'[q] = handler[q] /\ run'[q] = run[q]
           \/ GivesUp(q) \/ Comes(q) \/ Skips(q) \/ Finds(q) \/ Plans(q) \/ Posts(q) \/ Closes(q)
<1>0. /\ q \in Requests /\ q \in Maintenance /\ q.op = "refresh" /\ handler \in [Requests -> Handlers]
      /\ run \in [Maintenance -> Runs] /\ run[q] \in Runs /\ run[q].table = 0
  BY ConstantFacts DEF Refreshes, TInv, Shape, RunsFit
<1>1. \A id : id # 0 => RunsWithout(id)[q] = run[q]
  BY <1>0 DEF RunsWithout
<1>2. CASE \E r \in Requests : Serve(r)
  <2>1. PICK r \in Requests : Serve(r)
    BY <1>2
  <2>2. CASE r = q
    BY <2>1, <2>2, RefreshSteps
  <2>3. CASE r # q
    <3>1. EndRequest(r) => handler'[q] = handler[q]
      BY <1>0, <2>3 DEF EndRequest, At
    <3>2. CASE Arrive(r) \/ Queue(r) \/ NotUploaded(r)
      BY <1>0, <2>3, <3>1, <3>2 DEF Arrive, Queue, NotUploaded, At, records
    <3>3. CASE PlanOptimize(r) \/ PlanExpire(r)
      BY <1>0, <2>3, <3>1, <3>3 DEF PlanOptimize, PlanExpire
    <3>4. CASE FindAppended(r) \/ PlanRefresh(r)
      BY <1>0, <2>3, <3>1, <3>4 DEF FindAppended, PlanRefresh
    <3>5. CASE PostJob(r) \/ InsertPublication(r)
      BY <1>0, <2>3, <3>1, <3>5 DEF PostJob, InsertPublication, records
    <3>6. CASE DropTable(r)
      <4>1. handler'[q] = handler[q]
        BY <1>0, <2>3, <3>6 DEF DropTable
      <4>2. run'[q] = run[q]
        BY <1>1, <3>6, TableKnows DEF DropTable
      <4> QED BY <4>1, <4>2
    <3> QED BY <2>1, <3>2, <3>3, <3>4, <3>5, <3>6 DEF Serve
  <2> QED BY <2>2, <2>3
<1>3. CASE Publish
  <2>1. CASE Settle
    <3>1. publisher.at = "settle" /\ handler' = handler
      BY <2>1 DEF Settle
    <3>2. CASE Current.kind = "refresh" /\ Current.of = q
      <4>1. run' = [run EXCEPT ![q].status = "succeeded"]
        BY <2>1, <3>1, <3>2, CurrentRefresh DEF Settle, NoRun
      <4>2. run'[q].status = "succeeded" /\ run'[q].table = run[q].table
        BY <1>0, <4>1 DEF Runs
      <4> QED BY <2>1, <3>1, <3>2, <4>2 DEF Closes
    <3>3. CASE ~ (Current.kind = "refresh" /\ Current.of = q)
      <4>1. Current.kind \in {"ingest", "optimize", "delete", "refresh"}
        BY <3>1, CurrentFacts DEF TInv, PublisherFits, Pubs, Kinds
      <4>2. Current.kind # "ingest" => Current.of # q
        BY <3>1, <3>3, <4>1, CurrentRefresh
      <4>3. run' = run \/ (Current.kind # "ingest" /\ run' = [run EXCEPT ![Current.of].status = "succeeded"])
        BY <2>1 DEF Settle
      <4> QED BY <1>0, <3>1, <4>2, <4>3
    <3> QED BY <3>2, <3>3
  <2>2. CASE Fail
    <3>1. publisher.at = "fail" /\ handler' = handler
      BY <2>2 DEF Fail
    <3>2. \/ Current.created /\ IsThere(Current.table) /\ run' = RunsWithout(Current.table)
          \/ run' = run
          \/ Current.kind \in {"optimize", "delete", "refresh"} /\ run' = [run EXCEPT ![Current.of].status = "failed"]
      BY <2>2 DEF Fail
    <3>3. CASE IsThere(Current.table) /\ run' = RunsWithout(Current.table)
      <4>1. Current.table # 0
        BY <3>3, TableKnows DEF IsThere
      <4> QED BY <1>1, <3>1, <3>3, <4>1
    <3>4. CASE Current.kind \in {"optimize", "delete", "refresh"} /\ run' = [run EXCEPT ![Current.of].status = "failed"]
      <4>1. CASE Current.of = q
        <5>1. Current.kind = "refresh"
          BY <3>1, <3>4, <4>1, CurrentRefresh
        <5>2. run'[q].status = "failed" /\ run'[q].table = run[q].table
          BY <1>0, <3>4, <4>1 DEF Runs
        <5> QED BY <2>2, <3>1, <4>1, <5>1, <5>2 DEF Closes
      <4>2. CASE Current.of # q
        BY <1>0, <3>1, <3>4, <4>2
      <4> QED BY <4>1, <4>2
    <3> QED BY <3>1, <3>2, <3>3, <3>4
  <2>3. CASE ~ Settle /\ ~ Fail
    BY <1>3, <2>3 DEF Publish, Reconcile, Look, PassEnds, CreateTable, PostIngest, InsertIngest, Commit,
                      CommitRefresh, Mark, records
  <2> QED BY <2>1, <2>2, <2>3
<1>4. CASE Crash
  BY <1>0, <1>4, CrashFacts DEF Crash, GivesUp, records
<1>5. CASE (\E i \in Imports : CreateImport(i)) \/ (\E j \in Jobs : JobEnds(j))
  BY <1>5 DEF CreateImport, JobEnds, records
<1>6. CASE UNCHANGED vars
  BY <1>6 DEF vars
<1> QED BY <1>2, <1>3, <1>4, <1>5, <1>6 DEF Next

\* Who stores the publication of a refresh.
LEMMA StoredRefresh ==
    ASSUME TInv, NEW n, Stored(n), pubs'[n].kind \notin {"infer", "ingest"}
    PROVE  \E q \in Requests : /\ Asks(n, q) /\ handler[q].at = "insert" /\ pubs'[n].of = q
                               /\ pubs'[n].kind = "refresh" <=> q.op = "refresh"
<1>1. PICK q \in Requests : Asks(n, q)
  BY DEF Stored, Follow
<1>2. JobOf(q) \notin {"infer", "ingest"} /\ q.op # "drop" /\ handler[q].at = "insert"
  BY <1>1 DEF Asks, InsertPublication
<1>3. q.op # "complete" /\ (q.op = "refresh" <=> JobOf(q) = "refresh")
  BY <1>2, JobOfFacts DEF TInv
<1> QED BY <1>1, <1>2, <1>3 DEF Asks

\* How the view changes.
Shown(left) ==
    /\ view'.since = view.since /\ Len(view'.snaps) \in Nat
    /\ Adds(view, view', "append", Current.job, left, payload[Current.job].rows)
    /\ CurrentFiles(view)' = left \cup {Entry(Current.job, payload[Current.job].rows, Len(view'.snaps))}

\* A refresh is committed that has not been.
LEMMA CommitRefreshShows ==
    ASSUME TInv, CommitRefresh
    PROVE  \/ view' = view
           \/ /\ ~ InView(Current.job) /\ Current.full /\ Shown({})
           \/ /\ ~ InView(Current.job) /\ ~ Current.full /\ Shown(CurrentFiles(view))
<1>1. publisher.at = "commit" /\ Current.kind = "refresh"
  BY DEF CommitRefresh
<1>2. PICK p \in Pubs : p = Current /\ p.job \in Jobs /\ payload[p.job].rows \in SUBSET Jobs
  BY <1>1, CurrentFacts DEF Pubs, TInv, Shape, Works
<1>3. PICK how : how = IF p.full THEN "overwrite" ELSE "append"
  OBVIOUS
<1>4. view' = view \/ view' = CommitFiles(view, how, p.job, payload[p.job].rows)
  BY <1>1, <1>2, <1>3 DEF CommitRefresh, Written
<1>5. HasWrite(view, p.job) <=> InView(p.job)
  BY DEF HasWrite, InView, TInv, TablesFit
<1>6. CASE InView(p.job)
  BY <1>4, <1>5, <1>6 DEF CommitFiles
<1>7. ASSUME ~ InView(p.job), view' # view
      PROVE  Shown(Left(view, how))
  <2>1. PICK rows \in SUBSET Jobs : rows = payload[p.job].rows
    BY <1>2
  <2>2. PICK u : u = view'
    OBVIOUS
  <2>3. u = CommitFiles(view, how, p.job, rows) /\ view \in Views
    BY <1>4, <1>7, <2>1, <2>2, TableKnows
  <2>4. /\ u \in Views /\ u.since = view.since
        /\ Adds(view, u, "append", p.job, Left(view, how), rows)
    <3>1. ~ HasWrite(view, p.job) /\ p.job \in Jobs
      BY <1>2, <1>5, <1>7
    <3> QED BY <2>3, <3>1, ViewFilesCommitted
  <2>5. PICK n \in Nat : n = Len(u.snaps)
    BY <2>4, LenProperties DEF Views
  <2>6. n # 0 /\ u.snaps[n].files = Left(view, how) \cup {Entry(p.job, rows, n)}
    <3>1. PICK i \in Nat : i = Len(view.snaps) + 1 /\ i # 0
      BY TableKnows, LenProperties
    <3> QED BY <2>4, <2>5, <3>1, EntryFacts DEF Adds
  <2>7. CurrentFiles(u) = Left(view, how) \cup {Entry(p.job, rows, n)}
    BY <2>5, <2>6 DEF CurrentFiles, CurrentSnapshot, FilesAt
  <2>8. CurrentFiles(view)' = CurrentFiles(u)
    BY <2>2 DEF CurrentFiles, CurrentSnapshot, FilesAt
  <2> QED BY <1>2, <2>1, <2>2, <2>4, <2>5, <2>7, <2>8 DEF Shown
<1> QED BY <1>2, <1>3, <1>6, <1>7 DEF Left

\* The view is committed to, or only what is recorded of it changes.
LEMMA ViewMoves ==
    ASSUME TInv, [Next]_vars
    PROVE  \/ view'.snaps = view.snaps /\ view'.since = view.since
           \/ \E q \in Refreshes : /\ InsertPublication(q) /\ handler[q].at = "insert" /\ publisher' = publisher
                                   /\ view'.snaps = view.snaps /\ view'.since = handler[q].info
           \/ Settle /\ Current.kind = "refresh" /\ view'.snaps = view.snaps /\ view'.since = Current.source
           \/ CommitRefresh
<1>0. view \in Views
  BY DEF TInv, Shape
<1>1. CASE \E q \in Requests : Serve(q)
  <2>1. PICK q \in Requests : Serve(q)
    BY <1>1
  <2>2. CASE InsertPublication(q) /\ q.op = "refresh"
    <3>1. view'.snaps = view.snaps /\ view'.since = handler[q].info
      BY <1>0, <2>2 DEF InsertPublication, Views
    <3> QED BY <2>2, <3>1 DEF InsertPublication, Refreshes
  <2>3. CASE ~ (InsertPublication(q) /\ q.op = "refresh")
    BY <2>1, <2>3 DEF Serve, Arrive, Queue, NotUploaded, PlanOptimize, PlanExpire, FindAppended, PlanRefresh,
                      PostJob, InsertPublication, DropTable
  <2> QED BY <2>2, <2>3
<1>2. CASE Publish
  <2>1. CASE Settle
    <3>1. view' = view \/ (Current.kind = "refresh" /\ view' = [view EXCEPT !.status = "fresh", !.since = Current.source])
      BY <2>1 DEF Settle
    <3> QED BY <1>0, <2>1, <3>1 DEF Views
  <2>2. CASE Fail
    <3>1. view' = view \/ view' = [view EXCEPT !.status = "failed"]
      BY <2>2 DEF Fail
    <3> QED BY <1>0, <3>1 DEF Views
  <2>3. CASE ~ Settle /\ ~ Fail
    BY <1>2, <2>3 DEF Publish, Reconcile, Look, PassEnds, CreateTable, PostIngest, InsertIngest, Commit, Mark
  <2> QED BY <2>1, <2>2, <2>3
<1>3. CASE (\E i \in Imports : CreateImport(i)) \/ (\E j \in Jobs : JobEnds(j)) \/ Crash
  BY <1>3 DEF CreateImport, JobEnds, Crash
<1>4. CASE UNCHANGED vars
  BY <1>4 DEF vars
<1> QED BY <1>1, <1>2, <1>3, <1>4 DEF Next

\* What the publisher does with a refresh.
LEMMA RefreshIsAt ==
    ASSUME TInv, "error" \notin Faults, [Next]_vars, publisher' # publisher,
           publisher'.at \in {"commit", "settle", "fail", "mark"}
    PROVE  /\ publisher'.todo = publisher.todo /\ publisher.todo # {}
           /\ Current.kind = "refresh" => pubs' = pubs /\
                \/ Look /\ publisher'.at = "commit" /\ status[Current.job] = "succeeded"
                \/ Look /\ publisher'.at = "fail" /\ status[Current.job] \notin {"pending", "succeeded"}
                \/ CommitRefresh /\ publisher'.at = "settle"
                \/ (Settle \/ Fail) /\ publisher'.at = "mark"
<1>0. publisher \in Publishers
  BY DEF TInv, Shape
<1>1. CASE Publish
  <2>1. CASE Reconcile \/ PassEnds
    <3>1. publisher'.at \in {"next", "idle"}
      <4>1. CASE Reconcile
        <5>1. publisher' = [Resting EXCEPT !.at = "next", !.todo = Oldest(Pending)]
          BY <4>1 DEF Reconcile
        <5> QED BY <5>1 DEF Resting
      <4>2. CASE PassEnds
        BY <4>2 DEF PassEnds, Resting
      <4> QED BY <2>1, <4>1, <4>2
    <3> QED BY <3>1
  <2>2. CASE Mark
    BY <2>2, MarkFacts
  <2>3. CASE Look
    <3>1. publisher.todo # {} /\ pubs' = pubs
      BY <2>3 DEF Look
    <3>2. status[Current.job] # "pending"
      BY <1>0, <2>3 DEF Look, Publishers
    <3>3. publisher'.todo = publisher.todo
      BY <1>0, <2>3, <3>2 DEF Look, Publishers
    <3>4. status[Current.job] # "succeeded" => publisher'.at = "fail"
      BY <1>0, <2>3, <3>2 DEF Look, Publishers
    <3>5. status[Current.job] = "succeeded" /\ Current.kind = "refresh" => publisher'.at = "commit"
      BY <1>0, <2>3, <3>2 DEF Look, Publishers
    <3> QED BY <2>3, <3>1, <3>2, <3>3, <3>4, <3>5
  <2>4. CASE CreateTable \/ PostIngest \/ InsertIngest
    <3>1. publisher.at \in {"create", "post", "insert"} /\ publisher.todo # {} /\ Current.kind = "infer"
      BY <2>4 DEF CreateTable, PostIngest, InsertIngest, TInv, PublisherFits
    <3>2. publisher'.todo = publisher.todo
      BY <1>0, <2>4 DEF CreateTable, PostIngest, InsertIngest, GoOn, ToFail, Publishers
    <3> QED BY <3>1, <3>2
  <2>5. CASE Commit
    <3>1. publisher.todo # {} /\ Current.kind # "refresh"
      BY <2>5 DEF Commit, TInv, PublisherFits
    <3>2. publisher'.todo = publisher.todo
      BY <1>0, <2>5 DEF Commit, GoOn, ToFail, Publishers
    <3> QED BY <3>1, <3>2
  <2>6. CASE CommitRefresh
    <3>1. GoOn("settle") /\ publisher.at = "commit" /\ pubs' = pubs
      BY <2>6 DEF CommitRefresh, Fault
    <3>2. publisher'.todo = publisher.todo /\ publisher'.at = "settle" /\ publisher.todo # {}
      BY <1>0, <3>1 DEF GoOn, Publishers, TInv, PublisherFits
    <3> QED BY <2>6, <3>1, <3>2
  <2>7. CASE Settle
    <3>1. publisher.at = "settle" /\ pubs' = pubs /\ (ToFail \/ GoOn("mark")) /\ (Current.kind = "refresh" => GoOn("mark"))
      BY <2>7 DEF Settle
    <3>2. /\ publisher'.todo = publisher.todo /\ publisher.todo # {}
          /\ Current.kind = "refresh" => publisher'.at = "mark"
      BY <1>0, <3>1 DEF GoOn, ToFail, Publishers, TInv, PublisherFits
    <3> QED BY <2>7, <3>1, <3>2
  <2>8. CASE Fail
    <3>1. publisher.at = "fail" /\ pubs' = pubs /\ GoOn("mark")
      BY <2>8 DEF Fail
    <3>2. publisher'.todo = publisher.todo /\ publisher.todo # {} /\ publisher'.at = "mark"
      BY <1>0, <3>1 DEF GoOn, Publishers, TInv, PublisherFits
    <3> QED BY <2>8, <3>1, <3>2
  <2> QED BY <1>1, <2>1, <2>2, <2>3, <2>4, <2>5, <2>6, <2>7, <2>8 DEF Publish
<1>2. CASE \E q \in Requests : Serve(q)
  BY <1>2, ServeKeeps
<1>3. CASE (\E i \in Imports : CreateImport(i)) \/ (\E j \in Jobs : JobEnds(j))
  BY <1>3 DEF CreateImport, JobEnds
<1>4. CASE Crash
  BY <1>4 DEF Crash, Resting
<1>5. CASE UNCHANGED vars
  BY <1>5 DEF vars
<1> QED BY <1>1, <1>2, <1>3, <1>4, <1>5 DEF Next

\* A refresh that is open has been, and it is the publisher that closes it.
LEMMA OpenMoves ==
    ASSUME TInv, RunsFit, RefreshesFit, InTurn, [Next]_vars, NEW n \in DOMAIN pubs, IsRefresh(n)
    PROVE  /\ SamePub(n) /\ IsRefresh(n)' /\ handler'[pubs[n].of].at = "over" /\ run'[pubs[n].of].status # "none"
           /\ Open(n)' => Open(n)
           /\ Open(n) /\ ~ Open(n)' => (Settle \/ Fail) /\ n = First(publisher.todo)
<1>1. PICK q \in Refreshes : q = pubs[n].of /\ handler[q].at = "over" /\ run[q].status # "none"
  BY DEF RefreshesFit
<1>2. SamePub(n) /\ pubs'[n].of = q /\ pubs'[n].kind = "refresh" /\ pubs[n].kind = "refresh"
  BY <1>1, PubsAre DEF SamePub, IsRefresh
<1>3. Open(n) <=> run[q].status = "running"
  BY <1>1, <1>2 DEF Open, IsRefresh
<1>4. Open(n)' <=> run'[q].status = "running"
  BY <1>2 DEF Open, IsRefresh
<1>5. q \in Requests
  BY DEF Refreshes
<1>6. handler'[q].at = "over"
  BY <1>1, <1>5, OverStays
<1>7. run'[q] = run[q] \/ Closes(q)
  BY <1>1, RefreshMoves DEF GivesUp, Comes, Skips, Finds, Plans, Posts
<1>8. ASSUME Closes(q), Open(n) PROVE n = First(publisher.todo)
  <2>1. publisher.at \in {"settle", "fail"}
    BY <1>8 DEF Closes, Settle, Fail
  <2>2. PICK m \in DOMAIN pubs : m = First(publisher.todo) /\ Current = pubs[m]
    BY <2>1, CurrentRefresh
  <2>3. IsRefresh(m) /\ Open(m)
    BY <1>1, <1>3, <1>8, <2>2 DEF Closes, IsRefresh, Open
  <2>4. n \in Nat /\ m \in Nat
    <3>1. pubs \in Seq(Pubs)
      BY DEF TInv, Shape
    <3> QED BY <3>1
  <2>5. ~ (n < m) /\ ~ (m < n)
    BY <1>8, <2>3 DEF InTurn
  <2> QED BY <2>2, <2>4, <2>5
<1> QED BY <1>1, <1>2, <1>3, <1>4, <1>6, <1>7, <1>8 DEF IsRefresh, Closes

\* A refresh that keeps others from beginning has done so, or begins.
LEMMA BusyMoves ==
    ASSUME TInv, RunsFit, RefreshesFit, [Next]_vars, NEW q \in Refreshes, Busy(q)'
    PROVE  Busy(q) \/ Comes(q)
BY RefreshMoves DEF Busy, Serving, GivesUp, Comes, Skips, Finds, Plans, Posts, Closes

\* One at a time.
LEMMA NextOneBusy ==
    ASSUME TInv, RunsFit, RefreshesFit, OneBusy, OneRefresh', [Next]_vars PROVE OneBusy'
<1> SUFFICES ASSUME NEW q \in Refreshes, NEW r \in Refreshes, Busy(q)', Busy(r)' PROVE q = r
  BY DEF OneBusy, Refreshes
<1>1. ASSUME NEW x \in Refreshes, Comes(x), NEW y \in Refreshes, Busy(y)'
      PROVE  Serving(x)' /\ Serving(y)'
  <2>1. run[y].table = 0 /\ y \in Maintenance /\ run[y] \in Runs
    BY ConstantFacts DEF RunsFit, TInv, Shape, Refreshes
  <2>2. run[y].status # "running"
    <3> SUFFICES ASSUME run[y].status = "running" PROVE FALSE
      OBVIOUS
    <3>1. run[y] = [status |-> "running", table |-> 0]
      BY <2>1 DEF Runs
    <3> QED BY <1>1, <2>1, <3>1 DEF Comes, Running
  <2>3. run' = run
    BY <1>1 DEF Comes
  <2> QED BY <1>1, <2>2, <2>3 DEF Comes, Busy, Serving
<1>2. CASE Comes(q) \/ Comes(r)
  <2>1. Serving(q)' /\ Serving(r)'
    BY <1>1, <1>2
  <2> QED BY <2>1 DEF OneRefresh, Refreshes
<1>3. CASE ~ Comes(q) /\ ~ Comes(r)
  BY <1>3, BusyMoves DEF OneBusy
<1> QED BY <1>2, <1>3

\* A refresh whose job is asked for is recorded as running.
LEMMA NextRunsFit == ASSUME TInv, RunsFit, RefreshesFit, [Next]_vars PROVE RunsFit'
<1> SUFFICES ASSUME NEW q \in Refreshes
             PROVE  run'[q].table = 0 /\ (handler'[q].at \in {"post", "insert"} => run'[q].status = "running")
  BY DEF RunsFit, Refreshes
<1>1. run[q].table = 0 /\ (handler[q].at \in {"post", "insert"} => run[q].status = "running")
  BY DEF RunsFit
<1>2. CASE Closes(q)
  <2>1. handler'[q].at = "over"
    <3>1. publisher.at \notin {"idle", "next"}
      BY <1>2 DEF Closes, Settle, Fail
    <3> QED BY <1>2, <3>1, CurrentRefresh DEF Closes
  <2> QED BY <1>1, <1>2, <2>1 DEF Closes
<1>3. CASE ~ Closes(q)
  BY <1>1, <1>3, RefreshMoves DEF GivesUp, Comes, Skips, Finds, Plans, Posts
<1> QED BY <1>2, <1>3

\* A publication of a refresh that is stored is open, and the only one.
LEMMA StoredIsOpen ==
    ASSUME TInv, RunsFit, RefreshesFit, OneBusy, [Next]_vars, NEW n, Stored(n), pubs'[n].kind = "refresh"
    PROVE  /\ pubs'[n].of \in Refreshes /\ handler'[pubs'[n].of].at = "over" /\ Open(n)'
           /\ publisher' = publisher /\ view'.snaps = view.snaps
           /\ \A m \in DOMAIN pubs : ~ Open(m)
<1>1. PICK q \in Requests : Asks(n, q) /\ handler[q].at = "insert" /\ pubs'[n].of = q /\ q.op = "refresh"
  BY StoredRefresh
<1>2. q \in Refreshes
  BY <1>1 DEF Refreshes
<1>3. /\ EndRequest(q) /\ publisher' = publisher /\ run' = run /\ view'.snaps = view.snaps
  <2>1. view' = [view EXCEPT !.status = "refreshing", !.since = handler[q].info] /\ view \in Views
    BY <1>1 DEF Asks, InsertPublication, TInv, Shape
  <2>2. view'.snaps = view.snaps
    BY <2>1 DEF Views
  <2> QED BY <1>1, <2>2 DEF Asks, InsertPublication
<1>4. handler'[q].at = "over"
  BY <1>3, OverFacts
<1>5. run'[q].status = "running" /\ Busy(q)
  BY <1>1, <1>2, <1>3 DEF RunsFit, Busy, Serving
<1>6. \A m \in DOMAIN pubs : ~ Open(m)
  <2> SUFFICES ASSUME NEW m \in DOMAIN pubs, Open(m) PROVE FALSE
    OBVIOUS
  <2>1. pubs[m].of \in Refreshes /\ handler[pubs[m].of].at = "over" /\ Busy(pubs[m].of)
    BY DEF Open, RefreshesFit, Busy
  <2> QED BY <1>1, <1>2, <1>5, <2>1 DEF OneBusy
<1> QED BY <1>1, <1>2, <1>3, <1>4, <1>5, <1>6 DEF Open, IsRefresh

\* A publication is settled by being marked so.
LEMMA MarkedBy ==
    ASSUME TInv, [Next]_vars, NEW n \in DOMAIN pubs, pubs[n].state = "pending", pubs'[n].state # "pending"
    PROVE  Mark /\ publisher.at = "mark" /\ n = First(publisher.todo)
<1>0. pubs \in Seq(Pubs)
  BY DEF TInv, Shape
<1>1. ASSUME NEW p, pubs' = Append(pubs, p) PROVE pubs'[n] = pubs[n]
  <2>1. \A S \in Seq(Pubs) : \A k \in DOMAIN S : \A x : Append(S, x)[k] = S[k]
    OBVIOUS
  <2> QED BY <1>0, <1>1, <2>1
<1>2. CASE InsertIngest
  <2>1. \E p : pubs' = Append(pubs, p)
    BY <1>2 DEF InsertIngest
  <2> QED BY <1>1, <2>1
<1>3. CASE \E q \in Requests : InsertPublication(q)
  <2>1. \E p : pubs' = Append(pubs, p)
    BY <1>3 DEF InsertPublication
  <2> QED BY <1>1, <2>1
<1>4. CASE Mark
  <2>1. n # First(publisher.todo) => pubs'[n] = pubs[n]
    BY <1>4, MarkFacts
  <2> QED BY <1>4, <2>1 DEF Mark
<1> QED BY <1>2, <1>3, <1>4, PubsMove

\* The publication of a refresh stays open until the refresh is settled.
LEMMA NextRefreshesFit ==
    ASSUME TInv, RunsFit, RefreshesFit, OneBusy, InTurn, AtRefresh, SeenFits, [Next]_vars PROVE RefreshesFit'
<1>1. ASSUME NEW n \in DOMAIN pubs', pubs'[n].kind \in {"optimize", "delete"} PROVE pubs'[n].of.op # "refresh"
  <2>1. CASE n \in DOMAIN pubs
    <3>1. pubs'[n].kind = pubs[n].kind /\ pubs'[n].of = pubs[n].of
      BY <2>1, PubsAre DEF SamePub
    <3> QED BY <1>1, <2>1, <3>1 DEF RefreshesFit
  <2>2. CASE Stored(n)
    BY <1>1, <2>2, StoredRefresh
  <2> QED BY <1>1, <2>1, <2>2, PubsAre
<1>2. ASSUME NEW n \in DOMAIN pubs, IsRefresh(n)'
      PROVE  /\ pubs'[n].of \in Refreshes /\ handler'[pubs'[n].of].at = "over" /\ run'[pubs'[n].of].status # "none"
             /\ pubs'[n].created = FALSE
             /\ ~ Open(n)' => status'[pubs'[n].job] # "pending"
             /\ pubs'[n].state # "pending" => ~ Open(n)'
  <2>1. SamePub(n) /\ pubs'[n].job = pubs[n].job /\ pubs'[n].of = pubs[n].of
    BY PubsAre DEF SamePub
  <2>2. IsRefresh(n) /\ pubs[n].kind = "refresh"
    BY <1>2, <2>1 DEF SamePub, IsRefresh
  <2>3. /\ pubs[n].of \in Refreshes /\ handler[pubs[n].of].at = "over" /\ pubs'[n].created = FALSE
        /\ ~ Open(n) => status[pubs[n].job] # "pending"
        /\ pubs[n].state # "pending" => ~ Open(n)
    BY <2>1, <2>2 DEF RefreshesFit, SamePub
  <2>4. /\ handler'[pubs[n].of].at = "over" /\ run'[pubs[n].of].status # "none" /\ (Open(n)' => Open(n))
        /\ Open(n) /\ ~ Open(n)' => (Settle \/ Fail) /\ n = First(publisher.todo)
    BY <2>2, OpenMoves
  <2>5. pubs[n].job \in Accepted
    BY DEF TInv, PubsFit, PubFits
  <2>6. Open(n) /\ ~ Open(n)' => status[pubs[n].job] # "pending"
    <3> SUFFICES ASSUME Open(n), ~ Open(n)' PROVE status[pubs[n].job] # "pending"
      OBVIOUS
    <3>1. Current = pubs[n] /\ publisher.at \in {"settle", "fail"}
      BY <2>4 DEF Current, Settle, Fail
    <3>2. pubs[n].job \in Jobs
      BY <2>5 DEF Accepted
    <3> QED BY <2>2, <3>1, <3>2 DEF AtRefresh, SeenFits
  <2>7. pubs[n].state = "pending" /\ pubs'[n].state # "pending" => ~ Open(n)
    <3> SUFFICES ASSUME pubs[n].state = "pending", pubs'[n].state # "pending" PROVE ~ Open(n)
      OBVIOUS
    <3>1. publisher.at = "mark" /\ n = First(publisher.todo) /\ Current = pubs[n]
      BY MarkedBy DEF Current
    <3> QED BY <2>2, <3>1 DEF AtRefresh
  <2> QED BY <2>1, <2>3, <2>4, <2>5, <2>6, <2>7, EndedStays
<1>3. ASSUME NEW n, Stored(n), IsRefresh(n)'
      PROVE  /\ pubs'[n].of \in Refreshes /\ handler'[pubs'[n].of].at = "over" /\ run'[pubs'[n].of].status # "none"
             /\ pubs'[n].created = FALSE
             /\ Open(n)'
  <2>1. pubs'[n].kind = "refresh"
    BY <1>3 DEF IsRefresh
  <2>2. pubs'[n].of \in Refreshes /\ handler'[pubs'[n].of].at = "over" /\ Open(n)'
    BY <1>3, <2>1, StoredIsOpen
  <2>3. pubs'[n].created = FALSE
    BY <1>3, <2>1, StoredRefresh DEF Asks
  <2> QED BY <2>2, <2>3 DEF Open
<1>4. \A n \in DOMAIN pubs' : IsRefresh(n)' =>
         /\ pubs'[n].of \in Refreshes /\ handler'[pubs'[n].of].at = "over" /\ run'[pubs'[n].of].status # "none"
         /\ pubs'[n].created = FALSE
         /\ ~ Open(n)' => status'[pubs'[n].job] # "pending"
         /\ pubs'[n].state # "pending" => ~ Open(n)'
  <2> SUFFICES ASSUME NEW n \in DOMAIN pubs', IsRefresh(n)'
               PROVE  /\ pubs'[n].of \in Refreshes /\ handler'[pubs'[n].of].at = "over" /\ run'[pubs'[n].of].status # "none"
                      /\ pubs'[n].created = FALSE
                      /\ ~ Open(n)' => status'[pubs'[n].job] # "pending"
                      /\ pubs'[n].state # "pending" => ~ Open(n)'
    OBVIOUS
  <2>1. CASE n \in DOMAIN pubs
    BY <1>2, <2>1
  <2>2. CASE Stored(n)
    <3>1. pubs'[n].state = "pending"
      <4>1. pubs \in Seq(Pubs) /\ n \notin DOMAIN pubs
        BY <2>2 DEF TInv, Shape, Stored
      <4>2. ASSUME NEW p, pubs' = Append(pubs, p), p.state = "pending" PROVE pubs'[n].state = "pending"
        <5>1. n = Len(pubs) + 1
          BY <4>1, <4>2
        <5>2. pubs'[Len(pubs) + 1] = p
          BY <4>1, <4>2
        <5> QED BY <4>2, <5>1, <5>2
      <4>3. \E p : pubs' = Append(pubs, p) /\ p.state = "pending"
        <5>1. ASSUME NEW q, InsertPublication(q) PROVE \E p : pubs' = Append(pubs, p) /\ p.state = "pending"
          <6> DEFINE b == Publication(JobOf(q), IF q.op = "complete" THEN q.of ELSE q, handler[q].job, handler[q].table)
          <6>1. PICK p : p = [b EXCEPT !.full = handler[q].full, !.source = handler[q].source]
            OBVIOUS
          <6>2. p.state = "pending"
            BY <6>1 DEF Publication
          <6> QED BY <5>1, <6>1, <6>2 DEF InsertPublication
        <5>2. ASSUME InsertIngest PROVE \E p : pubs' = Append(pubs, p) /\ p.state = "pending"
          <6>1. PICK p : p = [Publication("ingest", Current.of, publisher.job, table.id) EXCEPT !.created = TRUE]
            OBVIOUS
          <6>2. p.state = "pending"
            BY <6>1 DEF Publication
          <6> QED BY <5>2, <6>1, <6>2 DEF InsertIngest
        <5> QED BY <2>2, <5>1, <5>2 DEF Stored, Asks, Follow
      <4> QED BY <4>2, <4>3
    <3> QED BY <1>3, <2>2, <3>1
  <2> QED BY <2>1, <2>2, PubsAre
<1> QED BY <1>1, <1>4 DEF RefreshesFit, Refreshes

\* And refreshes are settled in their order.
LEMMA NextInTurn ==
    ASSUME TInv, RunsFit, RefreshesFit, OneBusy, InTurn, [Next]_vars PROVE InTurn'
<1> SUFFICES ASSUME NEW n \in DOMAIN pubs', NEW m \in DOMAIN pubs', IsRefresh(n)', IsRefresh(m)', n < m
             PROVE  ~ Open(n)' /\ Follows(n, m)'
  BY DEF InTurn
<1>1. pubs \in Seq(Pubs) /\ publisher.todo \subseteq DOMAIN pubs
  BY DEF TInv, Shape, PublisherFits
<1>2. n \in DOMAIN pubs
  <2> SUFFICES ASSUME Stored(n) PROVE FALSE
    BY PubsAre
  <2>1. n \notin DOMAIN pubs /\ m # n /\ n \in Nat /\ m \in Nat
    <3>1. DOMAIN pubs' \subseteq Nat
      <4>1. TInv'
        BY NextTInv
      <4>2. pubs' \in Seq(Pubs)
        BY <4>1 DEF TInv, Shape
      <4> QED BY <4>2
    <3> QED BY <3>1 DEF Stored
  <2>2. m \in DOMAIN pubs
    BY <2>1, PubsAre
  <2>3. m < n
    BY <2>2 DEF Stored
  <2> QED BY <2>1, <2>3
<1>3. SamePub(n) /\ IsRefresh(n) /\ pubs'[n].job = pubs[n].job /\ pubs[n].job \in Accepted
  BY <1>2, PubsAre DEF SamePub, IsRefresh, TInv, PubsFit, PubFits
<1>4. ~ Open(n) /\ status[pubs[n].job] # "pending" /\ (pubs[n].state = "pending" /\ m \in publisher.todo => n \in publisher.todo)
  <2>1. CASE m \in DOMAIN pubs
    <3>1. IsRefresh(m)
      BY <2>1, PubsAre DEF SamePub, IsRefresh
    <3> QED BY <1>2, <1>3, <2>1, <3>1 DEF InTurn, Follows
  <2>2. CASE Stored(m)
    <3>1. ~ Open(n) /\ m \notin publisher.todo
      BY <1>1, <1>2, <2>2, StoredIsOpen DEF Stored, IsRefresh
    <3> QED BY <1>2, <1>3, <3>1 DEF RefreshesFit
  <2> QED BY <2>1, <2>2, PubsAre
<1>5. ~ Open(n)'
  BY <1>2, <1>3, <1>4, OpenMoves
<1>6. status'[pubs'[n].job] # "pending"
  BY <1>3, <1>4, EndedStays
<1>7. pubs'[n].state = "pending" /\ m \in publisher'.todo => n \in publisher'.todo
  BY <1>2, <1>3, <1>4, TodoStays DEF SamePub
<1> QED BY <1>5, <1>6, <1>7 DEF Follows

\* What is in the view stays there, and only the publisher puts more into it.
LEMMA ViewGrows ==
    ASSUME TInv, [Next]_vars
    PROVE  /\ \A j : InView(j) => InView(j)'
           /\ \A j : InView(j)' => InView(j) \/ (CommitRefresh /\ j = Current.job)
<1>1. CASE view'.snaps = view.snaps
  BY <1>1 DEF InView
<1>2. ASSUME CommitRefresh, NEW left, Shown(left)
      PROVE  /\ \A j : InView(j) => InView(j)'
             /\ \A j : InView(j)' => InView(j) \/ j = Current.job
  <2>1. PICK i, n : i = Len(view.snaps) + 1 /\ n = Len(view'.snaps)
    OBVIOUS
  <2>2. /\ DOMAIN view'.snaps = DOMAIN view.snaps \cup {i, n}
        /\ \A k \in DOMAIN view.snaps : view'.snaps[k] = view.snaps[k]
        /\ view'.snaps[i].write = Current.job /\ view'.snaps[n].write = Current.job
    BY <1>2, <2>1, EntryFacts DEF Shown, Adds
  <2> QED BY <2>2 DEF InView
<1>3. CASE CommitRefresh
  BY <1>1, <1>2, <1>3, CommitRefreshShows
<1> QED BY <1>1, <1>3, ViewMoves

\* What has been committed is in the view.
LEMMA CommitRefreshPuts ==
    ASSUME TInv, CommitRefresh, publisher'.at = "settle", NEW j, j = Current.job PROVE InView(j)'
<1>1. publisher.at = "commit" /\ Current.kind = "refresh"
  BY DEF CommitRefresh
<1>2. PICK p \in Pubs : p = Current /\ p.job = j /\ j \in Jobs /\ payload[p.job].rows \in SUBSET Jobs
  BY <1>1, CurrentFacts DEF Pubs, TInv, Shape, Works
<1>3. PICK how : how = IF p.full THEN "overwrite" ELSE "append"
  OBVIOUS
<1>4. view' = CommitFiles(view, how, p.job, payload[p.job].rows)
  <2>1. ~ ToFail
    BY <1>1, CurrentFacts DEF ToFail, Publishers
  <2> QED BY <1>1, <1>2, <1>3, <2>1 DEF CommitRefresh, Written
<1>5. CASE HasWrite(view, p.job)
  BY <1>2, <1>5, ViewGrows DEF HasWrite, InView, TInv, TablesFit, Next, Publish
<1>6. CASE ~ HasWrite(view, p.job)
  <2>1. PICK rows \in SUBSET Jobs : rows = payload[p.job].rows
    BY <1>2
  <2>2. PICK u : u = view'
    OBVIOUS
  <2>3. u = CommitFiles(view, how, p.job, rows) /\ view \in Views
    BY <1>4, <2>1, <2>2, TableKnows
  <2>4. Adds(view, u, "append", p.job, Left(view, how), rows)
    BY <1>2, <1>6, <2>3, ViewFilesCommitted
  <2>5. PICK n : n = Len(u.snaps)
    OBVIOUS
  <2>6. n \in DOMAIN view'.snaps /\ view'.snaps[n].write = p.job
    BY <2>2, <2>4, <2>5, EntryFacts DEF Adds
  <2> QED BY <1>2, <2>6 DEF InView
<1> QED BY <1>5, <1>6

\* A refresh that has been settled is not open any more.
LEMMA ClosesRefresh ==
    ASSUME TInv, RefreshesFit, Settle \/ Fail, Current.kind = "refresh"
    PROVE  /\ run'[Current.of].status \in {"succeeded", "failed"}
           /\ publisher'.at = "mark" /\ pubs' = pubs /\ publisher'.todo = publisher.todo
<1>0. /\ publisher.at \in {"settle", "fail"} /\ Current.of \in Refreshes /\ Current.of \in Maintenance
      /\ run[Current.of].status # "none" /\ Current.created = FALSE /\ run \in [Maintenance -> Runs]
  BY CurrentRefresh, ConstantFacts DEF Settle, Fail, TInv, Shape, Refreshes
<1>1. CASE Settle
  <2>1. run' = [run EXCEPT ![Current.of].status = "succeeded"]
    BY <1>0, <1>1 DEF Settle, NoRun
  <2>2. GoOn("mark") /\ pubs' = pubs
    BY <1>1 DEF Settle
  <2> QED BY <1>0, <2>1, <2>2, GoOnFacts DEF Runs
<1>2. CASE Fail
  <2>1. run' = [run EXCEPT ![Current.of].status = "failed"]
    BY <1>0, <1>2 DEF Fail, NoRun
  <2>2. GoOn("mark") /\ pubs' = pubs
    BY <1>2 DEF Fail
  <2> QED BY <1>0, <2>1, <2>2, GoOnFacts DEF Runs
<1> QED BY <1>1, <1>2

\* The publisher knows how it stands with a refresh.
LEMMA NextAtRefresh ==
    ASSUME TInv, "error" \notin Faults, RunsFit, RefreshesFit, InTurn, AtRefresh, [Next]_vars PROVE AtRefresh'
<1> SUFFICES ASSUME publisher'.at \in {"commit", "settle", "fail", "mark"}, NEW n, n = First(publisher'.todo),
                    pubs'[n].kind = "refresh", NEW j, j = pubs'[n].job
             PROVE  /\ publisher'.at = "commit" => status'[j] = "succeeded"
                    /\ publisher'.at = "settle" => InView(j)'
                    /\ publisher'.at = "fail" => status'[j] \notin {"pending", "succeeded"}
                    /\ publisher'.at = "mark" => ~ Open(n)'
  BY DEF AtRefresh, Current
<1>1. publisher'.todo = publisher.todo /\ publisher.todo # {}
  BY RefreshIsAt DEF TInv, PublisherFits
<1>2. n \in DOMAIN pubs /\ n = First(publisher.todo) /\ Current = pubs[n]
  BY <1>1, CurrentFacts DEF Current
<1>3. pubs'[n].kind = pubs[n].kind /\ pubs'[n].job = pubs[n].job /\ pubs'[n].of = pubs[n].of
  BY <1>2, PubsAre DEF SamePub
<1>4. IsRefresh(n) /\ Current.kind = "refresh" /\ Current.job = j /\ j \in Accepted
  BY <1>2, <1>3 DEF IsRefresh, TInv, PubsFit, PubFits
<1>5. status[j] # "pending" => status'[j] = status[j]
  BY <1>4, JobsStay
<1>6. CASE publisher' = publisher
  <2>1. publisher'.at = "mark" => ~ Open(n)'
    BY <1>2, <1>4, <1>6, OpenMoves DEF AtRefresh
  <2> QED BY <1>4, <1>5, <1>6, <2>1, ViewGrows DEF AtRefresh
<1>7. CASE publisher' # publisher
  <2>1. \/ Look /\ publisher'.at = "commit" /\ status[j] = "succeeded"
        \/ Look /\ publisher'.at = "fail" /\ status[j] \notin {"pending", "succeeded"}
        \/ CommitRefresh /\ publisher'.at = "settle"
        \/ (Settle \/ Fail) /\ publisher'.at = "mark"
    BY <1>4, <1>7, RefreshIsAt
  <2>2. CASE CommitRefresh /\ publisher'.at = "settle"
    BY <1>4, <2>2, CommitRefreshPuts
  <2>3. CASE (Settle \/ Fail) /\ publisher'.at = "mark"
    <3>1. run'[pubs'[n].of].status # "running"
      BY <1>2, <1>3, <1>4, <2>3, ClosesRefresh
    <3> QED BY <2>3, <3>1 DEF Open
  <2>4. CASE Look
    BY <1>5, <2>1, <2>4 DEF Look, CommitRefresh, Settle, Fail
  <2> QED BY <2>1, <2>2, <2>3, <2>4
<1> QED BY <1>6, <1>7

\* Only a job that has succeeded is committed to the view.
LEMMA NextSeenFits == ASSUME TInv, AtRefresh, SeenFits, [Next]_vars PROVE SeenFits'
<1> SUFFICES ASSUME NEW j \in Jobs, InView(j)'
             PROVE  status'[j] = "succeeded" /\ \E n \in DOMAIN pubs' : pubs'[n].job = j
  BY DEF SeenFits
<1>1. status[j] = "succeeded" /\ \E n \in DOMAIN pubs : pubs[n].job = j
  <2>1. CASE InView(j)
    BY <2>1 DEF SeenFits
  <2>2. CASE CommitRefresh /\ j = Current.job
    <3>1. First(publisher.todo) \in DOMAIN pubs /\ Current = pubs[First(publisher.todo)]
      BY <2>2, CurrentFacts DEF CommitRefresh, Current
    <3> QED BY <2>2, <3>1 DEF AtRefresh, CommitRefresh
  <2> QED BY <2>1, <2>2, ViewGrows
<1>2. status'[j] = "succeeded"
  BY <1>1, JobsStay DEF Accepted
<1> QED BY <1>1, <1>2, PubsAre DEF SamePub

\* What the view says it has been read from changes when an open refresh is settled.
LEMMA SinceMoves ==
    ASSUME TInv, RefreshesFit, AtRefresh, ReplaysFit, InfoFits, [Next]_vars
    PROVE  \/ view'.since = view.since
           \/ /\ Settle /\ view'.since = Current.source /\ First(publisher.todo) \in DOMAIN pubs
              /\ Current = pubs[First(publisher.todo)] /\ Open(First(publisher.todo)) /\ InView(Current.job)
<1>1. CASE CommitRefresh
  BY <1>1, CommitRefreshShows DEF Shown
<1>2. ASSUME NEW q \in Refreshes, handler[q].at = "insert", view'.since = handler[q].info
      PROVE  view'.since = view.since
  BY <1>2 DEF InfoFits, Serving
<1>3. ASSUME Settle, Current.kind = "refresh", view'.since = Current.source
      PROVE  \/ view'.since = view.since
             \/ /\ First(publisher.todo) \in DOMAIN pubs /\ Current = pubs[First(publisher.todo)]
                /\ Open(First(publisher.todo)) /\ InView(Current.job)
  <2>1. publisher.at = "settle"
    BY <1>3 DEF Settle
  <2>2. /\ First(publisher.todo) \in DOMAIN pubs /\ Current = pubs[First(publisher.todo)]
        /\ IsRefresh(First(publisher.todo)) /\ Current.state = "pending"
    BY <1>3, <2>1, CurrentRefresh, CurrentFacts
  <2>3. InView(Current.job)
    BY <1>3, <2>1 DEF AtRefresh
  <2> QED BY <1>3, <2>2, <2>3 DEF ReplaysFit
<1> QED BY <1>1, <1>2, <1>3, ViewMoves

\* Two refreshes are not open at the same time, nor is one while another is served.
LEMMA OneOpen ==
    ASSUME TInv, RefreshesFit, OneBusy, InTurn, NEW n \in DOMAIN pubs, Open(n)
    PROVE  /\ \A m \in DOMAIN pubs : Open(m) => m = n
           /\ \A q \in Refreshes : ~ Serving(q)
<1>1. ASSUME NEW m \in DOMAIN pubs, Open(m) PROVE m = n
  <2>1. n \in Nat /\ m \in Nat
    <3>1. pubs \in Seq(Pubs)
      BY DEF TInv, Shape
    <3> QED BY <3>1
  <2>2. ~ (n < m) /\ ~ (m < n)
    BY <1>1 DEF InTurn, Open
  <2> QED BY <2>1, <2>2
<1>2. ASSUME NEW q \in Refreshes, Serving(q) PROVE FALSE
  <2>1. pubs[n].of \in Refreshes /\ handler[pubs[n].of].at = "over" /\ Busy(pubs[n].of)
    BY DEF Open, RefreshesFit, Busy
  <2>2. q = pubs[n].of
    BY <1>2, <2>1 DEF OneBusy, Busy
  <2> QED BY <1>2, <2>1, <2>2 DEF Serving
<1> QED BY <1>1, <1>2

\* A refresh that is settled again changes nothing.
LEMMA NextReplaysFit ==
    ASSUME TInv, RunsFit, RefreshesFit, OneBusy, InTurn, AtRefresh, SeenFits, ReplaysFit, InfoFits, [Next]_vars
    PROVE  ReplaysFit'
<1> SUFFICES ASSUME NEW n \in DOMAIN pubs', IsRefresh(n)', ~ Open(n)', pubs'[n].state = "pending",
                    NEW j, j = pubs'[n].job
             PROVE  /\ InView(j)' => pubs'[n].source = view'.since
                    /\ ~ InView(j)' => status'[j] # "succeeded"
  BY DEF ReplaysFit
<1>1. n \in DOMAIN pubs
  BY PubsAre, StoredIsOpen DEF IsRefresh
<1>2. /\ IsRefresh(n) /\ pubs[n].kind = "refresh" /\ pubs[n].state = "pending" /\ pubs'[n].source = pubs[n].source
      /\ pubs[n].job = j /\ j \in Accepted
  BY <1>1, PubsAre DEF SamePub, IsRefresh, TInv, PubsFit, PubFits
<1>3. CASE Open(n)
  <2>1. (Settle \/ Fail) /\ n = First(publisher.todo) /\ Current = pubs[n]
    BY <1>1, <1>2, <1>3, OpenMoves DEF Current
  <2>2. CASE Settle
    <3>1. InView(j)
      BY <1>2, <2>1, <2>2 DEF Settle, AtRefresh
    <3>2. view' = [view EXCEPT !.status = "fresh", !.since = Current.source]
      BY <1>2, <2>1, <2>2 DEF Settle
    <3>3. view'.since = Current.source
      BY <3>2, TableKnows DEF Views
    <3> QED BY <1>2, <2>1, <3>1, <3>3, ViewGrows
  <2>3. CASE Fail
    <3>1. status[j] \notin {"pending", "succeeded"}
      BY <1>2, <2>1, <2>3 DEF Fail, AtRefresh
    <3>2. ~ InView(j)
      BY <1>2, <3>1 DEF SeenFits, Accepted
    <3>3. ~ InView(j)'
      BY <2>3, <3>2, ViewGrows DEF Fail, CommitRefresh
    <3> QED BY <1>2, <3>1, <3>3, JobsStay
  <2> QED BY <2>1, <2>2, <2>3
<1>4. CASE ~ Open(n)
  <2>1. CASE InView(j)
    <3>1. pubs[n].source = view.since
      BY <1>1, <1>2, <1>4, <2>1 DEF ReplaysFit
    <3>2. view'.since = view.since
      <4> SUFFICES ASSUME Settle, First(publisher.todo) \in DOMAIN pubs, Open(First(publisher.todo)) PROVE FALSE
        BY SinceMoves
      <4>1. PICK m \in DOMAIN pubs : m = First(publisher.todo) /\ Open(m) /\ IsRefresh(m) /\ m \in publisher.todo
        BY CurrentFacts DEF Settle, Open
      <4>2. n \in Nat /\ m \in Nat /\ \A k \in publisher.todo : m <= k
        <5>1. pubs \in Seq(Pubs)
          BY DEF TInv, Shape
        <5> QED BY <4>1, <5>1, CurrentFacts DEF Settle
      <4>3. ~ (m < n)
        BY <1>1, <1>2, <4>1 DEF InTurn
      <4>4. n < m
        BY <1>4, <4>1, <4>2, <4>3
      <4>5. n \in publisher.todo
        BY <1>1, <1>2, <4>1, <4>4 DEF InTurn, Follows
      <4> QED BY <4>2, <4>4, <4>5
    <3> QED BY <1>2, <2>1, <3>1, <3>2, ViewGrows
  <2>2. CASE ~ InView(j)
    <3>1. status[j] \notin {"pending", "succeeded"}
      BY <1>1, <1>2, <1>4, <2>2 DEF ReplaysFit, RefreshesFit
    <3>2. ~ InView(j)'
      BY <2>2, <3>1, ViewGrows DEF AtRefresh, CommitRefresh
    <3> QED BY <1>2, <3>1, <3>2, JobsStay
  <2> QED BY <2>1, <2>2
<1> QED BY <1>3, <1>4

\* A refresh that is served goes by what the view says it has been read from.
LEMMA NextInfoFits ==
    ASSUME TInv, RunsFit, RefreshesFit, OneBusy, InTurn, AtRefresh, ReplaysFit, InfoFits, [Next]_vars
    PROVE  InfoFits'
<1> SUFFICES ASSUME NEW q \in Refreshes, Serving(q)' PROVE handler'[q].info = view'.since
  BY DEF InfoFits, Refreshes
<1>1. CASE Comes(q)
  BY <1>1 DEF Comes
<1>2. CASE ~ Comes(q)
  <2>1. Serving(q) /\ handler'[q].info = handler[q].info
    <3>1. CASE Closes(q)
      <4>1. publisher.at \notin {"idle", "next"}
        BY <3>1 DEF Closes, Settle, Fail
      <4> QED BY <3>1, <4>1, CurrentRefresh DEF Closes, Serving
    <3>2. CASE ~ Closes(q)
      BY <1>2, <3>2, RefreshMoves DEF Serving, GivesUp, Skips, Finds, Plans, Posts
    <3> QED BY <3>1, <3>2
  <2>2. handler[q].info = view.since
    BY <2>1 DEF InfoFits
  <2>3. view'.since = view.since
    BY <2>1, SinceMoves, OneOpen
  <2> QED BY <2>1, <2>2, <2>3
<1> QED BY <1>1, <1>2

\* What has been read may be taken together.
LEMMA KnownTogether ==
    ASSUME NEW a, NEW b, NEW src, Known(a, src), Known(b, src) PROVE Known(a \cup b, src)
BY DEF Known

\* What is committed to the view is an open refresh, and it may be.
LEMMA RefreshShown ==
    ASSUME TInv, RefreshesFit, AtRefresh, ReplaysFit, ToAddFits, CommitRefresh, view' # view
    PROVE  \E m \in DOMAIN pubs, rows \in SUBSET Jobs, n \in Nat :
             /\ Open(m) /\ ~ InView(pubs[m].job) /\ m = First(publisher.todo) /\ Current = pubs[m]
             /\ rows = payload[pubs[m].job].rows /\ Reads(rows, pubs[m].full, pubs[m].source)
             /\ view'.since = view.since /\ \A j : j = pubs[m].job => InView(j)'
             /\ CurrentFiles(view)' =
                  (IF pubs[m].full THEN {} ELSE CurrentFiles(view)) \cup {Entry(pubs[m].job, rows, n)}
<1>1. publisher.at = "commit" /\ Current.kind = "refresh"
  BY DEF CommitRefresh
<1>2. PICK m \in DOMAIN pubs : m = First(publisher.todo) /\ Current = pubs[m] /\ IsRefresh(m) /\ pubs[m].state = "pending"
  BY <1>1, CurrentFacts, CurrentRefresh
<1>3. ~ InView(pubs[m].job) /\ status[pubs[m].job] = "succeeded"
  BY <1>1, <1>2, CommitRefreshShows DEF AtRefresh
<1>4. Open(m)
  BY <1>2, <1>3 DEF ReplaysFit
<1>5. PICK rows \in SUBSET Jobs : rows = payload[pubs[m].job].rows
  <2>1. pubs[m].job \in Jobs
    BY DEF TInv, PubsFit, PubFits, Accepted
  <2> QED BY <2>1 DEF TInv, Shape, Works
<1>6. Reads(rows, pubs[m].full, pubs[m].source)
  BY <1>3, <1>4, <1>5 DEF ToAddFits
<1>7. PICK n \in Nat : n = Len(view'.snaps)
  BY CommitRefreshShows DEF Shown
<1>8. /\ view'.since = view.since
      /\ CurrentFiles(view)' = (IF pubs[m].full THEN {} ELSE CurrentFiles(view)) \cup {Entry(pubs[m].job, rows, n)}
  BY <1>2, <1>5, <1>7, CommitRefreshShows DEF Shown
<1>9. ASSUME NEW j, j = pubs[m].job PROVE InView(j)'
  <2>1. ASSUME NEW left, Shown(left) PROVE InView(j)'
    <3>1. n \in DOMAIN view'.snaps /\ view'.snaps[n].write = j
      BY <1>2, <1>7, <1>9, <2>1, EntryFacts DEF Shown, Adds
    <3> QED BY <3>1 DEF InView
  <2> QED BY <2>1, CommitRefreshShows
<1> QED BY <1>2, <1>3, <1>4, <1>5, <1>6, <1>7, <1>8, <1>9

\* So are its rows, added to those there are or in their place.
LEMMA ShownRows ==
    ASSUME NEW left, NEW w, NEW rows, NEW n, CurrentFiles(view)' = left \cup {Entry(w, rows, n)}
    PROVE  ViewRows' = Rows(left) \cup rows
<1>1. ViewRows' = Rows(left \cup {Entry(w, rows, n)})
  BY DEF ViewRows, Rows
<1>2. \A e : e \in left \cup {Entry(w, rows, n)} <=> e \in left \/ e = Entry(w, rows, n)
  OBVIOUS
<1> QED BY <1>1, <1>2, EntryFacts DEF Rows

\* The view is committed to, or holds what it held.
LEMMA SameRows ==
    ASSUME TInv, [Next]_vars
    PROVE  \/ CommitRefresh /\ view' # view
           \/ view'.snaps = view.snaps /\ ViewRows' = ViewRows /\ (CurrentFiles(view)' = CurrentFiles(view))
              /\ \A j : InView(j)' <=> InView(j)
<1>1. view'.snaps = view.snaps => CurrentFiles(view)' = CurrentFiles(view)
  BY DEF CurrentFiles, CurrentSnapshot, FilesAt
<1>2. view'.snaps = view.snaps => ViewRows' = ViewRows /\ \A j : InView(j)' <=> InView(j)
  BY <1>1 DEF ViewRows, Rows, InView
<1> QED BY <1>1, <1>2, ViewMoves

\* What the view holds has been read no later than whoever answers for it says.
LEMMA NextSinceFits ==
    ASSUME TInv, TInv', Remembers, RunsFit, RefreshesFit, OneBusy, InTurn, AtRefresh, SeenFits, SinceFits,
           ReplaysFit, InfoFits, ToAddFits, [Next]_vars
    PROVE  SinceFits'
<1>1. ASSUME NEW n \in DOMAIN pubs', Open(n)', ~ Open(n) \/ n \notin DOMAIN pubs
      PROVE  Stored(n) /\ pubs'[n].kind = "refresh"
  <2>1. pubs'[n].kind = "refresh"
    BY <1>1 DEF Open, IsRefresh
  <2>2. n \in DOMAIN pubs => IsRefresh(n)
    BY <2>1, PubsAre DEF SamePub, IsRefresh
  <2> QED BY <1>1, <2>1, <2>2, PubsAre, OpenMoves
<1>2. \A n \in DOMAIN pubs : pubs'[n].job = pubs[n].job /\ pubs'[n].source = pubs[n].source /\ n \in DOMAIN pubs'
  BY PubsAre DEF SamePub
<1>3. /\ \A n \in DOMAIN pubs : pubs[n].source.id \in Nat /\ pubs[n].source.id <= table.id
      /\ view.since.id \in Nat /\ view.since.id <= table.id
  <2>1. \A n \in DOMAIN pubs : pubs[n] \in Pubs
    <3>1. pubs \in Seq(Pubs)
      BY DEF TInv, Shape
    <3> QED BY <3>1
  <2> QED BY <2>1, TableKnows DEF Pubs, Source, TInv, PubsFit, PubFits, IdsFit
<1>4. CASE CommitRefresh /\ view' # view
  <2>1. PICK m \in DOMAIN pubs, rows \in SUBSET Jobs, k \in Nat :
          /\ Open(m) /\ ~ InView(pubs[m].job) /\ m = First(publisher.todo) /\ Current = pubs[m]
          /\ rows = payload[pubs[m].job].rows /\ Reads(rows, pubs[m].full, pubs[m].source)
          /\ \A j : j = pubs[m].job => InView(j)'
          /\ CurrentFiles(view)' =
               (IF pubs[m].full THEN {} ELSE CurrentFiles(view)) \cup {Entry(pubs[m].job, rows, k)}
    BY <1>4, RefreshShown
  <2>2. PICK src : src = pubs[m].source
    OBVIOUS
  <2>3. ViewRows' \subseteq ViewRows \cup rows
    <3>1. PICK left : left = IF pubs[m].full THEN {} ELSE CurrentFiles(view)
      OBVIOUS
    <3>2. PICK w : w = pubs[m].job
      OBVIOUS
    <3>3. ViewRows' = Rows(left) \cup rows
      BY <2>1, <3>1, <3>2, ShownRows
    <3>4. Rows(left) \subseteq ViewRows
      BY <3>1 DEF Rows, ViewRows
    <3> QED BY <3>3, <3>4
  <2>4. PICK all : all = ViewRows'
    OBVIOUS
  <2>5. Known(all, src)
    BY <2>1, <2>2, <2>3, <2>4 DEF Reads, Known
  <2>6. Known(all, src)'
    BY <1>3, <2>2, <2>5, KnownStays
  <2>7. pubs' = pubs /\ run' = run /\ publisher.at = "commit"
    BY <1>4 DEF CommitRefresh, records
  <2>8. Open(m)' /\ \A n : Open(n)' <=> Open(n)
    BY <2>1, <2>7 DEF Open, IsRefresh
  <2>9. InView(pubs[m].job)'
    <3>1. PICK j \in Jobs : j = pubs[m].job
      BY DEF TInv, PubsFit, PubFits, Accepted
    <3>2. InView(j)'
      BY <2>1, <3>1
    <3> QED BY <2>7, <3>1, <3>2
  <2>10. \A n \in DOMAIN pubs' : Open(n)' => n = m
    BY <2>1, <2>7, <2>8, OneOpen
  <2>11. Known(ViewRows, pubs[m].source)'
    BY <2>2, <2>4, <2>6, <2>7
  <2> QED BY <2>1, <2>7, <2>8, <2>9, <2>10, <2>11 DEF SinceFits
<1>5. CASE view'.snaps = view.snaps /\ ViewRows' = ViewRows /\ \A j : InView(j)' <=> InView(j)
  <2>1. PICK rows : rows = ViewRows
    OBVIOUS
  <2>2. \A src : src.id \in Nat /\ src.id <= table.id /\ Known(rows, src) => Known(rows, src)'
    <3> SUFFICES ASSUME NEW src, src.id \in Nat, src.id <= table.id, Known(rows, src) PROVE Known(rows, src)'
      OBVIOUS
    <3> QED BY KnownStays
  <2>3. ASSUME NEW n \in DOMAIN pubs', Open(n)', NEW j, j = pubs'[n].job, InView(j)',
               NEW src, src = pubs'[n].source
        PROVE  Known(rows, src)'
    <3>1. n \in DOMAIN pubs /\ Open(n)
      <4> SUFFICES ASSUME Stored(n) PROVE FALSE
        BY <1>1, <2>3
      <4>1. InView(j) /\ j \in Jobs
        BY <1>5, <2>3 DEF TInv, PubsFit, PubFits, Accepted
      <4>2. PICK m \in DOMAIN pubs : pubs[m].job = j
        BY <4>1 DEF SeenFits
      <4>3. m \in DOMAIN pubs' /\ pubs'[m].job = pubs'[n].job
        BY <1>2, <2>3, <4>2
      <4>4. m = n
        BY <4>3 DEF TInv, OneHand
      <4> QED BY <4>2, <4>4 DEF Stored
    <3>2. InView(pubs[n].job) /\ pubs[n].source = src
      BY <1>2, <1>5, <2>3, <3>1
    <3>3. Known(rows, src)
      BY <2>1, <3>1, <3>2 DEF SinceFits
    <3> QED BY <1>3, <2>2, <3>1, <3>2, <3>3
  <2>4. ASSUME \A n \in DOMAIN pubs' : ~ (Open(n)' /\ InView(pubs[n].job)'), NEW src, src = view'.since
        PROVE  Known(rows, src)'
    <3>1. CASE \E n \in DOMAIN pubs : Open(n) /\ InView(pubs[n].job)
      <4>1. PICK n \in DOMAIN pubs : Open(n) /\ InView(pubs[n].job)
        BY <3>1
      <4>2. PICK j \in Accepted : j = pubs[n].job /\ j \in Jobs
        BY DEF TInv, PubsFit, PubFits, Accepted
      <4>3. InView(j)' /\ ~ Open(n)'
        BY <1>2, <1>5, <2>4, <4>1, <4>2
      <4>4. (Settle \/ Fail) /\ n = First(publisher.todo) /\ Current = pubs[n] /\ Current.kind = "refresh"
        BY <4>1, <4>3, OpenMoves DEF Open, IsRefresh, Current
      <4>5. CASE Fail
        <5>1. status[j] # "succeeded"
          BY <4>2, <4>4, <4>5 DEF AtRefresh, Fail
        <5> QED BY <4>1, <4>2, <5>1 DEF SeenFits
      <4>6. CASE Settle
        <5>1. view' = [view EXCEPT !.status = "fresh", !.since = Current.source]
          BY <4>4, <4>6 DEF Settle
        <5>2. src = pubs[n].source
          BY <2>4, <4>4, <5>1, TableKnows DEF Views
        <5>3. Known(rows, src)
          BY <2>1, <4>1, <5>2 DEF SinceFits
        <5> QED BY <1>3, <2>2, <5>2, <5>3
      <4> QED BY <4>4, <4>5, <4>6
    <3>2. CASE \A n \in DOMAIN pubs : ~ (Open(n) /\ InView(pubs[n].job))
      <4>1. src = view.since
        BY <2>4, <3>2, SinceMoves
      <4>2. Known(rows, src)
        BY <2>1, <3>2, <4>1 DEF SinceFits
      <4> QED BY <1>3, <2>2, <4>1, <4>2
    <3> QED BY <3>1, <3>2
  <2>5. \A n \in DOMAIN pubs' : Open(n)' /\ InView(pubs[n].job)' => Known(ViewRows, pubs[n].source)'
    BY <1>5, <2>1, <2>3
  <2>6. (\A n \in DOMAIN pubs' : ~ (Open(n)' /\ InView(pubs[n].job)')) => Known(ViewRows, view.since)'
    BY <1>5, <2>1, <2>4
  <2> QED BY <2>5, <2>6 DEF SinceFits
<1> QED BY <1>4, <1>5, SameRows

\* No row is added to the view that is there.
LEMMA NextNoDuplicates ==
    ASSUME TInv, RefreshesFit, AtRefresh, ReplaysFit, ToAddFits, NoDuplicates, [Next]_vars
    PROVE  NoDuplicates'
<1>1. CASE CurrentFiles(view)' = CurrentFiles(view)
  BY <1>1 DEF NoDuplicates
<1>2. CASE CommitRefresh /\ view' # view
  <2>1. PICK m \in DOMAIN pubs, rows \in SUBSET Jobs, n \in Nat :
          /\ Reads(rows, pubs[m].full, pubs[m].source)
          /\ CurrentFiles(view)' =
               (IF pubs[m].full THEN {} ELSE CurrentFiles(view)) \cup {Entry(pubs[m].job, rows, n)}
    BY <1>2, RefreshShown
  <2>2. \A e \in CurrentFiles(view) : e.rows \subseteq ViewRows
    BY DEF ViewRows, Rows
  <2>3. CASE pubs[m].full
    BY <2>1, <2>3 DEF NoDuplicates
  <2>4. CASE ~ pubs[m].full
    <3>1. \A e \in CurrentFiles(view) : e.rows \cap rows = {}
      BY <2>1, <2>2, <2>4 DEF Reads
    <3>2. PICK f : f = Entry(pubs[m].job, rows, n) /\ f.rows = rows
      BY EntryFacts
    <3>3. CurrentFiles(view)' = CurrentFiles(view) \cup {f}
      BY <2>1, <2>4, <3>2
    <3> QED BY <3>1, <3>2, <3>3 DEF NoDuplicates
  <2> QED BY <2>3, <2>4
<1> QED BY <1>1, <1>2, SameRows

\* While a refresh is served, the view has been read no later than it says.
LEMMA ServingKnows ==
    ASSUME TInv, RefreshesFit, OneBusy, InTurn, SinceFits, NEW q \in Refreshes, Serving(q)
    PROVE  (\A n \in DOMAIN pubs : ~ Open(n)) /\ Known(ViewRows, view.since)
<1>1. \A n \in DOMAIN pubs : ~ Open(n)
  BY OneOpen
<1> QED BY <1>1 DEF SinceFits

\* What was going to be added still is, as long as the view holds what it held.
LEMMA ReadsStay ==
    ASSUME TInv, Remembers, [Next]_vars, ViewRows' = ViewRows,
           NEW rows, NEW full, NEW src \in Source, src.id <= table.id, Reads(rows, full, src)
    PROVE  Reads(rows, full, src)'
<1>1. PICK seen : seen = ViewRows
  OBVIOUS
<1>2. src.id \in Nat /\ Known(rows, src) /\ Known(seen, src)
  BY <1>1 DEF Source, Reads
<1>3. Known(rows, src)' /\ Known(seen, src)'
  BY <1>2, KnownStays
<1> QED BY <1>1, <1>3 DEF Reads

\* What is found to have been appended is not in the view.
LEMMA FoundIsNew ==
    ASSUME TInv, FilesFit, SnapsFit, OpsFit, RefreshesFit, OneBusy, InTurn, SinceFits, InfoFits,
           NEW q \in Refreshes, Finds(q)
    PROVE  /\ handler'[q].files \subseteq Accepted
           /\ ~ handler'[q].full => \A f \in handler'[q].files : RowsOf(f) \cap ViewRows = {}
<1>0. handler \in [Requests -> Handlers] /\ q \in Requests
  BY DEF TInv, Shape, Refreshes
<1> DEFINE info == handler[q].info
           added == IF ~q.of /\ table.live /\ info.id = table.id THEN AppendedSince(table, info.n)
                    ELSE [full |-> TRUE, paths |-> {}]
<1>1. handler'[q].full = added.full /\ handler'[q].files = added.paths
  <2>1. \E a : handler' = [handler EXCEPT ![q].at = a, ![q].full = added.full, ![q].files = added.paths]
    BY DEF Finds, FindAppended
  <2> HIDE DEF added
  <2> QED BY <1>0, <2>1 DEF Handlers
<1>2. CASE added = [full |-> TRUE, paths |-> {}]
  <2>1. handler'[q].full /\ handler'[q].files = {}
    BY <1>1, <1>2
  <2> QED BY <2>1
<1>3. CASE table.live /\ info.id = table.id /\ added = AppendedSince(table, info.n) /\ added # [full |-> TRUE, paths |-> {}]
  <2> DEFINE after == (info.n + 1) .. CurrentSnapshot(table)
  <2>1. /\ added.paths = Paths({e \in CurrentFiles(table) : e.at \in after})
        /\ \/ info.n = CurrentSnapshot(table)
           \/ \A k \in after : table.snaps[k].op = "append"
    BY <1>3 DEF AppendedSince
  <2>2. info = view.since /\ Known(ViewRows, info) /\ info.n \in Nat
    BY ServingKnows, TableKnows DEF InfoFits, Serving, Finds, Source
  <2>3. ASSUME NEW f \in added.paths PROVE f \in Accepted /\ RowsOf(f) \cap ViewRows = {}
    <3>1. PICK e \in CurrentFiles(table) : e.path = f /\ e.at \in after
      BY <2>1 DEF Paths
    <3>2. Len(table.snaps) \in DOMAIN table.snaps /\ e \in table.snaps[Len(table.snaps)].files /\ e.path \in Accepted
      BY CurrentKnows
    <3>3. e.at \in DOMAIN table.snaps /\ table.snaps[e.at].write = f
      BY <3>1, <3>2, SnapKnows
    <3>4. info.n # CurrentSnapshot(table) /\ e.at > info.n
      <4>1. CurrentSnapshot(table) \in Nat
        BY FilesAreFiles, TableKnows
      <4> QED BY <2>2, <3>1, <4>1
    <3>5. table.snaps[e.at].op = "append"
      BY <2>1, <3>1, <3>4
    <3>6. RowsOf(f) = {f}
      BY <3>3, <3>5 DEF OpsFit, RowsOf
    <3>7. f \notin ViewRows
      BY <1>3, <2>2, <3>3, <3>4 DEF Known
    <3> QED BY <3>1, <3>2, <3>6, <3>7
  <2> HIDE DEF added, info, after
  <2> QED BY <1>1, <2>3
<1> QED BY <1>2, <1>3

\* What is planned is read from the table as it is.
LEMMA PlannedReads ==
    ASSUME TInv, PInv, RefreshesFit, OneBusy, InTurn, SinceFits, ToAddFits,
           NEW q \in Refreshes, Plans(q)
    PROVE  /\ handler'[q].files \subseteq Accepted
           /\ \A f \in handler'[q].files : Reads(RowsOf(f), handler'[q].full, handler'[q].source)
           /\ Known(ViewRows, handler'[q].source)
           /\ handler'[q].source \in Source /\ handler'[q].source.id <= table.id
<1>0. handler \in [Requests -> Handlers] /\ q \in Requests /\ table.id \in Nat /\ table.snaps \in Seq(Snaps)
  BY TableKnows DEF TInv, Shape, Refreshes
<1>1. PICK n \in Nat : n = Len(table.snaps) /\ n = CurrentSnapshot(table) /\ DOMAIN table.snaps = 1 .. n
  BY <1>0 DEF CurrentSnapshot
<1>2. PICK src \in Source : src = [id |-> table.id, n |-> n]
  BY <1>0 DEF Source
<1>3. PICK files : files = IF handler[q].full THEN Paths(CurrentFiles(table))
                           ELSE handler[q].files \cap Paths(CurrentFiles(table))
  OBVIOUS
<1>4. /\ handler' = [handler EXCEPT ![q].at = "post", ![q].files = files, ![q].source = src]
      /\ handler[q].at = "plan"
  <2>1. table.live
    <3> SUFFICES ASSUME ~ table.live PROVE FALSE
      OBVIOUS
    <3>1. EndRequest(q)
      BY DEF Plans, PlanRefresh
    <3>2. handler'[q].at = "over"
      BY <1>0, <3>1 DEF EndRequest, At, Handlers
    <3> QED BY <3>2 DEF Plans
  <2> QED BY <1>1, <1>2, <1>3, <2>1 DEF Plans, PlanRefresh
<1>5. handler'[q].files = files /\ handler'[q].source = src /\ handler'[q].full = handler[q].full
  BY <1>0, <1>4 DEF Handlers
<1>6. \A f \in files : \E e \in CurrentFiles(table) : e.path = f
  BY <1>3 DEF Paths
<1>7. \A rows : (\A w \in rows : \E m \in DOMAIN pubs : pubs[m].job = w /\ (pubs[m].table = table.id => w \in InTable))
                => Known(rows, src)
  BY <1>0, <1>1, <1>2 DEF Known
<1>8. Known(ViewRows, src)
  <2>1. Known(ViewRows, view.since)
    BY <1>4, ServingKnows DEF Serving
  <2> QED BY <1>7, <2>1 DEF Known
<1>9. ASSUME NEW f \in files PROVE f \in Accepted /\ Reads(RowsOf(f), handler[q].full, src)
  <2>1. PICK e \in CurrentFiles(table) : e.path = f /\ e.path \in Accepted /\ e.rows = RowsOf(f)
    BY <1>6, CurrentKnows DEF PInv
  <2>2. \A w \in RowsOf(f) : w \in InTable /\ \E m \in DOMAIN pubs : pubs[m].job = w
    <3> SUFFICES ASSUME NEW w \in RowsOf(f) PROVE w \in InTable /\ \E m \in DOMAIN pubs : pubs[m].job = w
      OBVIOUS
    <3>1. w \in Rows(CurrentFiles(table))
      BY <2>1 DEF Rows
    <3>2. w \in Since(table)
      BY <3>1 DEF PInv, RowsOnce
    <3>3. PICK k \in DOMAIN table.snaps : w = table.snaps[k].write
      BY <3>2, SinceIs DEF Counts
    <3> QED BY <3>3 DEF InTable, PInv, SnapsFit
  <2>3. Known(RowsOf(f), src)
    BY <1>7, <2>2
  <2>4. ~ handler[q].full => RowsOf(f) \cap ViewRows = {}
    BY <1>3, <1>4 DEF ToAddFits
  <2> QED BY <1>8, <2>1, <2>3, <2>4 DEF Reads
<1>10. src.id <= table.id
  BY <1>0, <1>2
<1> QED BY <1>5, <1>8, <1>9, <1>10

\* The job that is asked for has the rows of the files it is given.
LEMMA PostedReads ==
    ASSUME TInv, FilesFit, SnapsFit, ToAddFits, NEW q \in Refreshes, Posts(q)
    PROVE  /\ Reads(payload'[NextJob].rows, handler[q].full, handler[q].source)
           /\ handler[q].source \in Source /\ handler[q].source.id <= table.id
<1>1. q \in Requests /\ Post("refresh", handler[q].files) /\ handler[q].files \in SUBSET Jobs
  BY HandlerKnows DEF Posts, Refreshes, Handlers
<1>2. PICK src \in Source : src = handler[q].source /\ src.id <= table.id
  BY <1>1, HandlerKnows DEF Handlers
<1>3. PICK files : files = handler[q].files
  OBVIOUS
<1>4. PICK rows : rows = payload'[NextJob].rows /\ rows = Rows({e \in AllEntries : e.path \in files})
  <2>1. files \in SUBSET Jobs /\ Post("refresh", files) /\ "refresh" \in Kinds /\ Shape
    BY <1>1, <1>3 DEF TInv, Kinds
  <2> QED BY <2>1, PostFacts
<1>5. PICK full : full = handler[q].full
  OBVIOUS
<1>6. (\A f \in files : Reads(RowsOf(f), full, src)) /\ Known(ViewRows, src)
  BY <1>2, <1>3, <1>5 DEF ToAddFits, Posts
<1>7. ASSUME NEW w \in rows PROVE \E f \in files : w \in RowsOf(f)
  <2>1. PICK e \in AllEntries : e.path \in files /\ w \in e.rows
    BY <1>4 DEF Rows
  <2>2. PICK k \in DOMAIN table.snaps : e \in FilesAt(table, k)
    BY <2>1 DEF AllEntries
  <2>3. e \in table.snaps[k].files
    BY <2>2, FilesAreFiles, TableKnows
  <2> QED BY <2>1, <2>3, SnapKnows
<1>8. Known(rows, src)
  BY <1>6, <1>7 DEF Reads, Known
<1>9. ~ full => rows \cap ViewRows = {}
  BY <1>6, <1>7 DEF Reads
<1> QED BY <1>2, <1>4, <1>5, <1>6, <1>8, <1>9 DEF Reads

\* What a refresh is going to add, as its handler goes on.
LEMMA NextToAdd ==
    ASSUME TInv, TInv', PInv, Remembers, OpsFit, RunsFit, RefreshesFit, OneBusy, InTurn, SinceFits, InfoFits,
           ToAddFits, [Next]_vars, view'.snaps = view.snaps, ViewRows' = ViewRows, NEW q \in Refreshes
    PROVE  /\ handler'[q].at \in {"plan", "post"} => handler'[q].files \subseteq Accepted'
           /\ handler'[q].at = "plan" /\ ~ handler'[q].full =>
                \A f \in handler'[q].files : RowsOf(f)' \cap ViewRows' = {}
           /\ handler'[q].at = "post" =>
                /\ \A f \in handler'[q].files : Reads(RowsOf(f), handler[q].full, handler[q].source)'
                /\ Known(ViewRows, handler[q].source)'
           /\ handler'[q].at = "insert" =>
                Reads(payload[handler[q].job].rows, handler[q].full, handler[q].source)'
<1>0. \A j \in Accepted : j \in Accepted' /\ payload'[j] = payload[j]
  BY JobsStay
<1>1. \A f \in Accepted : RowsOf(f)' = RowsOf(f) /\ f \in Accepted'
  BY <1>0 DEF RowsOf
<1>2. PICK h : h = handler'[q]
  OBVIOUS
<1>3. PICK seen : seen = ViewRows
  OBVIOUS
<1>4. q \in Requests
  BY DEF Refreshes
\* What is said of h is all that is needed.
<1>5. ASSUME h.at = "post", h.files \subseteq Accepted, h.source \in Source, h.source.id <= table.id,
             \A f \in h.files : Reads(RowsOf(f), h.full, h.source), Known(ViewRows, h.source)
      PROVE  (\A f \in h.files : Reads(RowsOf(f), h.full, h.source)') /\ Known(seen, h.source)'
  <2>1. ASSUME NEW f \in h.files PROVE Reads(RowsOf(f), h.full, h.source)'
    <3>1. PICK rows : rows = RowsOf(f)
      OBVIOUS
    <3>2. Reads(rows, h.full, h.source)'
      BY <1>5, <2>1, <3>1, ReadsStay
    <3>3. RowsOf(f)' = rows
      BY <1>1, <1>5, <2>1, <3>1
    <3> QED BY <3>2, <3>3
  <2>2. Known(seen, h.source)'
    BY <1>3, <1>5, KnownStays DEF Source
  <2> QED BY <2>1, <2>2
<1>6. ASSUME NEW rows, NEW full, NEW src \in Source, src.id <= table.id, Reads(rows, full, src)
      PROVE  Reads(rows, full, src)'
  BY <1>6, ReadsStay
<1>7. CASE handler'[q] = handler[q]
  <2>1. h = handler[q] /\ h \in Handlers /\ h.source \in Source /\ h.source.id <= table.id
    BY <1>2, <1>4, <1>7, HandlerKnows DEF Handlers
  <2>2. h.at \in {"plan", "post"} => h.files \subseteq Accepted
    BY <2>1 DEF ToAddFits
  <2>3. CASE h.at = "plan"
    <3>1. ~ h.full => \A f \in h.files : RowsOf(f) \cap ViewRows = {}
      BY <2>1, <2>3 DEF ToAddFits
    <3>2. ~ h.full => \A f \in h.files : RowsOf(f)' \cap ViewRows' = {}
      BY <1>1, <2>2, <2>3, <3>1
    <3> QED BY <1>1, <1>2, <2>2, <2>3, <3>2
  <2>4. CASE h.at = "post"
    <3>1. (\A f \in h.files : Reads(RowsOf(f), h.full, h.source)) /\ Known(ViewRows, h.source)
      BY <2>1, <2>4 DEF ToAddFits
    <3>2. (\A f \in h.files : Reads(RowsOf(f), h.full, h.source)') /\ Known(seen, h.source)'
      BY <1>5, <2>1, <2>2, <2>4, <3>1
    <3> QED BY <1>1, <1>2, <1>3, <2>2, <2>4, <3>2
  <2>5. CASE h.at = "insert"
    <3>1. PICK rows : rows = payload[h.job].rows
      OBVIOUS
    <3>2. Reads(rows, h.full, h.source)
      BY <2>1, <2>5, <3>1 DEF ToAddFits
    <3>3. Reads(rows, h.full, h.source)'
      BY <1>6, <2>1, <3>2
    <3>4. h.job \in Accepted
      BY <1>4, <2>1, <2>5 DEF TInv, HandlersFit, HandlerFits
    <3>5. payload'[h.job].rows = rows
      BY <1>0, <3>1, <3>4
    <3> QED BY <1>2, <2>5, <3>3, <3>5
  <2> QED BY <1>2, <2>3, <2>4, <2>5
<1>8. CASE Finds(q)
  <2>1. h.files \subseteq Accepted /\ (~ h.full => \A f \in h.files : RowsOf(f) \cap ViewRows = {}) /\ h.at = "plan"
    BY <1>2, <1>8, FoundIsNew DEF Finds, PInv
  <2>2. ~ h.full => \A f \in h.files : RowsOf(f)' \cap ViewRows' = {}
    BY <1>1, <2>1
  <2> QED BY <1>1, <1>2, <2>1, <2>2
<1>9. CASE Plans(q)
  <2>1. /\ h.files \subseteq Accepted /\ (\A f \in h.files : Reads(RowsOf(f), h.full, h.source))
        /\ Known(ViewRows, h.source) /\ h.source \in Source /\ h.source.id <= table.id /\ h.at = "post"
    BY <1>2, <1>9, PlannedReads DEF Plans
  <2>2. (\A f \in h.files : Reads(RowsOf(f), h.full, h.source)') /\ Known(seen, h.source)'
    BY <1>5, <2>1
  <2> QED BY <1>1, <1>2, <1>3, <2>1, <2>2
<1>10. CASE Posts(q)
  <2>1. /\ h.at = "insert" /\ h.full = handler[q].full /\ h.source = handler[q].source /\ h.job = NextJob
    BY <1>2, <1>10 DEF Posts
  <2>2. PICK rows : rows = payload'[NextJob].rows
    OBVIOUS
  <2>3. Reads(rows, h.full, h.source) /\ h.source \in Source /\ h.source.id <= table.id
    BY <1>10, <2>1, <2>2, PostedReads DEF PInv
  <2>4. Reads(rows, h.full, h.source)' /\ payload'[h.job].rows = rows
    BY <1>6, <2>1, <2>2, <2>3
  <2> QED BY <1>2, <2>1, <2>4
<1>11. CASE handler'[q].at \notin {"plan", "post", "insert"}
  BY <1>11
<1>12. Closes(q) => handler'[q] = handler[q]
  BY DEF Closes
<1> QED BY <1>7, <1>8, <1>9, <1>10, <1>11, <1>12, RefreshMoves DEF GivesUp, Comes, Skips

\* What a refresh is going to add to the view.
LEMMA NextToAddFits ==
    ASSUME TInv, TInv', PInv, Remembers, OpsFit, RunsFit, RefreshesFit, OneBusy, InTurn, AtRefresh, SinceFits,
           ReplaysFit, InfoFits, ToAddFits, [Next]_vars
    PROVE  ToAddFits'
<1>1. CASE CommitRefresh /\ view' # view
  <2>1. PICK m \in DOMAIN pubs : Open(m) /\ \A j : j = pubs[m].job => InView(j)'
    BY <1>1, RefreshShown
  <2>2. pubs' = pubs /\ run' = run /\ handler' = handler
    BY <1>1 DEF CommitRefresh, records
  <2>3. \A n \in DOMAIN pubs' : Open(n)' => n = m
    BY <2>1, <2>2, OneOpen DEF Open, IsRefresh
  <2>4. \A q \in Refreshes : handler'[q].at \notin {"plan", "post", "insert"}
    BY <2>1, <2>2, OneOpen DEF Serving
  <2>5. InView(pubs[m].job)'
    BY <2>1, <2>2
  <2> QED BY <2>3, <2>4, <2>5 DEF ToAddFits, Refreshes
<1>2. CASE view'.snaps = view.snaps /\ ViewRows' = ViewRows /\ \A j : InView(j)' <=> InView(j)
  <2>1. ASSUME NEW n \in DOMAIN pubs', Open(n)', NEW j, j = pubs'[n].job, ~ InView(j)',
               NEW full, full = pubs'[n].full, NEW src, src = pubs'[n].source, NEW rows, rows = payload'[j].rows
        PROVE  Reads(rows, full, src)'
    <3>1. CASE n \in DOMAIN pubs
      <4>1. pubs[n].job = j /\ pubs[n].full = full /\ pubs[n].source = src /\ j \in Accepted /\ src.id <= table.id
        BY <2>1, <3>1, PubsAre DEF SamePub, TInv, PubsFit, PubFits
      <4>2. Open(n)
        <5>1. IsRefresh(n)
          BY <2>1, <3>1, PubsAre DEF SamePub, Open, IsRefresh
        <5> QED BY <2>1, <3>1, <5>1, OpenMoves
      <4>3. payload[j].rows = rows
        BY <2>1, <4>1, JobsStay
      <4>4. Reads(rows, full, src)
        BY <1>2, <2>1, <3>1, <4>1, <4>2, <4>3 DEF ToAddFits
      <4>5. src \in Source
        <5>1. pubs \in Seq(Pubs)
          BY DEF TInv, Shape
        <5>2. pubs[n] \in Pubs
          BY <3>1, <5>1
        <5> QED BY <4>1, <5>2 DEF Pubs
      <4> QED BY <1>2, <4>1, <4>4, <4>5, ReadsStay
    <3>2. CASE Stored(n)
      <4>1. pubs'[n].kind = "refresh"
        BY <2>1 DEF Open, IsRefresh
      <4>2. PICK q \in Requests : Asks(n, q) /\ handler[q].at = "insert" /\ q.op = "refresh"
        BY <3>2, <4>1, StoredRefresh
      <4>3. q \in Refreshes /\ handler[q].job = j /\ handler[q].full = full /\ handler[q].source = src
        BY <2>1, <4>2 DEF Asks, Refreshes
      <4>4. j \in Accepted /\ src \in Source /\ src.id <= table.id
        BY <4>2, <4>3, HandlerKnows DEF HandlerFits, Handlers
      <4>5. payload[j].rows = rows
        BY <2>1, <4>4, JobsStay
      <4>6. Reads(rows, full, src)
        BY <4>2, <4>3, <4>5 DEF ToAddFits
      <4> QED BY <1>2, <4>4, <4>6, ReadsStay
    <3> QED BY <3>1, <3>2, PubsAre
  <2>2. \A n \in DOMAIN pubs' : Open(n)' /\ ~ InView(pubs[n].job)' =>
          Reads(payload[pubs[n].job].rows, pubs[n].full, pubs[n].source)'
    BY <2>1
  <2> QED BY <1>2, <2>2, NextToAdd DEF ToAddFits, Refreshes
<1> QED BY <1>1, <1>2, SameRows

\* At first there is nothing in the view.
LEMMA InitVInv == ASSUME Init PROVE VInv
<1>1. /\ \A q \in Requests : handler[q].at = "start" /\ handler[q].info = Never
      /\ \A q \in Maintenance : run[q].status = "none" /\ run[q].table = 0
      /\ publisher.at = "idle" /\ pubs = <<>> /\ DOMAIN pubs = {}
      /\ table.snaps = <<>> /\ view.snaps = <<>> /\ view.since = Never
  BY DEF Init, NotYet, NoRun, Resting
<1>2. CurrentFiles(view) = {} /\ ViewRows = {}
  BY <1>1 DEF CurrentFiles, CurrentSnapshot, FilesAt, ViewRows, Rows
<1>3. \A j : ~ InView(j)
  BY <1>1 DEF InView
<1>4. \A q \in Refreshes : q \in Requests /\ q \in Maintenance
  BY ConstantFacts DEF Refreshes
<1>5. \A q \in Refreshes : ~ Serving(q) /\ ~ Busy(q)
  BY <1>1, <1>4 DEF Serving, Busy
<1>6. OneBusy /\ RunsFit /\ InfoFits
  BY <1>1, <1>4, <1>5 DEF OneBusy, RunsFit, InfoFits
<1>7. RefreshesFit /\ InTurn /\ ReplaysFit /\ AtRefresh
  BY <1>1 DEF RefreshesFit, InTurn, ReplaysFit, AtRefresh
<1>8. SeenFits /\ NoDuplicates /\ OpsFit
  BY <1>1, <1>2, <1>3 DEF SeenFits, NoDuplicates, OpsFit
<1>9. Known(ViewRows, view.since)
  BY <1>2 DEF Known
<1>10. SinceFits /\ ToAddFits
  BY <1>1, <1>4, <1>9 DEF SinceFits, ToAddFits
<1> QED BY <1>6, <1>7, <1>8, <1>10 DEF VInv

\* As long as refreshes are served one at a time and no error comes after a commit,
\* every step keeps the view right.
LEMMA NextVInv ==
    ASSUME TInv, TInv', PInv, VInv, Remembers, OneRefresh', "error" \notin Faults, [Next]_vars PROVE VInv'
<1>1. OneBusy' /\ RunsFit' /\ RefreshesFit' /\ InTurn' /\ AtRefresh'
  BY NextOneBusy, NextRunsFit, NextRefreshesFit, NextInTurn, NextAtRefresh DEF VInv
<1>2. SeenFits' /\ SinceFits' /\ ReplaysFit' /\ InfoFits'
  BY NextSeenFits, NextSinceFits, NextReplaysFit, NextInfoFits DEF VInv
<1>3. ToAddFits' /\ OpsFit' /\ NoDuplicates'
  BY NextToAddFits, NextOpsFit, NextNoDuplicates DEF VInv, PInv
<1> QED BY <1>1, <1>2, <1>3 DEF VInv

\* Where refreshes are served one at a time, no error comes after a commit, and the
\* snapshot of a publication that may be committed again has not been expired, no row is
\* in the view twice, whatever is compacted, overwritten, dropped or replayed meanwhile
\* (start_refresh, refreshed).
THEOREM ViewHasNoDuplicates ==
    ASSUME "error" \notin Faults
    PROVE  Spec /\ [](Remembers /\ OneRefresh) => []NoDuplicates
<1>1. Init => PInv /\ VInv
  BY InitPInv, InitVInv
<1>2. TInv /\ TInv' /\ PInv /\ Remembers /\ [Next]_vars => PInv'
  BY NextPInv
<1>3. TInv /\ TInv' /\ PInv /\ VInv /\ Remembers /\ OneRefresh' /\ [Next]_vars => VInv'
  BY NextVInv
<1>4. VInv => NoDuplicates
  BY DEF VInv
<1> QED BY <1>1, <1>2, <1>3, <1>4, PublicationsAreConsistent, PTL DEF Spec

-----------------------------------------------------------------------------
(* When requests are served one at a time.                                 *)

InService(q) == handler[q].at \notin {"start", "over"}
OneServed == \A q, r \in Requests : InService(q) /\ InService(r) => q = r

\* A request that is served has been, or arrives.
LEMMA ServedMoves ==
    ASSUME TInv, [Next]_vars, NEW q \in Requests, InService(q)'
    PROVE  InService(q) \/ (Arrive(q) /\ \A r \in Requests : r # q => handler'[r] = handler[r])
<1>0. handler \in [Requests -> Handlers]
  BY DEF TInv, Shape
<1>1. CASE \E r \in Requests : Serve(r)
  <2>1. PICK r \in Requests : Serve(r)
    BY <1>1
  <2>2. \A x \in Requests : x # r => handler'[x] = handler[x]
    <3>1. EndRequest(r) => \A x \in Requests : x # r => handler'[x] = handler[x]
      BY <1>0 DEF EndRequest, At
    <3>2. CASE Arrive(r) \/ Queue(r) \/ NotUploaded(r)
      BY <1>0, <3>1, <3>2 DEF Arrive, Queue, NotUploaded, At
    <3>3. CASE PlanOptimize(r) \/ PlanExpire(r)
      BY <1>0, <3>1, <3>3 DEF PlanOptimize, PlanExpire
    <3>4. CASE FindAppended(r) \/ PlanRefresh(r)
      BY <1>0, <3>1, <3>4 DEF FindAppended, PlanRefresh
    <3>5. CASE PostJob(r) \/ InsertPublication(r) \/ DropTable(r)
      BY <1>0, <3>1, <3>5 DEF PostJob, InsertPublication, DropTable
    <3> QED BY <2>1, <3>2, <3>3, <3>4, <3>5 DEF Serve
  <2>3. r = q => InService(q) \/ Arrive(q)
    <3>1. DropTable(r) => handler'[r].at = "over"
      BY <1>0 DEF DropTable, Handlers
    <3> QED BY <2>1, <3>1 DEF Serve, InService, Queue, NotUploaded, PlanOptimize, PlanExpire, FindAppended,
                              PlanRefresh, PostJob, InsertPublication
  <2> QED BY <2>2, <2>3 DEF InService
<1>2. CASE Crash
  BY <1>2, CrashFacts DEF InService
<1>3. CASE Publish
  BY <1>3 DEF InService, Publish, Reconcile, Look, PassEnds, CreateTable, PostIngest, InsertIngest, Commit,
              CommitRefresh, Settle, Fail, Mark
<1>4. CASE (\E i \in Imports : CreateImport(i)) \/ (\E j \in Jobs : JobEnds(j))
  BY <1>4 DEF InService, CreateImport, JobEnds
<1>5. CASE UNCHANGED vars
  BY <1>5 DEF InService, vars
<1> QED BY <1>1, <1>2, <1>3, <1>4, <1>5 DEF Next

\* A request that arrives is let in when no other is served.
LEMMA NextOneServed ==
    ASSUME TInv, OneServed, MaxServing = 1, IsFiniteSet(Requests), [Next]_vars PROVE OneServed'
<1> SUFFICES ASSUME NEW q \in Requests, NEW r \in Requests, InService(q)', InService(r)' PROVE q = r
  BY DEF OneServed
<1>1. ASSUME NEW x \in Requests, NEW y \in Requests, x # y, InService(y)', Arrive(x),
             \A z \in Requests : z # x => handler'[z] = handler[z]
      PROVE  FALSE
  <2> DEFINE S == {z \in Requests : handler[z].at \notin {"start", "over"}}
  <2>1. Cardinality(S) < 1
    BY <1>1 DEF Arrive
  <2>2. IsFiniteSet(S) /\ Cardinality(S) \in Nat
    BY FS_Subset, FS_CardinalityType
  <2>3. S = {}
    BY <2>1, <2>2, FS_EmptySet
  <2>4. y \in S
    BY <1>1 DEF InService
  <2> QED BY <2>3, <2>4
<1>2. CASE InService(q) /\ InService(r)
  BY <1>2 DEF OneServed
<1>3. CASE ~ InService(q) \/ ~ InService(r)
  BY <1>1, <1>3, ServedMoves
<1> QED BY <1>2, <1>3

\* Where no snapshot is ever expired, or the process does not crash, what may be
\* committed again is remembered.
LEMMA RememberedAlways ==
    ASSUME NoExpiry \/ "crash" \notin Faults PROVE Spec => []Remembers
<1>1. CASE NoExpiry
  <2>1. Init => KeepsAll
    BY DEF Init, KeepsAll
  <2>2. TInv /\ KeepsAll /\ [Next]_vars => KeepsAll'
    BY <1>1, NextKeepsAll
  <2>3. KeepsAll => Remembers
    BY DEF KeepsAll, Remembers, HasWrite
  <2> QED BY <2>1, <2>2, <2>3, PublicationsAreConsistent, PTL DEF Spec
<1>2. CASE "crash" \notin Faults
  <2>1. Init => PInv /\ Fresh
    BY InitPInv DEF Init, Fresh
  <2>2. Fresh => Remembers
    BY DEF Fresh, Remembers, InTable
  <2>3. TInv /\ TInv' /\ PInv /\ Fresh /\ [Next]_vars => PInv' /\ Fresh'
    BY <1>2, <2>2, NextPInv, NextFresh
  <2> QED BY <2>1, <2>2, <2>3, PublicationsAreConsistent, PTL DEF Spec
<1> QED BY <1>1, <1>2

\* Where requests are served one at a time and no error comes after a commit, no row is
\* in the view twice, though the process crashes, if no snapshot is expired, and though
\* snapshots are expired, if it does not (start_refresh, refreshed).
THEOREM OneAtATimeNoDuplicates ==
    ASSUME MaxServing = 1, IsFiniteSet(Requests), "error" \notin Faults, NoExpiry \/ "crash" \notin Faults
    PROVE  Spec => []NoDuplicates
<1>1. Init => OneServed
  BY DEF Init, OneServed, InService, NotYet
<1>2. TInv /\ OneServed /\ [Next]_vars => OneServed'
  BY NextOneServed
<1>3. OneServed => OneRefresh
  BY DEF OneServed, OneRefresh, InService, Serving, Refreshes
<1>4. Spec => []Remembers
  BY RememberedAlways
<1>5. Spec /\ [](Remembers /\ OneRefresh) => []NoDuplicates
  BY ViewHasNoDuplicates
<1> QED BY <1>1, <1>2, <1>3, <1>4, <1>5, PublicationsAreConsistent, PTL DEF Spec

-----------------------------------------------------------------------------
(* Fifth part: what a reader sees of the table.                            *)

ImportsIn == {w \in {table.snaps[n].write : n \in DOMAIN table.snaps} : payload[w].op = "ingest"}

\* A reader sees the rows that Since selects.
LEMMA SeesSince ==
    /\ RowsOnce => Rows(CurrentFiles(table)) = Since(table)
    /\ RowsOnce' => Rows(CurrentFiles(table))' = Since(table)'
BY DEF RowsOnce

\* As long as the snapshots stay, a reader sees the same.
LEMMA SameSeen ==
    ASSUME TInv, PInv, [Next]_vars, table'.snaps = table.snaps
    PROVE  Since(table)' = Since(table) /\ ImportsIn' = ImportsIn
<1>1. \A k \in DOMAIN table.snaps :
         table.snaps[k].write \in Accepted /\ payload'[table.snaps[k].write] = payload[table.snaps[k].write]
  BY SnapKnows, JobsStay DEF PInv
<1>2. \A m : Counts(m)' <=> Counts(m)
  BY <1>1 DEF Counts
<1>3. \A w : w \in Since(table)' <=> w \in Since(table)
  BY <1>2, SinceIs
<1>4. Since(table)' = Since(table)
  BY <1>3 DEF Since
<1>5. \A w : w \in ImportsIn' <=> w \in ImportsIn
  BY <1>1 DEF ImportsIn, Accepted
<1>6. ImportsIn' = ImportsIn
  BY <1>5 DEF ImportsIn
<1> QED BY <1>4, <1>6

\* A new table has nothing in it.
LEMMA NothingSeen ==
    ASSUME table'.snaps = <<>>
    PROVE  Since(table)' = {} /\ ImportsIn' = {}
BY DEF Since, ImportsIn

\* The n-th snapshot is of write w, which is new, and so is the one before, if it takes
\* the other files out.
Writes(w, i, n) ==
    /\ DOMAIN table'.snaps = DOMAIN table.snaps \cup {i, n}
    /\ i \notin DOMAIN table.snaps /\ n \notin DOMAIN table.snaps
    /\ \A k \in DOMAIN table.snaps : table'.snaps[k] = table.snaps[k] /\ k < i
    /\ table'.snaps[i].write = w /\ table'.snaps[n].write = w
    /\ table'.snaps[n].op \in {"append", "overwrite"} /\ (n # i => table'.snaps[i].op = "delete")
    /\ w \in Accepted /\ w \notin InTable /\ i \in Nat /\ n \in Nat /\ n >= i

\* What the new snapshot counts for, and those before it.
LEMMA WriteCounts ==
    ASSUME TInv, PInv, [Next]_vars, NEW w, NEW i, NEW n, Writes(w, i, n)
    PROVE  /\ Counts(n)' <=> payload[w].op = "ingest"
           /\ Counts(i)' => payload[w].op = "ingest"
           /\ \A m \in DOMAIN table.snaps :
                Counts(m)' <=> Counts(m) /\ ~ (payload[w].op = "ingest" /\ n # i)
<1>1. \A k \in DOMAIN table.snaps :
         /\ table.snaps[k].write \in Accepted /\ payload'[table.snaps[k].write] = payload[table.snaps[k].write]
         /\ table'.snaps[k] = table.snaps[k] /\ k \in Nat /\ ~ (k >= i) /\ ~ (k >= n) /\ n >= k
  BY SnapKnows, JobsStay DEF PInv, Writes
<1>2. /\ payload'[w] = payload[w] /\ table'.snaps[n].write = w /\ table'.snaps[i].write = w
      /\ i \in Nat /\ n \in Nat /\ n >= n /\ n >= i
      /\ table'.snaps[n].op # "delete" /\ (n # i => table'.snaps[i].op = "delete")
  BY JobsStay DEF Writes
<1>3. /\ DOMAIN table'.snaps = DOMAIN table.snaps \cup {i, n}
      /\ i \notin DOMAIN table.snaps /\ n \notin DOMAIN table.snaps
  BY DEF Writes
<1>4. \A m : Counts(m)' <=>
         /\ m \in DOMAIN table'.snaps /\ payload'[table'.snaps[m].write].op = "ingest"
         /\ \A k \in DOMAIN table'.snaps :
              payload'[table'.snaps[k].write].op = "ingest" /\ table'.snaps[k].op = "delete" => m >= k
  BY DEF Counts
<1>5. /\ Counts(n)' <=> payload[w].op = "ingest"
      /\ Counts(i)' => payload[w].op = "ingest"
  BY <1>1, <1>2, <1>3, <1>4
<1>6. ASSUME NEW m \in DOMAIN table.snaps
      PROVE  Counts(m)' <=> Counts(m) /\ ~ (payload[w].op = "ingest" /\ n # i)
  <2>1. (\A k \in DOMAIN table'.snaps :
           payload'[table'.snaps[k].write].op = "ingest" /\ table'.snaps[k].op = "delete" => m >= k)
        <=> /\ \A k \in DOMAIN table.snaps :
                 payload[table.snaps[k].write].op = "ingest" /\ table.snaps[k].op = "delete" => m >= k
            /\ ~ (payload[w].op = "ingest" /\ n # i)
    BY <1>1, <1>2, <1>3
  <2> QED BY <1>1, <1>3, <1>4, <2>1 DEF Counts
<1> QED BY <1>5, <1>6

\* An import comes in; a rewrite is not seen.
LEMMA WriteSeen ==
    ASSUME TInv, PInv, [Next]_vars, NEW w, NEW i, NEW n, Writes(w, i, n), payload[w].op \in {"ingest", "optimize"}
    PROVE  /\ payload[w].op = "ingest" =>
                /\ w \in Jobs \ ImportsIn /\ ImportsIn' = ImportsIn \cup {w}
                /\ Since(table)' \in {Since(table) \cup {w}, {w}}
           /\ payload[w].op = "optimize" => ImportsIn' = ImportsIn /\ Since(table)' = Since(table)
<1>1. \A k \in DOMAIN table.snaps :
         /\ table.snaps[k].write \in Accepted /\ payload'[table.snaps[k].write] = payload[table.snaps[k].write]
         /\ table'.snaps[k] = table.snaps[k]
  BY SnapKnows, JobsStay DEF PInv, Writes
<1>2. /\ payload'[w] = payload[w] /\ table'.snaps[n].write = w /\ table'.snaps[i].write = w
      /\ w \in Jobs /\ w \notin InTable /\ DOMAIN table'.snaps = DOMAIN table.snaps \cup {i, n}
      /\ i \notin DOMAIN table.snaps /\ n \notin DOMAIN table.snaps
  BY JobsStay DEF Writes, Accepted
<1>3. /\ \A v : v \in Since(table)' <=> \E m : Counts(m)' /\ v = table'.snaps[m].write
      /\ \A v : v \in Since(table) <=> \E m : Counts(m) /\ v = table.snaps[m].write
  BY SinceIs
<1>4. \A m : /\ Counts(m)' => m \in DOMAIN table.snaps \/ m = i \/ m = n
             /\ Counts(m) => m \in DOMAIN table.snaps
  BY <1>2 DEF Counts
<1>5. /\ Counts(n)' <=> payload[w].op = "ingest"
      /\ Counts(i)' => payload[w].op = "ingest"
      /\ \A m \in DOMAIN table.snaps :
           Counts(m)' <=> Counts(m) /\ ~ (payload[w].op = "ingest" /\ n # i)
  BY WriteCounts
<1>6. \A v : v \in ImportsIn' <=> v \in ImportsIn \/ (v = w /\ payload[w].op = "ingest")
  BY <1>1, <1>2 DEF ImportsIn, Accepted
<1>7. w \notin ImportsIn
  BY <1>2 DEF ImportsIn, InTable
<1>8. CASE payload[w].op = "ingest"
  <2>1. ImportsIn' = ImportsIn \cup {w}
    BY <1>6, <1>8 DEF ImportsIn
  <2>2. CASE n = i
    <3>1. \A v : v \in Since(table)' <=> v \in Since(table) \/ v = w
      BY <1>1, <1>2, <1>3, <1>4, <1>5, <1>8, <2>2
    <3>2. Since(table)' = Since(table) \cup {w}
      BY <3>1 DEF Since
    <3> QED BY <1>2, <1>7, <1>8, <2>1, <3>2
  <2>3. CASE n # i
    <3>1. \A v : v \in Since(table)' <=> v = w
      BY <1>2, <1>3, <1>4, <1>5, <1>8, <2>3
    <3>2. Since(table)' = {w}
      BY <3>1 DEF Since
    <3> QED BY <1>2, <1>7, <1>8, <2>1, <3>2
  <2> QED BY <2>2, <2>3
<1>9. CASE payload[w].op = "optimize"
  <2>1. ImportsIn' = ImportsIn
    BY <1>6, <1>9 DEF ImportsIn
  <2>2. \A v : v \in Since(table)' <=> v \in Since(table)
    BY <1>1, <1>3, <1>4, <1>5, <1>9
  <2>3. Since(table)' = Since(table)
    BY <2>2 DEF Since
  <2> QED BY <1>9, <2>1, <2>3
<1> QED BY <1>8, <1>9

\* Every step is one of what a reader may see, or is not seen.
LEMMA NextContents ==
    ASSUME TInv, TInv', PInv, PInv', Remembers, [Next]_vars
    PROVE  [Contents!Next]_(Contents!contents)
<1> DEFINE rows == Rows(CurrentFiles(table))
<1>1. rows = Since(table) /\ rows' = Since(table)'
  BY SeesSince DEF PInv
<1>2. CASE table'.id = table.id /\ table'.snaps = table.snaps
  <2>1. rows' = rows /\ ImportsIn' = ImportsIn
    BY <1>1, <1>2, SameSeen
  <2> QED BY <1>2, <2>1 DEF Contents!contents, ImportsIn
<1>3. CASE table'.id = table.id + 1 /\ table'.snaps = <<>>
  <2>1. rows' = {} /\ ImportsIn' = {}
    BY <1>1, <1>3, NothingSeen
  <2>2. Contents!Create
    BY <1>3, <2>1 DEF Contents!Create, ImportsIn
  <2> QED BY <2>2 DEF Contents!Next
<1>4. ASSUME Commit, table'.id = table.id, Current.job \notin InTable, NEW i \in Nat, NEW n \in Nat,
             DOMAIN table'.snaps = DOMAIN table.snaps \cup {i, n},
             \A k \in DOMAIN table.snaps : table'.snaps[k] = table.snaps[k],
             \A k \in {i, n} : k \notin DOMAIN table.snaps /\ table'.snaps[k].write = Current.job,
             n >= i, table'.snaps[n].op \in {"append", "overwrite"}, n # i => table'.snaps[i].op = "delete"
      PROVE  [Contents!Next]_(Contents!contents)
  <2>1. publisher.at = "commit" /\ Current.kind \in {"ingest", "optimize"}
    BY <1>4 DEF Commit, TInv, PublisherFits
  <2>2. PICK p \in Pubs : p = Current /\ PubFits(p)
    BY <2>1, CurrentFacts
  <2>3. PICK w : w = p.job /\ w \in Accepted /\ payload[w].op \in {"ingest", "optimize"}
    BY <2>1, <2>2 DEF PubFits
  <2>4. /\ DOMAIN table.snaps = 1 .. Len(table.snaps) /\ Len(table.snaps) \in Nat
        /\ DOMAIN table'.snaps = 1 .. Len(table'.snaps) /\ Len(table'.snaps) \in Nat
    <3>1. table.snaps \in Seq(Snaps) /\ table'.snaps \in Seq(Snaps)
      BY DEF TInv, Shape, Tables
    <3> QED BY <3>1, LenProperties
  <2>5. i \notin DOMAIN table.snaps /\ n \notin DOMAIN table.snaps
    BY <1>4
  <2>6. \A k \in DOMAIN table.snaps : k < i
    BY <1>4, <2>4, <2>5
  <2>7. Writes(w, i, n)
    BY <1>4, <2>2, <2>3, <2>5, <2>6 DEF Writes
  <2>8. CASE payload[w].op = "ingest"
    <3>1. w \in Jobs \ ImportsIn /\ ImportsIn' = ImportsIn \cup {w} /\ rows' \in {rows \cup {w}, {w}}
      BY <1>1, <2>3, <2>7, <2>8, WriteSeen
    <3>2. Contents!ComesIn(w)
      BY <1>4, <3>1 DEF Contents!ComesIn, ImportsIn
    <3> QED BY <3>1, <3>2 DEF Contents!Next
  <2>9. CASE payload[w].op = "optimize"
    <3>1. rows' = rows /\ ImportsIn' = ImportsIn
      BY <1>1, <2>3, <2>7, <2>9, WriteSeen
    <3> QED BY <1>4, <3>1 DEF Contents!contents, ImportsIn
  <2> QED BY <2>3, <2>8, <2>9
<1> QED BY <1>2, <1>3, <1>4, TableWrites

\* At first a reader sees nothing.
LEMMA InitContents == ASSUME Init PROVE Contents!Init
<1>1. table.snaps = <<>> /\ table.id \in Nat
  BY DEF Init
<1> QED BY <1>1 DEF Contents!Init, CurrentFiles, CurrentSnapshot, FilesAt, Rows

\* The publisher and the table implement what a reader is promised: the rows change by
\* one import at a time, each comes in once, and no rewrite, expiry, replay, crash or
\* late error shows, as long as what may be committed again is remembered.
THEOREM TableKeepsContents == Spec /\ []Remembers => KeepsContents
<1>1. Init => PInv
  BY InitPInv
<1>2. TInv /\ TInv' /\ PInv /\ Remembers /\ [Next]_vars => PInv'
  BY NextPInv
<1>3. Init => Contents!Init
  BY InitContents
<1>4. TInv /\ TInv' /\ PInv /\ PInv' /\ Remembers /\ [Next]_vars => [Contents!Next]_(Contents!contents)
  BY NextContents
<1> QED BY <1>1, <1>2, <1>3, <1>4, PublicationsAreConsistent, PTL DEF Spec, KeepsContents, Contents!Spec

\* It is remembered where the process does not crash or nothing is expired, and where
\* the newest snapshots that are kept reach back to what may be committed again.
THEOREM TableKeepsContentsWhen ==
    /\ NoExpiry \/ "crash" \notin Faults => (Spec => KeepsContents)
    /\ Spec /\ []Recent => KeepsContents
<1>1. ASSUME NoExpiry \/ "crash" \notin Faults PROVE Spec => KeepsContents
  <2>1. Spec => []Remembers
    BY <1>1, RememberedAlways
  <2> QED BY <2>1, TableKeepsContents, PTL
<1>2. NewestKept /\ Recent => Remembers
  BY DEF NewestKept, Recent, Remembers, HasWrite
<1>3. Spec /\ []Recent => KeepsContents
  BY <1>2, NewestAreKept, TableKeepsContents, PTL
<1> QED BY <1>1, <1>3

-----------------------------------------------------------------------------
(* Sixth part: how many snapshots have to be retained.                     *)

\* The publications that are still to be committed, or may be committed again.
Waiting == {n \in DOMAIN pubs : pubs[n].state = "pending" /\ pubs[n].kind \in {"ingest", "optimize"}}

\* Two snapshots for each of them but one are no more than are retained beside that of
\* the one: an overwrite makes two.
Short == 2 * Cardinality(Waiting) <= RetainLast + 1

\* A publication that has been committed and not settled comes up in the pass under way,
\* unless those before it fill the pass.
Queued ==
    /\ \A n \in Waiting : pubs[n].job \in InTable =>
         /\ status[pubs[n].job] # "pending"
         /\ \A m \in publisher.todo : n <= m => n \in publisher.todo
    /\ publisher.at = "commit" => status[Current.job] # "pending"

\* What may still be committed before n is settled is older than n.
Ahead(n) == {m \in Waiting : m < n /\ pubs[m].job \notin InTable}

\* The last snapshot of n is among the newest, and stays there while they are committed.
Recalled(n, k) == /\ k \in DOMAIN table.snaps /\ table.snaps[k].write = pubs[n].job
                  /\ (Len(table.snaps) - k) + 2 * Cardinality(Ahead(n)) < RetainLast
Few == \A n \in Waiting : pubs[n].job \in InTable => \E k : Recalled(n, k)

\* What waits has waited, or is new and not in the table.
LEMMA WaitingStays ==
    ASSUME TInv, TInv', PInv, [Next]_vars, NEW n \in Waiting'
    PROVE  \/ n \in Waiting /\ pubs'[n].job = pubs[n].job
           \/ pubs'[n].job \notin InTable /\ n \notin DOMAIN pubs
<1>1. n \in DOMAIN pubs' /\ pubs'[n].state = "pending" /\ pubs'[n].kind \in {"ingest", "optimize"}
  BY DEF Waiting
<1>2. CASE n \in DOMAIN pubs
  <2>1. SamePub(n)
    BY <1>2, PubsAre
  <2> QED BY <1>1, <1>2, <2>1 DEF SamePub, Waiting
<1>3. CASE n \notin DOMAIN pubs
  <2> SUFFICES ASSUME pubs'[n].job \in InTable PROVE FALSE
    BY <1>3
  <2>1. PICK m \in DOMAIN pubs : pubs[m].job = pubs'[n].job
    BY DEF PInv, SnapsFit, InTable
  <2>2. m \in DOMAIN pubs' /\ pubs'[m].job = pubs'[n].job
    BY <2>1, PubsAre DEF SamePub
  <2>3. m = n
    BY <1>1, <2>2 DEF TInv, OneHand
  <2> QED BY <1>3, <2>1, <2>3
<1> QED BY <1>2, <1>3

\* The publisher commits what it has found done.
LEMMA CommitsWhatEnded ==
    ASSUME TInv, Queued, [Next]_vars, publisher'.at = "commit"
    PROVE  (status[Current.job] # "pending")'
<1>1. publisher \in Publishers
  BY DEF TInv, Shape
<1>2. ASSUME publisher.todo # {}, publisher'.todo = publisher.todo, status[Current.job] # "pending"
      PROVE  (status[Current.job] # "pending")'
  <2>1. PICK n : n = First(publisher.todo)
    OBVIOUS
  <2>2. n \in DOMAIN pubs /\ pubs[n] = Current /\ PubFits(Current)
    BY <1>2, <2>1, CurrentFacts DEF Current
  <2>3. pubs'[n].job = pubs[n].job
    BY <2>2, PubsAre DEF SamePub
  <2>4. PICK j : j = pubs[n].job
    OBVIOUS
  <2>5. j \in Accepted /\ status[j] # "pending"
    BY <1>2, <2>2, <2>4 DEF PubFits
  <2>6. status'[j] # "pending"
    BY <2>5, EndedStays
  <2> QED BY <1>2, <2>1, <2>3, <2>4, <2>6 DEF Current
<1>3. publisher.at = "commit" => status[Current.job] # "pending" /\ publisher.todo # {}
  BY DEF Queued, TInv, PublisherFits
<1>4. CASE publisher' = publisher
  BY <1>2, <1>3, <1>4
<1>5. CASE Publish
  <2>1. CASE Look
    <3>1. publisher.todo # {}
      BY <2>1 DEF Look
    <3>2. status[Current.job] = "succeeded" /\ publisher'.todo = publisher.todo
      BY <1>1, <2>1 DEF Look, Publishers
    <3> QED BY <1>2, <3>1, <3>2
  <2>2. CASE Reconcile
    <3>1. publisher' = [Resting EXCEPT !.at = "next", !.todo = Oldest(Pending)]
      BY <2>2 DEF Reconcile
    <3> QED BY <3>1 DEF Resting
  <2>3. CASE PassEnds
    BY <2>3 DEF PassEnds, Resting
  <2>4. CASE CreateTable \/ PostIngest \/ InsertIngest
    BY <1>1, <2>4 DEF CreateTable, PostIngest, InsertIngest, GoOn, ToFail, Publishers
  <2>5. CASE Commit \/ CommitRefresh \/ Settle \/ Fail
    BY <1>1, <2>5 DEF Commit, CommitRefresh, Settle, Fail, GoOn, ToFail, Publishers
  <2>6. CASE Mark
    BY <2>6, MarkFacts
  <2> QED BY <1>5, <2>1, <2>2, <2>3, <2>4, <2>5, <2>6 DEF Publish
<1>6. CASE \E q \in Requests : Serve(q)
  BY <1>4, <1>6, ServeKeeps
<1>7. CASE (\E i \in Imports : CreateImport(i)) \/ (\E j \in Jobs : JobEnds(j))
  BY <1>4, <1>7 DEF CreateImport, JobEnds
<1>8. CASE Crash
  BY <1>8 DEF Crash, Resting
<1>9. CASE UNCHANGED vars
  BY <1>4, <1>9 DEF vars
<1> QED BY <1>5, <1>6, <1>7, <1>8, <1>9 DEF Next

\* A commit that changes the table is of the first in the pass, which is not in it yet.
Commits(c) ==
    /\ Commit /\ c = First(publisher.todo) /\ c \in publisher.todo
    /\ c \in Waiting /\ pubs[c].job \notin InTable /\ \A n \in publisher.todo : c <= n
    /\ Len(table'.snaps) \in {Len(table.snaps) + 1, Len(table.snaps) + 2}
    /\ DOMAIN table.snaps \subseteq DOMAIN table'.snaps
    /\ \A k \in DOMAIN table.snaps : table'.snaps[k] = table.snaps[k]
    /\ Len(table'.snaps) \in DOMAIN table'.snaps /\ table'.snaps[Len(table'.snaps)].write = pubs[c].job
    /\ InTable' = InTable \cup {pubs[c].job}
    /\ pubs' = pubs /\ status' = status /\ publisher'.todo = publisher.todo

\* What a step does to the snapshots.
LEMMA SnapsMove ==
    ASSUME TInv, TInv', Remembers, [Next]_vars
    PROVE  \/ table'.snaps = table.snaps /\ InTable' = InTable
           \/ InTable' = {} /\ DOMAIN table'.snaps = {}
           \/ \E c : Commits(c)
<1>1. CASE table'.snaps = table.snaps
  BY <1>1 DEF InTable
<1>2. CASE table'.snaps = <<>>
  BY <1>2 DEF InTable
<1>3. CASE Commit /\ table'.snaps # table.snaps
  <2>1. /\ publisher.at = "commit" /\ Current.kind \in {"ingest", "optimize"}
        /\ pubs' = pubs /\ status' = status /\ (ToFail \/ GoOn("settle"))
        /\ table' \in {table, Committed(Current)}
    BY <1>3 DEF Commit, TInv, PublisherFits, compute
  <2>2. publisher'.todo = publisher.todo
    BY <2>1, ToFailFacts, GoOnFacts
  <2>3. PICK c : c = First(publisher.todo)
    OBVIOUS
  <2>4. /\ c \in publisher.todo /\ c \in DOMAIN pubs /\ \A k \in publisher.todo : c <= k
        /\ pubs[c] = Current /\ Current.state = "pending"
    BY <2>1, <2>3, CurrentFacts DEF Current
  <2>5. c \in Waiting /\ pubs[c].job = Current.job
    BY <2>1, <2>4 DEF Waiting
  <2>6. PICK p \in Pubs : p = Current /\ PubFits(p) /\ p.kind \in {"ingest", "optimize"}
    BY <2>1, CurrentFacts
  <2>7. table' = Committed(p) /\ Committed(p) # table
    BY <1>3, <2>1, <2>6
  <2>8. PICK op, left : Adds(table, table', op, p.job, left, Written(p))
    BY <2>6, <2>7, CommittedFacts
  <2>9. ~ HasWrite(table, p.job)
    BY <2>6, <2>7, CommittedFacts
  <2>10. p.job \notin InTable
    <3>1. Replayable(c)
      BY <2>1, <2>3, <2>4 DEF Replayable
    <3> QED BY <2>4, <2>6, <2>9, <3>1 DEF Remembers, InTable
  <2>11. Len(table.snaps) \in Nat
    BY TableKnows, LenProperties
  <2>12. PICK i, n : i = Len(table.snaps) + 1 /\ n = Len(table'.snaps)
    OBVIOUS
  <2>13. /\ n = i \/ n = i + 1
         /\ DOMAIN table'.snaps = DOMAIN table.snaps \cup {i, n}
         /\ \A k \in DOMAIN table.snaps : table'.snaps[k] = table.snaps[k]
         /\ table'.snaps[i].write = p.job /\ table'.snaps[n].write = p.job
    BY <2>8, <2>12, EntryFacts DEF Adds
  <2>14. n \in {Len(table.snaps) + 1, Len(table.snaps) + 2}
    BY <2>11, <2>12, <2>13
  <2>15. InTable' = InTable \cup {p.job}
    <3>1. \A w : w \in InTable' <=> w \in InTable \/ w = p.job
      BY <2>13 DEF InTable
    <3> QED BY <3>1
  <2> QED BY <1>3, <2>1, <2>2, <2>3, <2>4, <2>5, <2>6, <2>10, <2>12, <2>13, <2>14, <2>15 DEF Commits
<1> QED BY <1>1, <1>2, <1>3, TableWrites

\* What has been committed and not settled stays in the pass.
LEMMA NextQueued == ASSUME TInv, TInv', PInv, Remembers, Queued, [Next]_vars PROVE Queued'
<1>1. ASSUME NEW n \in Waiting', pubs'[n].job \in InTable'
      PROVE  /\ status'[pubs'[n].job] # "pending"
             /\ \A m \in publisher'.todo : n <= m => n \in publisher'.todo
  <2>1. ASSUME n \in Waiting, pubs'[n].job = pubs[n].job, status[pubs[n].job] # "pending",
               \A m \in publisher.todo : n <= m => n \in publisher.todo
        PROVE  /\ status'[pubs'[n].job] # "pending"
               /\ \A m \in publisher'.todo : n <= m => n \in publisher'.todo
    <3>1. n \in DOMAIN pubs /\ pubs[n].state = "pending" /\ pubs'[n].state = "pending"
      BY <1>1, <2>1 DEF Waiting
    <3>2. pubs[n].job \in Accepted
      BY <3>1 DEF TInv, PubsFit, PubFits
    <3>3. status'[pubs[n].job] # "pending"
      BY <2>1, <3>2, EndedStays
    <3>4. ASSUME NEW m \in publisher'.todo, n <= m PROVE n \in publisher'.todo
      <4>1. m \in Nat /\ n \in Nat
        <5>1. pubs \in Seq(Pubs) /\ publisher'.todo \in SUBSET Nat
          BY DEF TInv, Shape, Publishers
        <5> QED BY <3>1, <5>1
      <4>2. CASE n < m
        <5>1. m \in publisher.todo => n \in publisher.todo
          BY <2>1, <3>4
        <5> QED BY <2>1, <3>1, <3>4, <4>2, <5>1, TodoStays
      <4> QED BY <3>4, <4>1, <4>2
    <3> QED BY <2>1, <3>3, <3>4
  <2>2. CASE InTable' = InTable
    <3>1. n \in Waiting /\ pubs'[n].job = pubs[n].job
      BY <1>1, <2>2, WaitingStays
    <3>2. pubs[n].job \in InTable
      BY <1>1, <2>2, <3>1
    <3> QED BY <2>1, <3>1, <3>2 DEF Queued
  <2>3. CASE \E c : Commits(c)
    <3>1. PICK c : Commits(c)
      BY <2>3
    <3>2. Waiting' = Waiting /\ pubs' = pubs
      BY <3>1 DEF Commits, Waiting
    <3>3. CASE pubs[n].job \in InTable
      BY <1>1, <2>1, <3>2, <3>3 DEF Queued
    <3>4. CASE pubs[n].job = pubs[c].job
      <4>1. n \in DOMAIN pubs /\ c \in DOMAIN pubs /\ n \in Waiting
        BY <1>1, <3>1, <3>2 DEF Commits, Waiting
      <4>2. n = c
        BY <3>4, <4>1 DEF TInv, OneHand
      <4>3. n \in publisher.todo /\ status[pubs[n].job] # "pending"
        BY <3>1, <4>2 DEF Commits, Commit, Queued, Current
      <4> QED BY <2>1, <3>2, <4>1, <4>3
    <3> QED BY <1>1, <3>1, <3>2, <3>3, <3>4 DEF Commits
  <2> QED BY <1>1, <2>2, <2>3, SnapsMove
<1>2. publisher'.at = "commit" => (status[Current.job] # "pending")'
  BY CommitsWhatEnded
<1> QED BY <1>1, <1>2 DEF Queued

\* There are finitely many publications.
LEMMA FewWait ==
    ASSUME TInv, NEW n
    PROVE  /\ IsFiniteSet(Waiting) /\ Cardinality(Waiting) \in Nat
           /\ IsFiniteSet(Ahead(n)) /\ Cardinality(Ahead(n)) \in Nat
<1>1. pubs \in Seq(Pubs) /\ Len(pubs) \in Nat /\ DOMAIN pubs = 1 .. Len(pubs)
  BY DEF TInv, Shape
<1>2. IsFiniteSet(1 .. Len(pubs)) /\ Waiting \subseteq 1 .. Len(pubs)
  BY <1>1, FS_Interval DEF Waiting
<1>3. IsFiniteSet(Waiting)
  BY <1>2, FS_Subset
<1>4. Ahead(n) \subseteq Waiting
  BY DEF Ahead
<1>5. IsFiniteSet(Ahead(n))
  BY <1>3, <1>4, FS_Subset
<1> QED BY <1>3, <1>5, FS_CardinalityType

\* What is ahead of a publication has been there as long as it.
LEMMA AheadStays ==
    ASSUME TInv, TInv', PInv, [Next]_vars, InTable' = InTable, NEW n \in Waiting, n \in Waiting'
    PROVE  Ahead(n)' \subseteq Ahead(n)
<1> SUFFICES ASSUME NEW m \in Waiting', m < n, pubs'[m].job \notin InTable
             PROVE  m \in Ahead(n)
  BY DEF Ahead
<1>1. /\ pubs \in Seq(Pubs) /\ Len(pubs) \in Nat /\ DOMAIN pubs = 1 .. Len(pubs)
      /\ pubs' \in Seq(Pubs) /\ Len(pubs') \in Nat /\ DOMAIN pubs' = 1 .. Len(pubs')
  BY DEF TInv, Shape
<1>2. m \in DOMAIN pubs
  BY <1>1 DEF Waiting
<1>3. m \in Waiting /\ pubs'[m].job = pubs[m].job
  BY <1>2, WaitingStays
<1> QED BY <1>3 DEF Ahead

\* A commit after another is of a publication that was ahead of it, and is no more.
LEMMA NextFew == ASSUME TInv, TInv', PInv, Remembers, Queued, Short, Few, [Next]_vars PROVE Few'
<1> SUFFICES ASSUME NEW n \in Waiting', pubs'[n].job \in InTable'
             PROVE  \E k : Recalled(n, k)'
  BY DEF Few
<1>1. /\ Len(table.snaps) \in Nat /\ DOMAIN table.snaps = 1 .. Len(table.snaps)
      /\ RetainLast \in Nat
  BY TableKnows, ConstantFacts
<1>2. /\ IsFiniteSet(Waiting) /\ Cardinality(Waiting) \in Nat /\ IsFiniteSet(Ahead(n))
      /\ Cardinality(Ahead(n)) \in Nat
  BY FewWait
<1>3. IsFiniteSet(Ahead(n)') /\ Cardinality(Ahead(n)') \in Nat
  <2>1. pubs' \in Seq(Pubs) /\ Len(pubs') \in Nat /\ DOMAIN pubs' = 1 .. Len(pubs')
    BY DEF TInv, Shape
  <2>2. IsFiniteSet(1 .. Len(pubs')) /\ Ahead(n)' \subseteq 1 .. Len(pubs')
    BY <2>1, FS_Interval DEF Ahead, Waiting
  <2>3. IsFiniteSet(Ahead(n)')
    BY <2>2, FS_Subset
  <2> QED BY <2>3, FS_CardinalityType
<1>4. CASE table'.snaps = table.snaps /\ InTable' = InTable
  <2>1. n \in Waiting /\ pubs'[n].job = pubs[n].job
    BY <1>4, WaitingStays
  <2>2. PICK k : Recalled(n, k)
    BY <1>4, <2>1 DEF Few
  <2>3. Ahead(n)' \subseteq Ahead(n)
    BY <1>4, <2>1, AheadStays
  <2>4. Cardinality(Ahead(n)') <= Cardinality(Ahead(n))
    BY <1>2, <2>3, FS_Subset
  <2>5. k \in DOMAIN table.snaps /\ (Len(table.snaps) - k) + 2 * Cardinality(Ahead(n)) < RetainLast
    BY <2>2 DEF Recalled
  <2>6. (Len(table.snaps) - k) + 2 * Cardinality(Ahead(n)') < RetainLast
    BY <1>1, <1>2, <1>3, <2>4, <2>5
  <2>7. Recalled(n, k)'
    BY <1>4, <2>1, <2>2, <2>6 DEF Recalled
  <2> QED BY <2>7
<1>5. ASSUME NEW c, Commits(c) PROVE \E k : Recalled(n, k)'
  <2>1. /\ pubs' = pubs /\ Waiting' = Waiting /\ n \in Waiting /\ c \in Waiting
        /\ n \in DOMAIN pubs /\ c \in DOMAIN pubs /\ n \in Nat /\ c \in Nat
    BY <1>5 DEF Commits, Waiting, TInv, Shape
  <2>2. \A m \in Waiting : pubs[m].job = pubs[c].job => m = c
    BY <2>1 DEF TInv, OneHand, Waiting
  <2>3. Ahead(n)' = Ahead(n) \ {c}
    BY <1>5, <2>1, <2>2 DEF Ahead, Commits
  <2>4. PICK l \in Nat, u \in Nat : l = Len(table.snaps) /\ u = Len(table'.snaps) /\ u <= l + 2
    BY <1>1, <1>5 DEF Commits
  <2>5. PICK b \in Nat : b = Cardinality(Ahead(n)')
    BY <1>3
  <2>6. CASE n = c
    <3>1. Ahead(n)' \subseteq Waiting \ {c}
      BY <2>3 DEF Ahead
    <3>2. IsFiniteSet(Waiting \ {c}) /\ Cardinality(Waiting \ {c}) = Cardinality(Waiting) - 1
      BY <1>2, <2>1, FS_RemoveElement
    <3>3. b <= Cardinality(Waiting) - 1
      BY <2>5, <3>1, <3>2, FS_Subset
    <3>4. 2 * b < RetainLast
      BY <1>1, <1>2, <3>3 DEF Short
    <3>5. (u - u) + 2 * b < RetainLast
      BY <3>4
    <3>6. u \in DOMAIN table'.snaps /\ table'.snaps[u].write = pubs[c].job
      BY <1>5, <2>4 DEF Commits
    <3>7. Recalled(n, u)'
      BY <2>1, <2>4, <2>5, <2>6, <3>5, <3>6 DEF Recalled
    <3> QED BY <3>7
  <2>7. CASE n # c
    <3>1. pubs[n].job # pubs[c].job
      BY <2>1, <2>2, <2>7
    <3>2. pubs[n].job \in InTable
      BY <1>5, <2>1, <3>1 DEF Commits
    <3>3. PICK k : Recalled(n, k)
      BY <2>1, <3>2 DEF Few
    <3>4. c < n
      <4>1. n <= c => n \in publisher.todo
        BY <1>5, <2>1, <3>2 DEF Queued, Commits
      <4>2. n \in publisher.todo => c <= n
        BY <1>5 DEF Commits
      <4> QED BY <2>1, <2>7, <4>1, <4>2
    <3>5. c \in Ahead(n)
      BY <1>5, <2>1, <3>4 DEF Ahead, Commits
    <3>6. b = Cardinality(Ahead(n)) - 1
      <4>1. Cardinality(Ahead(n) \ {c}) = Cardinality(Ahead(n)) - 1
        BY <1>2, <3>5, FS_RemoveElement
      <4> QED BY <2>3, <2>5, <4>1
    <3>7. k \in Nat /\ k \in DOMAIN table.snaps /\ (l - k) + 2 * Cardinality(Ahead(n)) < RetainLast
      BY <1>1, <2>4, <3>3 DEF Recalled
    <3>8. (u - k) + 2 * b < RetainLast
      <4>1. PICK a \in Nat : a = Cardinality(Ahead(n))
        BY <1>2
      <4>2. b = a - 1 /\ (l - k) + 2 * a < RetainLast
        BY <3>6, <3>7, <4>1
      <4>3. k \in Nat /\ l \in Nat /\ u \in Nat /\ u <= l + 2 /\ RetainLast \in Nat
        BY <1>1, <2>4, <3>7
      <4>4. b \in Nat
        BY <2>5
      <4> QED BY <4>1, <4>2, <4>3, <4>4
    <3>9. k \in DOMAIN table'.snaps /\ table'.snaps[k].write = pubs[n].job
      BY <1>5, <3>3, <3>7 DEF Commits, Recalled
    <3>10. Recalled(n, k)'
      BY <2>1, <2>4, <2>5, <3>8, <3>9 DEF Recalled
    <3> QED BY <3>10
  <2> QED BY <2>6, <2>7
<1> QED BY <1>4, <1>5, SnapsMove

\* So what may be committed again is remembered.
LEMMA FewRemembers == ASSUME TInv, PInv, NewestKept, Few PROVE Remembers
<1> SUFFICES ASSUME NEW n \in DOMAIN pubs, Replayable(n), pubs[n].job \in InTable
             PROVE  HasWrite(table, pubs[n].job)
  BY DEF Remembers, InTable
<1>1. PICK m \in DOMAIN pubs : pubs[m].job = pubs[n].job /\ pubs[m].kind \in {"ingest", "optimize"}
  BY DEF PInv, SnapsFit, InTable
<1>2. m = n
  BY <1>1 DEF TInv, OneHand
<1>3. n \in Waiting
  BY <1>1, <1>2 DEF Waiting, Replayable
<1>4. PICK k : Recalled(n, k)
  BY <1>3 DEF Few
<1>5. k \in DOMAIN table.snaps /\ table.snaps[k].write = pubs[n].job /\ Len(table.snaps) - k < RetainLast
  <2>1. Cardinality(Ahead(n)) \in Nat
    BY FewWait
  <2>2. Len(table.snaps) \in Nat /\ DOMAIN table.snaps = 1 .. Len(table.snaps) /\ RetainLast \in Nat
    BY TableKnows, ConstantFacts
  <2> QED BY <1>4, <2>1, <2>2 DEF Recalled
<1>6. k \in table.kept
  BY <1>5 DEF NewestKept
<1> QED BY <1>5, <1>6 DEF HasWrite

\* Where snapshots enough are retained for what waits for its commit, two for each but
\* the last, because an overwrite makes two, the contents of the table are what is
\* promised, through crashes and expiries together: rows once, no readable file removed,
\* nothing seen but imports (reconcile, which takes them in the order of their creation;
\* commit_files, expire_snapshots).
THEOREM ShortQueueKeepsContents ==
    Spec /\ []Short => [](RowsOnce /\ NoDanglingFile) /\ KeepsContents
<1>1. Init => PInv /\ NewestKept /\ Queued /\ Few
  <2>1. Init => PInv
    BY InitPInv
  <2>2. ASSUME Init PROVE NewestKept /\ Queued /\ Few
    <3>1. table.snaps = <<>> /\ pubs = <<>> /\ publisher.at = "idle"
      BY <2>2 DEF Init, Resting
    <3> QED BY <3>1 DEF NewestKept, Queued, Few, Waiting
  <2> QED BY <2>1, <2>2
<1>2. TInv /\ PInv /\ NewestKept /\ Few => Remembers
  BY FewRemembers
<1>3. TInv /\ TInv' /\ PInv /\ NewestKept /\ Queued /\ Few /\ Short /\ [Next]_vars
        => PInv' /\ NewestKept' /\ Queued' /\ Few'
  BY <1>2, NextPInv, NextNewestKept, NextQueued, NextFew
<1>4. Spec /\ []Short => []Remembers
  BY <1>1, <1>2, <1>3, PublicationsAreConsistent, PTL DEF Spec
<1> QED BY <1>4, RememberedContents, TableKeepsContents, PTL
=============================================================================
