---------------------------- MODULE Publications ----------------------------
(***************************************************************************)
(* Writes to a managed table of the data platform and to a materialized    *)
(* view of it.  A request (complete an import, optimize, expire, drop,     *)
(* refresh) is a handler in the API process; the work is a batch job; when *)
(* the job has ended the publisher, a loop in the same process, commits    *)
(* the files the job wrote and settles the records.  The batch jobs are    *)
(* known by their contract only, and the tables by `IcebergTable'.         *)
(*                                                                         *)
(* One process: handlers and publisher interleave where they await.  What  *)
(* the process had not stored is lost when it crashes.  A job is its own   *)
(* write id: every submission makes a new one.                             *)
(***************************************************************************)
EXTENDS IcebergTable

CONSTANTS
  Imports,     \* the imports
  Modes,       \* what each may do: some of "create", "append", "overwrite"
  Requests,    \* [op, of, n]: op "complete", "optimize", "expire", "drop" or
               \* "refresh"; of is the import that is completed, or
               \* whether a full refresh is asked for
  Existing,    \* whether the table is there, created empty, at first
  Ends,        \* how batch jobs may end: some of the outcomes of JobContract
  RetainLast,  \* retain_last of an expiry
  PassSize,    \* how many publications one pass of the publisher takes at most
  MaxJobs,     \* bound: batch jobs submitted
  MaxServing,  \* bound: requests served at one time
  Faults,      \* what may go wrong: some of AllFaults
  MaxFaults    \* bound: how often, together

AllFaults == {"crash", "compute", "error"}
Maintenance == {q \in Requests : q.op \in {"optimize", "expire", "refresh"}}
Jobs == 1..MaxJobs

ASSUME PublicationsAssumption ==
  /\ {MaxJobs, MaxServing, RetainLast, PassSize} \subseteq Nat \ {0} /\ MaxFaults \in Nat /\ Faults \subseteq AllFaults
  /\ Existing \in BOOLEAN /\ Ends \subseteq {"succeeded", "failed", "cancelled"}
  /\ Modes \in [Imports -> SUBSET {"create", "append", "overwrite"}]
  /\ \A q \in Requests :
       /\ q.op \in {"complete", "optimize", "expire", "drop", "refresh"}
       /\ q.op = "complete" => q.of \in Imports
       /\ q.op = "refresh" => q.of \in BOOLEAN

VARIABLES
  table,      \* the table of that name: its id, whether it is there, its snapshots
  view,       \* the view: its snapshots, and the source snapshot it was read from
  deleted,    \* paths of data files removed from object storage
  import,     \* status of each import
  mode,       \* and what it does to the table
  run,        \* maintenance_runs: status and table (0: the view) of each
  status,     \* the batch jobs, as JobContract describes them
  payload,    \* what each job has been asked to do: op, files and the rows in them
  pubs,       \* the publications, in the order of their creation
  handler,    \* the requests being served
  publisher,  \* the publishing loop
  faults

vars == <<table, view, deleted, import, mode, run, status, payload, pubs, handler, publisher, faults>>
records == <<import, mode, run>>
compute == <<status, payload>>

Contract == INSTANCE JobContract

NoWork == [op |-> "none", files |-> {}, rows |-> {}]
NoRun == [status |-> "none", table |-> 0]
Never == [id |-> 0, n |-> 0]       \* no source snapshot
NotYet == [at |-> "start", job |-> 0, table |-> 0, files |-> {}, full |-> TRUE,
           info |-> Never, source |-> Never]
Resting == [at |-> "idle", todo |-> {}, job |-> 0, state |-> "done"]

Entries == [path : Jobs, rows : SUBSET Jobs, at : DOMAIN table.snaps]

\* The records keep their shape, a publication is of a job that was accepted, and a
\* snapshot holds files some job has written.
TypeOK ==
  /\ table.id \in Nat /\ table.live \in BOOLEAN /\ table.kept \subseteq DOMAIN table.snaps
  /\ \A n \in DOMAIN table.snaps :
       table.snaps[n] \in [op : {"append", "overwrite", "delete"}, write : Jobs, files : SUBSET Entries]
  /\ view.since.id \in 0..table.id /\ view.kept = DOMAIN view.snaps
  /\ deleted \subseteq Jobs
  /\ import \in [Imports -> {"none", "awaiting_upload", "queued", "inferring", "ingesting",
                             "succeeded", "failed"}]
  /\ mode \in [Imports -> {"create", "append", "overwrite"}]
  /\ run \in [Maintenance -> [status : {"none", "running", "succeeded", "failed", "skipped"},
                              table : 0..table.id]]
  /\ status \in [Jobs -> {"absent", "pending"} \cup Contract!Outcomes]
  /\ \A n \in DOMAIN pubs :
       /\ pubs[n].state \in {"pending", "done", "failed"}
       /\ status[pubs[n].job] # "absent"
       /\ pubs[n].kind = "ingest" => pubs[n].table \in 1..table.id
  /\ \A q \in Requests :
       handler[q].at \in {"start", "work", "plan", "post", "insert", "over"}
  /\ publisher.at \in {"idle", "next", "create", "post", "insert", "commit", "settle",
                       "fail", "mark"}
  /\ faults \in 0..MaxFaults

Init ==
  /\ table = [id |-> IF Existing THEN 1 ELSE 0, live |-> Existing, snaps |-> <<>>, kept |-> {}]
  /\ view = [since |-> Never, status |-> "refreshing", snaps |-> <<>>, kept |-> {}]
  /\ deleted = {}
  /\ import = [i \in Imports |-> "none"]
  /\ mode = [i \in Imports |-> "create"]
  /\ run = [q \in Maintenance |-> NoRun]
  /\ Contract!Init
  /\ payload = [j \in Jobs |-> NoWork]
  /\ pubs = <<>>
  /\ handler = [q \in Requests |-> NotYet]
  /\ publisher = Resting
  /\ faults = 0

Fault(kind) == kind \in Faults /\ faults < MaxFaults /\ faults' = faults + 1

-----------------------------------------------------------------------------
(* The catalogue.                                                          *)

IsThere(id) == table.live /\ table.id = id

\* create_managed_table: the row claims the name, then the metadata is made.
NewTable == [id |-> table.id + 1, live |-> TRUE, snaps |-> <<>>, kept |-> {}]

\* delete_securable, then drop: the runs of the table go with its row.
Dropped == [table EXCEPT !.live = FALSE]
RunsWithout(id) == [q \in Maintenance |-> IF run[q].table = id THEN NoRun ELSE run[q]]

\* running: another maintenance operation of the table.
Running(id) == \E q \in Maintenance : run[q] = [status |-> "running", table |-> id]

-----------------------------------------------------------------------------
(* Batch jobs.                                                             *)

AllEntries == UNION {FilesAt(table, n) : n \in DOMAIN table.snaps}
NextJob == CHOOSE j \in Jobs : status[j] = "absent" /\ \A k \in Jobs : k < j => status[k] # "absent"

Post(op, files) ==
  /\ \E j \in Jobs : status[j] = "absent"
  /\ Contract!Accept(NextJob)
  /\ payload' = [payload EXCEPT ![NextJob] = [op |-> op, files |-> files,
                     rows |-> Rows({e \in AllEntries : e.path \in files})]]

\* What a job writes or removes it does before it ends; a rewrite needs its
\* files, a job that removes files may fail after some of them.
JobEnds(j) ==
  /\ \E o \in Ends :
       /\ Contract!End(j, o)
       /\ o = "succeeded" /\ payload[j].op \in {"optimize", "refresh"} => payload[j].files \cap deleted = {}
       /\ IF payload[j].op # "delete" THEN deleted' = deleted
          ELSE IF o = "succeeded" THEN deleted' = deleted \cup payload[j].files
          ELSE \E D \in SUBSET payload[j].files : deleted' = deleted \cup D
  /\ UNCHANGED <<table, view, records, payload, pubs, handler, publisher, faults>>

\* submit, second half: the publication is stored.
Publication(kind, of, j, id) ==
  [job |-> j, kind |-> kind, of |-> of, table |-> id, state |-> "pending",
   created |-> FALSE, full |-> TRUE, source |-> Never]

-----------------------------------------------------------------------------
(* Requests.                                                               *)

At(q, a) == handler' = [handler EXCEPT ![q].at = a]
EndRequest(q) == At(q, "over")

\* create_import; what it checks of the table is not checked again.
CreateImport(i) ==
  /\ import[i] = "none"
  /\ \E m \in Modes[i] :
       /\ table.live <=> m # "create"
       /\ mode' = [mode EXCEPT ![i] = m]
  /\ import' = [import EXCEPT ![i] = "awaiting_upload"]
  /\ UNCHANGED <<table, view, deleted, run, compute, pubs, handler, publisher, faults>>

\* What a handler checks before it first awaits; refused, it is over.
Arrive(q) ==
  /\ handler[q].at = "start"
  /\ Cardinality({r \in Requests : handler[r].at \notin {"start", "over"}}) < MaxServing
  /\ \/ /\ q.op = "complete" /\ import[q.of] # "none"
        /\ At(q, IF import[q.of] = "awaiting_upload" THEN "work" ELSE "over")
     \/ /\ q.op \in {"optimize", "expire"} /\ table.live
        /\ handler' = [handler EXCEPT ![q].at = IF Running(table.id) THEN "over" ELSE "work",
                                      ![q].table = table.id]
     \/ /\ q.op = "refresh"
        /\ handler' = [handler EXCEPT ![q].at = IF Running(0) THEN "over" ELSE "work",
                                      ![q].info = view.since]
  /\ UNCHANGED <<table, view, deleted, records, compute, pubs, publisher, faults>>

\* complete_import: the upload is complete; the import is queued before its job
\* is submitted, and a table that is gone is found out after.
Queue(q) ==
  /\ handler[q].at = "work" /\ q.op = "complete"
  /\ import' = [import EXCEPT ![q.of] = "queued"]
  /\ IF mode[q.of] = "create" \/ table.live
     THEN handler' = [handler EXCEPT ![q].at = "post", ![q].table = table.id]
     ELSE EndRequest(q)
  /\ UNCHANGED <<table, view, deleted, mode, run, compute, pubs, publisher, faults>>

\* The upload is not there, or storage does not answer.
NotUploaded(q) ==
  /\ handler[q].at = "work" /\ q.op = "complete"
  /\ EndRequest(q)
  /\ UNCHANGED <<table, view, deleted, records, compute, pubs, publisher, faults>>

\* optimize: the files are planned and the run is recorded; nothing to do is
\* recorded as skipped.
PlanOptimize(q) ==
  /\ handler[q].at = "work" /\ q.op = "optimize"
  /\ IF ~IsThere(handler[q].table)
     THEN EndRequest(q) /\ run' = run
     ELSE \E old \in SUBSET Paths(CurrentFiles(table)) :
            /\ run' = [run EXCEPT ![q] = [table |-> table.id,
                                          status |-> IF old = {} THEN "skipped" ELSE "running"]]
            /\ handler' = [handler EXCEPT ![q].at = IF old = {} THEN "over" ELSE "post",
                                          ![q].files = old]
  /\ UNCHANGED <<table, view, deleted, import, mode, compute, pubs, publisher, faults>>

\* expire: snapshots are forgotten at once, the files only they had by a job.
PlanExpire(q) ==
  /\ handler[q].at = "work" /\ q.op = "expire"
  /\ IF ~IsThere(handler[q].table)
     THEN EndRequest(q) /\ UNCHANGED <<run, table>>
     ELSE \E n \in 1..(CurrentSnapshot(table) + 1) :
            LET paths == Unreferenced(table, n) IN
            /\ MayExpire(table, n, RetainLast)
            /\ table' = Expired(table, n)
            /\ run' = [run EXCEPT ![q] = [table |-> table.id,
                                          status |-> IF paths = {} THEN "succeeded" ELSE "running"]]
            /\ handler' = [handler EXCEPT ![q].at = IF paths = {} THEN "over" ELSE "post",
                                          ![q].files = paths]
  /\ UNCHANGED <<view, deleted, import, mode, compute, pubs, publisher, faults>>

\* start_refresh: what has been appended since the last refresh, as the handler
\* found it recorded; nothing is skipped, all of it when a full one is asked for.
FindAppended(q) ==
  /\ handler[q].at = "work" /\ q.op = "refresh"
  /\ LET info == handler[q].info
         added == IF ~q.of /\ table.live /\ info.id = table.id THEN AppendedSince(table, info.n)
                  ELSE [full |-> TRUE, paths |-> {}]
         none == ~added.full /\ added.paths = {}
     IN  /\ handler' = [handler EXCEPT ![q].at = IF none THEN "over" ELSE "plan",
                                       ![q].full = added.full, ![q].files = added.paths]
         /\ run' = IF none THEN [run EXCEPT ![q].status = "skipped"] ELSE run
  /\ UNCHANGED <<table, view, deleted, import, mode, compute, pubs, publisher, faults>>

\* The definition is planned on the snapshot the source has by now, restricted
\* to the files found before; the run is recorded.
PlanRefresh(q) ==
  /\ handler[q].at = "plan"
  /\ IF ~table.live
     THEN EndRequest(q) /\ run' = run
     ELSE /\ run' = [run EXCEPT ![q].status = "running"]
          /\ handler' = [handler EXCEPT
               ![q].at = "post",
               ![q].files = IF handler[q].full THEN Paths(CurrentFiles(table))
                            ELSE @ \cap Paths(CurrentFiles(table)),
               ![q].source = [id |-> table.id, n |-> CurrentSnapshot(table)]]
  /\ UNCHANGED <<table, view, deleted, import, mode, compute, pubs, publisher, faults>>

JobOf(q) == CASE q.op = "refresh" -> "refresh"
              [] q.op = "optimize" -> "optimize"
              [] q.op = "expire" -> "delete"
              [] q.op = "complete" -> IF mode[q.of] = "create" THEN "infer" ELSE "ingest"

\* A mutation: the publication is stored before its job is accepted.
InsertFirst(q) ==
  /\ handler[q].at = "post"
  /\ pubs' = Append(pubs, Publication(JobOf(q), q, NextJob, handler[q].table))
  /\ At(q, "insert")
  /\ UNCHANGED <<table, view, deleted, records, compute, publisher, faults>>

\* The job is accepted; or compute does not answer, and nothing is undone.
PostJob(q) ==
  /\ handler[q].at = "post"
  /\ \/ /\ JobOf(q) = "ingest" => IsThere(handler[q].table)
        /\ Post(JobOf(q), handler[q].files)
        /\ handler' = [handler EXCEPT ![q].at = "insert", ![q].job = NextJob]
        /\ faults' = faults
     \/ /\ JobOf(q) = "ingest" /\ ~IsThere(handler[q].table)
        /\ EndRequest(q)
        /\ UNCHANGED <<compute, faults>>
     \/ /\ Fault("compute")
        /\ EndRequest(q)
        /\ UNCHANGED compute
  /\ UNCHANGED <<table, view, deleted, records, pubs, publisher>>

\* The publication is stored and the record says what it waits for; that of a
\* view is written whole, as the handler read it when it started.
InsertPublication(q) ==
  /\ handler[q].at = "insert"
  /\ pubs' = Append(pubs, [Publication(JobOf(q), IF q.op = "complete" THEN q.of ELSE q,
                                       handler[q].job, handler[q].table)
                            EXCEPT !.full = handler[q].full, !.source = handler[q].source])
  /\ import' = IF q.op # "complete" THEN import
               ELSE [import EXCEPT ![q.of] = IF JobOf(q) = "infer" THEN "inferring" ELSE "ingesting"]
  /\ view' = IF q.op # "refresh" THEN view
             ELSE [view EXCEPT !.status = "refreshing", !.since = handler[q].info]
  /\ EndRequest(q)
  /\ UNCHANGED <<table, deleted, mode, run, compute, publisher, faults>>

\* The owner drops the table.
DropTable(q) ==
  /\ handler[q].at = "start" /\ q.op = "drop" /\ table.live
  /\ table' = Dropped
  /\ run' = RunsWithout(table.id)
  /\ handler' = [handler EXCEPT ![q].at = "over", ![q].table = table.id]
  /\ UNCHANGED <<view, deleted, import, mode, compute, pubs, publisher, faults>>

-----------------------------------------------------------------------------
(* The publisher.                                                          *)

\* The publications of a pass are taken in the order of their creation.
First(todo) == CHOOSE n \in todo : \A k \in todo : n <= k
Current == pubs[First(publisher.todo)]
GoOn(a) == publisher' = [publisher EXCEPT !.at = a]
ToFail == publisher' = [publisher EXCEPT !.at = "fail", !.state = "failed"]

\* Those still pending, the oldest PassSize of them.
Pending == {n \in DOMAIN pubs : pubs[n].state = "pending"}
Oldest(todo) == {n \in todo : Cardinality({k \in todo : k <= n}) <= PassSize}

\* reconcile: a pass begins.
Reconcile ==
  /\ publisher.at = "idle"
  /\ Pending # {}
  /\ publisher' = [Resting EXCEPT !.at = "next", !.todo = Oldest(Pending)]
  /\ UNCHANGED <<table, view, deleted, records, compute, pubs, handler, faults>>

\* A mutation: a job that was cancelled is taken for one that is still pending.
LookAtLive ==
  /\ publisher.at = "next" /\ publisher.todo # {}
  /\ publisher' = [publisher EXCEPT
         !.state = "done",
         !.todo = IF status[Current.job] \in {"pending", "cancelled"} THEN @ \ {First(@)} ELSE @,
         !.at = IF status[Current.job] \in {"pending", "cancelled"} THEN "next"
                ELSE IF status[Current.job] # "succeeded" THEN "fail"
                ELSE CASE Current.kind = "infer" -> "create"
                       [] Current.kind = "delete" -> "settle"
                       [] OTHER -> "commit"]
  /\ UNCHANGED <<table, view, deleted, records, compute, pubs, handler, faults>>

\* One publication: its job is looked at, and if it has ended, published or failed.
Look ==
  /\ publisher.at = "next" /\ publisher.todo # {}
  /\ publisher' = [publisher EXCEPT
         !.state = "done",
         !.todo = IF status[Current.job] = "pending" THEN @ \ {First(@)} ELSE @,
         !.at = IF status[Current.job] = "pending" THEN "next"
                ELSE IF status[Current.job] # "succeeded" THEN "fail"
                ELSE CASE Current.kind = "infer" -> "create"
                       [] Current.kind = "delete" -> "settle"
                       [] OTHER -> "commit"]
  /\ UNCHANGED <<table, view, deleted, records, compute, pubs, handler, faults>>

\* The pass ends: at its end, or because compute does not answer.
PassEnds ==
  /\ publisher.at = "next"
  /\ \/ publisher.todo = {} /\ faults' = faults
     \/ publisher.todo # {} /\ Fault("compute")
  /\ publisher' = Resting
  /\ UNCHANGED <<table, view, deleted, records, compute, pubs, handler>>

\* inferred: the table is created; a name that is taken is an error.
CreateTable ==
  /\ publisher.at = "create"
  /\ IF table.live
     THEN ToFail /\ UNCHANGED <<table, import>>
     ELSE /\ table' = NewTable
          /\ import' = [import EXCEPT ![Current.of] = "ingesting"]
          /\ GoOn("post")
  /\ UNCHANGED <<view, deleted, mode, run, compute, pubs, handler, faults>>

\* ingest, from inferred: the second job of a create-import.
PostIngest ==
  /\ publisher.at = "post"
  /\ \/ /\ table.live
        /\ Post("ingest", {})
        /\ publisher' = [publisher EXCEPT !.at = "insert", !.job = NextJob]
        /\ faults' = faults
     \/ /\ ~table.live
        /\ ToFail /\ UNCHANGED <<compute, faults>>
     \/ /\ Fault("compute")
        /\ ToFail /\ UNCHANGED compute
  /\ UNCHANGED <<table, view, deleted, records, pubs, handler>>

InsertIngest ==
  /\ publisher.at = "insert"
  /\ pubs' = Append(pubs, [Publication("ingest", Current.of, publisher.job, table.id)
                            EXCEPT !.created = TRUE])
  /\ import' = [import EXCEPT ![Current.of] = "ingesting"]
  /\ GoOn("mark")
  /\ UNCHANGED <<table, view, deleted, mode, run, compute, handler, faults>>

\* The rows the job has written: those of the import, or of the old files.
Written(p) ==
  IF p.kind = "ingest" THEN {p.job} ELSE payload[p.job].rows

CommitMode(p) == IF mode[p.of] = "overwrite" THEN "overwrite" ELSE "append"

Committed(p) ==
  IF p.kind = "ingest" THEN CommitFiles(table, CommitMode(p), p.job, Written(p))
  ELSE ReplaceFiles(table, p.job, payload[p.job].files, Written(p))

\* A mutation: the write id is not looked for.
CommitAgain ==
  LET p == Current IN
  /\ publisher.at = "commit"
  /\ IsThere(p.table)
  /\ table' = WithSnapshot(table, "append", p.job, CurrentFiles(table), Written(p))
  /\ GoOn("settle")
  /\ UNCHANGED <<view, deleted, records, compute, pubs, handler, faults>>

\* ingested, optimized: the table is looked up by its id, then committed to.
\* An error after the commit is treated as one before it.
Commit ==
  LET p == Current IN
  /\ publisher.at = "commit" /\ p.kind # "refresh"
  /\ IF ~IsThere(p.table) \/ (p.kind = "optimize" /\ IsGone(table, p.job, payload[p.job].files))
     THEN ToFail /\ UNCHANGED <<table, faults>>
     ELSE \/ table' = Committed(p) /\ GoOn("settle") /\ faults' = faults
          \/ Fault("error") /\ ToFail /\ table' \in {table, Committed(p)}
  /\ UNCHANGED <<view, deleted, records, compute, pubs, handler>>

\* refreshed: an incremental refresh appends, a full one overwrites.
CommitRefresh ==
  LET p == Current
      committed == CommitFiles(view, IF p.full THEN "overwrite" ELSE "append", p.job, Written(p))
  IN
  /\ publisher.at = "commit" /\ p.kind = "refresh"
  /\ \/ view' = committed /\ GoOn("settle") /\ faults' = faults
     \/ Fault("error") /\ ToFail /\ view' \in {view, committed}
  /\ UNCHANGED <<table, deleted, records, compute, pubs, handler>>

\* The records: succeeded.  The state of a table that is gone is an error.
Settle ==
  LET p == Current IN
  /\ publisher.at = "settle"
  /\ IF p.kind \in {"ingest", "optimize"} /\ ~IsThere(p.table)
     THEN ToFail /\ UNCHANGED <<import, run, view>>
     ELSE /\ import' = IF p.kind = "ingest" THEN [import EXCEPT ![p.of] = "succeeded"] ELSE import
          /\ run' = IF p.kind # "ingest" /\ run[p.of] # NoRun
                    THEN [run EXCEPT ![p.of].status = "succeeded"] ELSE run
          /\ view' = IF p.kind # "refresh" THEN view
                     ELSE [view EXCEPT !.status = "fresh", !.since = p.source]
          /\ GoOn("mark")
  /\ UNCHANGED <<table, deleted, mode, compute, pubs, handler, faults>>

\* A mutation: any failure takes the table away, not only that of its creator.
FailAll ==
  LET p == Current IN
  /\ publisher.at = "fail"
  /\ import' = IF p.kind \in {"infer", "ingest"} THEN [import EXCEPT ![p.of] = "failed"] ELSE import
  /\ table' = IF IsThere(p.table) THEN Dropped ELSE table
  /\ run' = IF IsThere(p.table) THEN RunsWithout(p.table) ELSE run
  /\ GoOn("mark")
  /\ UNCHANGED <<view, deleted, mode, compute, pubs, handler, faults>>

\* fail: a create-import takes its table away with it.
Fail ==
  LET p == Current
      drop == p.created /\ IsThere(p.table) IN
  /\ publisher.at = "fail"
  /\ import' = IF p.kind \in {"infer", "ingest"} THEN [import EXCEPT ![p.of] = "failed"] ELSE import
  /\ table' = IF drop THEN Dropped ELSE table
  /\ run' = IF drop THEN RunsWithout(p.table)
            ELSE IF p.kind \in {"optimize", "delete", "refresh"} /\ run[p.of] # NoRun
                 THEN [run EXCEPT ![p.of].status = "failed"] ELSE run
  /\ view' = IF p.kind = "refresh" THEN [view EXCEPT !.status = "failed"] ELSE view
  /\ GoOn("mark")
  /\ UNCHANGED <<deleted, mode, compute, pubs, handler, faults>>

\* The publication is settled.
Mark ==
  /\ publisher.at = "mark"
  /\ pubs' = [pubs EXCEPT ![First(publisher.todo)].state = publisher.state]
  /\ publisher' = [publisher EXCEPT !.at = "next", !.todo = @ \ {First(@)}]
  /\ UNCHANGED <<table, view, deleted, records, compute, handler, faults>>

\* The process dies and is started again: the requests it was serving are over,
\* the publisher starts from what is stored.
Crash ==
  /\ Fault("crash")
  /\ publisher' = Resting
  /\ handler' = [q \in Requests |-> IF handler[q].at = "start" THEN handler[q]
                                    ELSE [handler[q] EXCEPT !.at = "over"]]
  /\ UNCHANGED <<table, view, deleted, records, compute, pubs>>

-----------------------------------------------------------------------------
Serve(q) ==
  \/ Arrive(q) \/ Queue(q) \/ NotUploaded(q) \/ PlanOptimize(q) \/ PlanExpire(q)
  \/ FindAppended(q) \/ PlanRefresh(q) \/ PostJob(q) \/ InsertPublication(q) \/ DropTable(q)

Publish ==
  \/ Reconcile \/ Look \/ PassEnds \/ CreateTable \/ PostIngest \/ InsertIngest
  \/ Commit \/ CommitRefresh \/ Settle \/ Fail \/ Mark

Next ==
  \/ \E i \in Imports : CreateImport(i)
  \/ \E q \in Requests : Serve(q)
  \/ Publish
  \/ \E j \in Jobs : JobEnds(j)
  \/ Crash

Spec == Init /\ [][Next]_vars

\* The publishing loop goes on, and the batch jobs end (JobEnds of ComputeJobs).
Fairness == WF_vars(Publish) /\ \A j \in Jobs : WF_vars(JobEnds(j))

LiveSpec == Spec /\ Fairness

-----------------------------------------------------------------------------
(* Properties.                                                             *)

\* Writes whose rows the table should have: those committed since the last
\* overwrite by an import, that one included.
Since(t) ==
  LET imports == {n \in DOMAIN t.snaps : payload[t.snaps[n].write].op = "ingest"}
      last == {n \in imports : t.snaps[n].op = "delete"}
  IN  {t.snaps[n].write : n \in {m \in imports : \A k \in last : m >= k}}

\* The rows of every committed write are in the table exactly once: a replayed
\* publication does not register its files twice, a rewrite neither loses nor
\* resurrects rows when another rewrite, an append, an overwrite or an expiry
\* came in between (commit_files, replace_files).
RowsOnce ==
  /\ \A e, f \in CurrentFiles(table) : e # f => e.rows \cap f.rows = {}
  /\ Rows(CurrentFiles(table)) = Since(table)

\* No snapshot that can still be read points at a file that has been deleted,
\* although files are deleted long after the expiry that chose them (expire).
NoDanglingFile ==
  table.live => (ReferencedFiles(table) \cup Paths(CurrentFiles(table))) \cap deleted = {}

\* The rows of publication p are in the table, or were until a later import
\* overwrote them, or its owner has dropped the table.
RowsThere(p) ==
  \/ IsThere(p.table) /\ \E m \in DOMAIN table.snaps :
       /\ table.snaps[m].write = p.job
       /\ \/ p.job \in Since(table)
          \/ \E k \in DOMAIN table.snaps : k > m /\ table.snaps[k].op = "delete"
  \/ \E q \in Requests : q.op = "drop" /\ handler[q].table = p.table

\* The table was taken away by the failure of the import that created it.
TakenAway(p) ==
  \E n \in DOMAIN pubs : pubs[n].created /\ pubs[n].table = p.table /\ import[pubs[n].of] = "failed"

Ingests(i) == {pubs[n] : n \in {m \in DOMAIN pubs : pubs[m].of = i /\ pubs[m].kind = "ingest"}}

\* An import that is reported as succeeded has its rows in the table, through
\* replays, late errors and rewrites, unless the owner has dropped the table or
\* the import that created it has failed (ingested, fail).
SucceededIsThere ==
  \A i \in Imports : import[i] = "succeeded" =>
    \E p \in Ingests(i) : RowsThere(p) \/ TakenAway(p)

\* A row of the source is in the view at most once: an incremental refresh does
\* not append what an earlier one has, although the source is compacted,
\* overwritten and dropped in between and refreshes are replayed (start_refresh,
\* refreshed; "so it can never append duplicates", OPERATIONS.md).
NoDuplicates == \A e, f \in CurrentFiles(view) : e # f => e.rows \cap f.rows = {}

Contents == INSTANCE TableContents WITH
  Imported <- Jobs, id <- table.id, rows <- Rows(CurrentFiles(table)),
  written <- {w \in {table.snaps[n].write : n \in DOMAIN table.snaps} : payload[w].op = "ingest"}

\* Whoever reads the table sees imports come in, each once, and nothing else: no
\* rewrite, expiry, replay, crash or late error shows in its rows (TableContents).
KeepsContents == Contents!Spec

\* Every publication is settled in the end, whatever crashes and errors happen
\* in between: once requests stop coming, none is pending (reconcile).
Settles == []<>(\A n \in DOMAIN pubs : pubs[n].state # "pending")

\* "A failed create-import leaves no empty table behind" (fail): the table it
\* takes away has no rows of an import that has succeeded.
OnlyEmptyTaken ==
  \A i \in Imports : import[i] = "succeeded" => \E p \in Ingests(i) : RowsThere(p)
=============================================================================
