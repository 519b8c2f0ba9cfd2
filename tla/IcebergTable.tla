---------------------------- MODULE IcebergTable ----------------------------
(***************************************************************************)
(* An Iceberg table as the table service of the data platform uses it: the *)
(* snapshots committed so far, each with the operation, the write id and   *)
(* the data files of the table after it.  A snapshot that has been expired *)
(* stays in the sequence, as history, but is no longer in kept.  Snapshots *)
(* are named by their position; 0 stands for no snapshot.  A data file is  *)
(* in the table as an entry: its path, the rows in it (named by the writes *)
(* they come from) and the snapshot that registered it, so that one file   *)
(* can be registered twice.                                                *)
(***************************************************************************)
EXTENDS Integers, Sequences, FiniteSets

CurrentSnapshot(t) == Len(t.snaps)
FilesAt(t, n) == IF n = 0 THEN {} ELSE t.snaps[n].files
CurrentFiles(t) == FilesAt(t, CurrentSnapshot(t))

\* The write id is looked for in the snapshots that have not been expired.
HasWrite(t, w) == \E n \in t.kept : t.snaps[n].write = w

Paths(entries) == {e.path : e \in entries}
Rows(entries) == UNION {e.rows : e \in entries}

\* The next snapshot, with the files it leaves and one new.
WithSnapshot(t, op, w, left, rows) ==
  LET n == Len(t.snaps) + 1
      entry == [path |-> w, rows |-> rows, at |-> n]
  IN  [t EXCEPT !.snaps = Append(@, [op |-> op, write |-> w, files |-> left \cup {entry}]),
                !.kept = @ \cup {n}]

\* transaction.delete of everything: a snapshot of its own, if there is a file.
Emptied(t, w) ==
  IF CurrentFiles(t) = {} THEN t
  ELSE [t EXCEPT !.snaps = Append(@, [op |-> "delete", write |-> w, files |-> {}]),
                 !.kept = @ \cup {Len(t.snaps) + 1}]

\* commit_files, one transaction: a write id that is found makes it a no-op.
CommitFiles(t, mode, w, rows) ==
  LET u == IF mode = "overwrite" THEN Emptied(t, w) ELSE t
  IN  IF HasWrite(t, w) THEN t ELSE WithSnapshot(u, "append", w, CurrentFiles(u), rows)

\* A mutation: a rewrite whose files are gone is let through.
NeverGone(t, w, old) == FALSE

\* replace_files: refused, before anything is written, when a file is gone.
IsGone(t, w, old) == ~HasWrite(t, w) /\ ~(old \subseteq Paths(CurrentFiles(t)))
ReplaceFiles(t, w, old, rows) ==
  IF HasWrite(t, w) THEN t
  ELSE WithSnapshot(t, "overwrite", w, {e \in CurrentFiles(t) : e.path \notin old}, rows)

\* referenced_files: what any snapshot still points at.
ReferencedFiles(t) == Paths(UNION {FilesAt(t, n) : n \in t.kept})

\* A mutation: neither the current snapshot nor the newest are spared.
MayExpireAny(t, n, retain) == TRUE

\* expire_snapshots: those before the n-th are dropped; never the current one,
\* nor the newest retain_last.
MayExpire(t, n, retain) ==
  Cardinality({k \in t.kept : k >= n}) >= IF retain < Cardinality(t.kept) THEN retain
                                          ELSE Cardinality(t.kept)
Expired(t, n) == [t EXCEPT !.kept = {k \in @ : k >= n}]
Unreferenced(t, n) == ReferencedFiles(t) \ ReferencedFiles(Expired(t, n))

\* A mutation: the snapshot read last time counts as new, and what came after it is
\* not looked at.
AppendedFrom(t, n) ==
  IF n = 0 THEN [full |-> TRUE, paths |-> {}]
  ELSE [full |-> FALSE, paths |-> Paths({e \in CurrentFiles(t) : e.at \in n..CurrentSnapshot(t)})]

\* appended_since: the files added after snapshot n if all that came after it
\* were appends and are still known; otherwise everything has to be read again.
AppendedSince(t, n) ==
  LET after == (n + 1)..CurrentSnapshot(t) IN
  IF n # 0 /\ CurrentSnapshot(t) # 0
     /\ (n = CurrentSnapshot(t)
         \/ /\ n..CurrentSnapshot(t) \subseteq t.kept
            /\ \A k \in after : t.snaps[k].op = "append")
  THEN [full |-> FALSE, paths |-> Paths({e \in CurrentFiles(t) : e.at \in after})]
  ELSE [full |-> TRUE, paths |-> {}]
=============================================================================
