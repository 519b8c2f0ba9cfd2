---------------------------- MODULE TableContents ----------------------------
(***************************************************************************)
(* What the data platform promises to whoever reads a managed table: the   *)
(* rows change by one import at a time, each import comes in once, and     *)
(* nothing else shows.  How they are kept in files and snapshots, and when *)
(* these are rewritten, expired or committed again, is not seen.           *)
(* `Publications' implements it.                                           *)
(***************************************************************************)
EXTENDS Integers

CONSTANT Imported     \* the writes that bring in the rows of an import

VARIABLES
  id,        \* which table has the name, or had it last
  rows,      \* the imports whose rows it shows
  written    \* those that have come in

contents == <<id, rows, written>>

Init == id \in Nat /\ rows = {} /\ written = {}

\* A new table under the name.
Create == id' = id + 1 /\ rows' = {} /\ written' = {}

\* The rows of an import are added, or take the place of what was there.
ComesIn(w) ==
  /\ w \in Imported \ written /\ written' = written \cup {w} /\ id' = id
  /\ \/ rows' = rows \cup {w}
     \/ rows' = {w}

Next == Create \/ \E w \in Imported : ComesIn(w)

Spec == Init /\ [][Next]_contents
=============================================================================
