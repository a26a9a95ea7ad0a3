---------------------------- MODULE CaseRegistry ----------------------------
(***************************************************************************)
(* What the case index promises its callers: the rows of                   *)
(* api/services/case_history.py, changed by one operation of one           *)
(* organization at a time.  No file, no lock, no process: CaseIndex shows  *)
(* that the JSON file, its locks and its atomic replacement implement it.  *)
(***************************************************************************)
EXTENDS Integers, FiniteSets

CONSTANTS
    Cases,      \* case ids
    Orgs,       \* organizations
    NoCase,     \* no lineage
    NoRow,      \* the case is not in the index
    Statuses,   \* workflow statuses, "new" among them
    MaxTime     \* bound on updated_at, in seconds

VARIABLE rows

Times == 0..MaxTime
Rows  == [org : Orgs, time : Times, status : Statuses,
          remote : BOOLEAN, source : Cases \cup {NoCase}]
Index == [Cases -> Rows \cup {NoRow}]
Empty == [c \in Cases |-> NoRow]

\* The operations on one row, and prune_cases.
RowEdits ==
         [kind : {"register", "set_remote", "clear_remote", "mark_restored"},
          case : Cases]
    \cup [kind : {"update"}, case : Cases, status : Statuses]
    \cup [kind : {"lineage"}, case : Cases, source : Cases]
Deletes  == [kind : {"delete"}, case : Cases, files : BOOLEAN]
Prunes   == [kind : {"prune"}, keep : Nat, cutoff : Nat, files : BOOLEAN]

\* _row_in_scope: a service of organization o sees only its own rows.
InScope(index, o, c) == index[c] # NoRow /\ index[c].org = o
Scope(index, o) == {c \in Cases : InScope(index, o, c)}

NewRow(o, t) == [org |-> o, time |-> t, status |-> "new",
                 remote |-> FALSE, source |-> NoCase]

\* The guard of an edit: KeyError or ValueError otherwise.
Applicable(e, o, index) ==
    CASE e.kind = "register" -> index[e.case] = NoRow
      [] e.kind = "lineage"  -> /\ InScope(index, o, e.case)
                                /\ InScope(index, o, e.source)
                                /\ e.case # e.source
      [] e.kind = "mark_restored" -> /\ InScope(index, o, e.case)
                                     /\ index[e.case].remote
      [] OTHER               -> InScope(index, o, e.case)

\* The row an edit at time t writes.
EditedRow(e, o, index, t) ==
    CASE e.kind = "register" -> NewRow(o, t)
      [] e.kind = "update" ->
            [index[e.case] EXCEPT !.status = e.status, !.time = t]
      [] e.kind = "lineage" ->
            [index[e.case] EXCEPT !.source = e.source, !.time = t]
      [] e.kind = "set_remote" -> [index[e.case] EXCEPT !.remote = TRUE]
      [] e.kind = "clear_remote" -> [index[e.case] EXCEPT !.remote = FALSE]
      [] OTHER -> index[e.case]   \* who restored it when: not kept here

Edited(e, o, index, t) ==
    [index EXCEPT ![e.case] = EditedRow(e, o, index, t)]

Without(index, gone) ==
    [c \in Cases |-> IF c \in gone THEN NoRow ELSE index[c]]

\* The keep rows of o that were updated last; ties are settled by the order
\* of the index file, which is left open.
NewestSets(index, o, keep) ==
    {K \in SUBSET Scope(index, o) :
        /\ \A k \in K, c \in Scope(index, o) \ K :
              index[k].time >= index[c].time
        /\ \/ Cardinality(K) = keep
           \/ Cardinality(K) < keep /\ K = Scope(index, o)}

\* Rows prune_cases may drop when it keeps the newest set K.
Prunable(index, o, K, cutoff) ==
    {c \in Scope(index, o) \ K : index[c].time < cutoff}

-----------------------------------------------------------------------------
Edit(o, before, after) ==
    \E e \in RowEdits, t \in Times :
        Applicable(e, o, before) /\ after = Edited(e, o, before, t)

\* delete_case and prune_cases: rows without a remote replica.
Drop(o, before, after) ==
    \E gone \in SUBSET Scope(before, o) :
        /\ \A c \in gone : ~before[c].remote
        /\ after = Without(before, gone)

Change(o, before, after) ==
    \/ Edit(o, before, after)
    \/ Drop(o, before, after)

Init == rows = Empty

\* The index file is damaged from outside: its rows are gone.
Lose == rows' = Empty

Next == (\E o \in Orgs : Change(o, rows, rows')) \/ Lose

Spec == Init /\ [][Next]_rows
=============================================================================
