--------------------------- MODULE HoldoutMembers ---------------------------
(***************************************************************************)
(* Normalization of an external corpus into one pair of files per member   *)
(* of its archive (scripts/p2_37_normalize_dedale_resumable.py and         *)
(* _sliced.py). The tools are run again and again until they are through;  *)
(* a run may be killed anywhere. A member counts once its marker is        *)
(* written, which holds hashes of its two files; a hash is modelled as the *)
(* content, sizes are counted in rows.                                     *)
(***************************************************************************)
EXTENDS Integers, Sequences, SequencesExt, FiniteSets

CONSTANTS
  Jobs,       \* what is to be done: [archive, window, normalizer, merge, old];
              \* old is the window of an earlier job in the same directory
  NoWindow,   \* no earlier job
  Absent,     \* the file does not exist
  Workers,    \* processes of the pool
  MaxRows,    \* source rows that one run of the sliced tool reads
  MaxCrashes, MaxFaults  \* bounds on what goes wrong

\* The source rows of the archives: [id, text, in].
Rows == UNION {UNION {Range(j.archive[i]) : i \in DOMAIN j.archive} : j \in Jobs}
RowTexts == {row.text : row \in Rows}
RowIds == {row.id : row \in Rows}
Windows == {j.window : j \in Jobs} \cup {j.old : j \in Jobs}

ASSUME MembersAssumption ==
  /\ {Workers, MaxRows} \subseteq Nat \ {0}
  /\ {MaxCrashes, MaxFaults} \subseteq Nat
  /\ \A j \in Jobs : /\ j.archive \in Seq(Seq(Rows)) /\ j.normalizer \in {"pool", "sliced"}
                     /\ j.merge \in {"strict", "dedupe", "whole"}
  /\ Absent \notin [window : Windows, corpus : Seq(RowTexts), ident : Seq(RowIds)]

VARIABLES
  job,      \* the job, constant
  corpus,   \* for each member: the file of its rows
  ident,    \* for each member: the file of the identities of its rows
  marker,   \* for each member: its marker
  cut,      \* for each member: the state of its slices
  tool,     \* the tool that runs: idle, pool, sliced, merge
  at,       \* where each member is in a run of the pool
  cursor,   \* the member a run of the sliced tool is at, and how far
  budget,   \* source rows this run of the sliced tool may still read
  result,   \* how the last run ended
  crashes, faults

fileVars == <<corpus, ident, marker, cut>>
runVars == <<at, cursor, budget>>
memberVars == <<job, fileVars, tool, runVars, result, crashes, faults>>

Members == DOMAIN job.archive

\* The numbers of a finite set in order, and the rows at these places.
Places(S) ==
  [n \in 1..Cardinality(S) |-> CHOOSE k \in S : Cardinality({j \in S : j < k}) = n - 1]
Pick(rows, S) == [n \in 1..Cardinality(S) |-> rows[Places(S)[n]]]

\* A source row names its identity, its normalized text and the windows of
\* time that it lies in.
Lying(i, w, from, to) == {k \in from..to : w \in job.archive[i][k].in}
Selected(i, w) == Pick(job.archive[i], Lying(i, w, 1, Len(job.archive[i])))
Texts(rows) == [k \in DOMAIN rows |-> rows[k].text]
Ids(rows) == [k \in DOMAIN rows |-> rows[k].id]

Marker(i, w) == [window |-> w, corpus |-> Texts(Selected(i, w)),
                 ident |-> Ids(Selected(i, w))]

\* Mutant of ValidMarker: only the sizes of the files are compared.
ValidMarkerBySize(i) ==
  /\ marker[i] # Absent /\ marker[i].window = job.window
  /\ corpus[i] # Absent /\ Len(corpus[i]) = Len(marker[i].corpus)
  /\ ident[i] # Absent /\ Len(ident[i]) = Len(marker[i].ident)

\* A marker counts when it is of this job and the files are those it names.
ValidMarker(i) ==
  /\ marker[i] # Absent /\ marker[i].window = job.window
  /\ corpus[i] = marker[i].corpus /\ ident[i] = marker[i].ident

NoSlices == [off |-> -1, eof |-> FALSE, parts |-> <<>>, stray |-> FALSE]

MembersInit ==
  /\ job \in Jobs
  /\ LET made(f(_, _)) == [i \in Members |-> IF job.old = NoWindow THEN Absent ELSE f(i, job.old)]
     IN  /\ corpus = made(LAMBDA i, w : Texts(Selected(i, w)))
         /\ ident = made(LAMBDA i, w : Ids(Selected(i, w)))
         /\ marker = made(Marker)
  /\ cut = [i \in Members |-> NoSlices]
  /\ tool = "idle" /\ result = "none"
  /\ at = [i \in Members |-> "idle"]
  /\ cursor = <<0, "idle">> /\ budget = 0
  /\ crashes = 0 /\ faults = 0

Fault == faults < MaxFaults /\ faults' = faults + 1

End(how) ==
  /\ tool' = "idle" /\ result' = how
  /\ at' = [i \in Members |-> "idle"] /\ cursor' = <<0, "idle">> /\ budget' = 0

-----------------------------------------------------------------------------
(* The pool: every member whose marker does not count is a task.           *)

PoolBegin ==
  /\ tool = "idle" /\ job.normalizer = "pool"
  /\ tool' = "pool" /\ result' = "none"
  /\ at' = [i \in Members |-> IF ValidMarker(i) THEN "done" ELSE "queued"]
  /\ UNCHANGED <<job, fileVars, cursor, budget, crashes, faults>>

Running(i) == at[i] \in {"started", "corpus", "ident"}

TaskStart(i) ==
  /\ tool = "pool" /\ at[i] = "queued"
  /\ Cardinality({j \in Members : Running(j)}) < Workers
  /\ at' = [at EXCEPT ![i] = "started"]
  /\ UNCHANGED <<job, fileVars, tool, cursor, budget, result, crashes, faults>>

\* Both files are complete before either gets its name; the marker comes last.
TaskCorpus(i) ==
  /\ tool = "pool" /\ at[i] = "started"
  /\ corpus' = [corpus EXCEPT ![i] = Texts(Selected(i, job.window))]
  /\ at' = [at EXCEPT ![i] = "corpus"]
  /\ UNCHANGED <<job, ident, marker, cut, tool, cursor, budget, result, crashes, faults>>

TaskIdent(i) ==
  /\ tool = "pool" /\ at[i] = "corpus"
  /\ ident' = [ident EXCEPT ![i] = Ids(Selected(i, job.window))]
  /\ at' = [at EXCEPT ![i] = "ident"]
  /\ UNCHANGED <<job, corpus, marker, cut, tool, cursor, budget, result, crashes, faults>>

TaskMarker(i) ==
  /\ tool = "pool" /\ at[i] = "ident"
  /\ marker' = [marker EXCEPT ![i] = Marker(i, job.window)]
  /\ at' = [at EXCEPT ![i] = "done"]
  /\ UNCHANGED <<job, corpus, ident, cut, tool, cursor, budget, result, crashes, faults>>

TaskFails(i) ==
  /\ tool = "pool" /\ Running(i) /\ Fault
  /\ at' = [at EXCEPT ![i] = "failed"]
  /\ UNCHANGED <<job, fileVars, tool, cursor, budget, result, crashes>>

\* The first failure takes back the tasks that have not started.
Cancel(i) ==
  /\ tool = "pool" /\ at[i] = "queued" /\ \E j \in Members : at[j] = "failed"
  /\ at' = [at EXCEPT ![i] = "failed"]
  /\ UNCHANGED <<job, fileVars, tool, cursor, budget, result, crashes, faults>>

PoolDone == tool = "pool" /\ \A i \in Members : at[i] = "done"

PoolEnd ==
  /\ tool = "pool" /\ \A i \in Members : at[i] \in {"done", "failed"}
  /\ IF PoolDone THEN job.merge # "whole" /\ End("pass") ELSE End("error")
  /\ UNCHANGED <<job, fileVars, crashes, faults>>

-----------------------------------------------------------------------------
(* The sliced tool goes through the members in order and reads a limited   *)
(* number of rows in one run. It keeps, per member, how far it is.         *)

Cursor(i, where) == tool = "sliced" /\ cursor = <<i, where>>
Go(i, where) ==
  cursor' = <<i, where>> /\ UNCHANGED <<tool, at, result>>

SlicedBegin ==
  /\ tool = "idle" /\ job.normalizer = "sliced"
  /\ tool' = "sliced" /\ result' = "none" /\ cursor' = <<1, "member">>
  /\ budget' = MaxRows
  /\ UNCHANGED <<job, fileVars, at, crashes, faults>>

SlicedEnd ==
  /\ Cursor(Len(job.archive) + 1, "member") /\ End("pass")
  /\ UNCHANGED <<job, fileVars, crashes, faults>>

\* What remains of the slices of a member that has its marker goes.
SliceSkip(i) ==
  /\ Cursor(i, "member") /\ ValidMarker(i)
  /\ cut' = [cut EXCEPT ![i] = NoSlices]
  /\ Go(i + 1, "member")
  /\ UNCHANGED <<job, corpus, ident, marker, budget, crashes, faults>>

\* The member is unpacked, and the state says that nothing of it is read yet.
SliceExtract(i) ==
  /\ Cursor(i, "member") /\ ~ValidMarker(i) /\ cut[i] = NoSlices
  /\ cut' = [cut EXCEPT ![i].off = 0]
  /\ Go(i, "member")
  /\ UNCHANGED <<job, corpus, ident, marker, budget, crashes, faults>>

\* A slice must not find files of its number: they are of a run that was killed.
SliceRead(i) ==
  /\ Cursor(i, "member") /\ ~ValidMarker(i) /\ cut[i].off >= 0 /\ ~cut[i].eof
  /\ IF cut[i].stray THEN End("error") /\ UNCHANGED cut
     ELSE /\ Go(i, "slice") /\ UNCHANGED budget
          /\ cut' = [cut EXCEPT ![i].stray = TRUE]
  /\ UNCHANGED <<job, corpus, ident, marker, crashes, faults>>

\* A slice takes the rows that the run may still read and has the time for; it
\* is not kept when it read nothing. Only reading on sees the end of the file;
\* a run short of time leaves the member as it is, for the next one.
SliceCommit(i, taken, eof) ==
  LET rest == Len(job.archive[i]) - cut[i].off
      read == Lying(i, job.window, cut[i].off + 1, cut[i].off + taken)
  IN  /\ Cursor(i, "slice")
      /\ taken <= rest /\ taken <= budget /\ (taken > 0 \/ eof)
      /\ eof => taken = rest /\ taken < budget
      /\ cut' = [cut EXCEPT ![i] = [off |-> @.off + taken, eof |-> eof,
                   parts |-> @.parts \o Pick(job.archive[i], read),
                   stray |-> FALSE]]
      /\ \/ eof /\ budget' = budget - taken /\ \E next \in {i, i + 1} : Go(next, "member")
         \/ End("pass")
      /\ UNCHANGED <<job, corpus, ident, marker, crashes, faults>>

\* The slices become the files of the member; a marker, of whatever job, is
\* not expected.
SliceMerge(i) ==
  /\ Cursor(i, "member") /\ ~ValidMarker(i) /\ cut[i].eof
  /\ IF marker[i] # Absent
     THEN End("error") /\ UNCHANGED corpus
     ELSE /\ corpus' = [corpus EXCEPT ![i] = Texts(cut[i].parts)]
          /\ Go(i, "ident") /\ UNCHANGED budget
  /\ UNCHANGED <<job, ident, marker, cut, crashes, faults>>

SliceIdent(i) ==
  /\ Cursor(i, "ident")
  /\ ident' = [ident EXCEPT ![i] = Ids(cut[i].parts)]
  /\ Go(i, "marker")
  /\ UNCHANGED <<job, corpus, marker, cut, budget, crashes, faults>>

SliceMarker(i) ==
  /\ Cursor(i, "marker")
  /\ marker' = [marker EXCEPT ![i] = [window |-> job.window, corpus |-> corpus[i], ident |-> ident[i]]]
  /\ (Go(i, "member") /\ UNCHANGED budget) \/ End("pass")
  /\ UNCHANGED <<job, corpus, ident, cut, crashes, faults>>

-----------------------------------------------------------------------------
MemberStep ==
  \/ PoolEnd \/ SlicedEnd
  \/ \E i \in Members :
       \/ TaskStart(i) \/ TaskCorpus(i) \/ TaskIdent(i) \/ TaskMarker(i)
       \/ TaskFails(i) \/ Cancel(i)
       \/ SliceSkip(i) \/ SliceExtract(i) \/ SliceRead(i)
       \/ \E taken \in 0..MaxRows, eof \in BOOLEAN : SliceCommit(i, taken, eof)
       \/ SliceMerge(i) \/ SliceIdent(i) \/ SliceMarker(i)

=============================================================================
