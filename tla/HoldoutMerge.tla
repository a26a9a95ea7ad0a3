---------------------------- MODULE HoldoutMerge ----------------------------
(***************************************************************************)
(* The files of all members become one corpus and one identity map. Three  *)
(* tools do that: "strict" (p2_37_merge_normalized_resumable.py) and       *)
(* "dedupe" (.._semantic_dedupe.py) go member by member and keep their     *)
(* progress in state.json, an SQLite table of the identities seen and two  *)
(* partial files; "whole" (_merge of the resumable normalizer) starts anew *)
(* every time. One run at a time; each step may be the last one of a run.  *)
(***************************************************************************)
EXTENDS HoldoutMembers

CONSTANT Garbage   \* the content of a damaged row

\* The lines of the files of members and of the results.
FileLines ==
  RowTexts \cup RowIds \cup {Garbage}
    \cup [record : Nat, id : RowIds \cup {Garbage}, member : Nat]

ASSUME MergeAssumption ==
  Absent \notin Seq(FileLines) \cup [next : Nat, rows : Nat, complete : BOOLEAN]

VARIABLES
  ms,     \* state.json: members merged, rows committed, whether complete; every
          \* kept row is one line of either file, one record and one seen identity
  part,   \* corpus.partial and identity.partial
  seen,   \* the table of identities, with the member that brought each
  out,    \* the two results
  batch,  \* what the member in work still adds to either file (temporary files)
  stage   \* where the run is, and at which of the two files

mergeFiles == <<ms, part, seen, out>>
vars == <<memberVars, mergeFiles, batch, stage>>

Files == {"corpus", "ident"}
NoStage == <<"none", "corpus">>
NoBatch == [f \in Files |-> <<>>]
N == Len(job.archive)

Chunk(f, i) == IF f = "corpus" THEN corpus[i] ELSE ident[i]
Markers(f, i) == IF f = "corpus" THEN marker[i].corpus ELSE marker[i].ident

\* The rows of the identity map for the identities of member i.
Numbered(before, i, ids) ==
  [k \in DOMAIN ids |-> [record |-> before + k, id |-> ids[k], member |-> i]]

At(where, f) == tool = "merge" /\ stage = <<where, f>>
To(where, f) == stage' = <<where, f>> /\ UNCHANGED <<tool, result, at, cursor, budget>>
Stop(how) == End(how) /\ stage' = NoStage
After(where, f, then) ==
  IF f = "corpus" THEN To(where, "ident") ELSE To(then, "corpus")

MergeInit ==
  /\ MembersInit
  /\ ms = Absent /\ seen = {}
  /\ part = [f \in Files |-> Absent] /\ out = [f \in Files |-> Absent]
  /\ batch = NoBatch /\ stage = NoStage

-----------------------------------------------------------------------------
(* The beginning of a run of the strict or the dedupe tool.                *)

\* The markers must be of this job; the files are compared with them later.
MarkersPresent ==
  \A i \in Members : /\ marker[i] # Absent /\ marker[i].window = job.window
                     /\ corpus[i] # Absent /\ ident[i] # Absent

Exist(fs) == \A f \in Files : fs[f] # Absent
NoneExist(fs) == \A f \in Files : fs[f] = Absent

MergeRefuses ==
  /\ \/ ~MarkersPresent
     \/ ms = Absent /\ ~NoneExist(out)
     \/ ms # Absent /\ ms.complete /\ ~Exist(out)
  /\ Stop("error") /\ UNCHANGED mergeFiles

MergeIsComplete ==
  /\ MarkersPresent /\ ms # Absent /\ ms.complete /\ Exist(out)
  /\ Stop("pass") /\ UNCHANGED mergeFiles

MergeStarts ==
  /\ MarkersPresent /\ ms = Absent /\ NoneExist(out)
  /\ ms' = [next |-> 0, rows |-> 0, complete |-> FALSE]
  /\ tool' = "merge" /\ result' = "none" /\ stage' = <<"recover", "corpus">>
  /\ UNCHANGED <<runVars, part, seen, out>>

\* Mutant of MergeResumes: the strict tool always recovers, as the dedupe tool.
MergeResumesRecovering ==
  /\ MarkersPresent /\ ms # Absent /\ ~ms.complete
  /\ tool' = "merge" /\ result' = "none" /\ stage' = <<"recover", "corpus">>
  /\ UNCHANGED <<runVars, mergeFiles>>

MergeResumes ==
  /\ MarkersPresent /\ ms # Absent /\ ~ms.complete
  /\ tool' = "merge" /\ result' = "none"
  /\ stage' = <<IF job.merge = "strict" /\ ms.next = N THEN "refinalize" ELSE "recover", "corpus">>
  /\ UNCHANGED <<runVars, mergeFiles>>

MergeBegin ==
  /\ tool = "idle" /\ job.merge \in {"strict", "dedupe"}
  /\ MergeRefuses \/ MergeIsComplete \/ MergeStarts \/ MergeResumes
  /\ UNCHANGED <<job, fileVars, batch, crashes, faults>>

-----------------------------------------------------------------------------
(* Recovery: what a killed run wrote past the committed state goes.        *)

Short(f) == IF part[f] = Absent THEN ms.rows # 0 ELSE Len(part[f]) < ms.rows

\* Mutant of RecoverFiles: partial files stay as long as they are.
RecoverFilesKeeping ==
  /\ At("recover", "corpus")
  /\ IF \E f \in Files : Short(f)
     THEN Stop("error") /\ UNCHANGED part
     ELSE /\ part' = [f \in Files |-> IF part[f] = Absent THEN <<>> ELSE part[f]]
          /\ To("recover", "ident")
  /\ UNCHANGED <<job, fileVars, ms, seen, out, batch, crashes, faults>>

RecoverFiles ==
  /\ At("recover", "corpus")
  /\ IF \E f \in Files : Short(f)
     THEN Stop("error") /\ UNCHANGED part
     ELSE /\ part' = [f \in Files |-> IF part[f] = Absent THEN <<>> ELSE SubSeq(part[f], 1, ms.rows)]
          /\ To("recover", "ident")
  /\ UNCHANGED <<job, fileVars, ms, seen, out, batch, crashes, faults>>

Committed == {s \in seen : s.member <= ms.next}

\* The identities of members that are not committed go. The same is done
\* before every member.
ForgetUncommitted(where) ==
  /\ seen' = Committed
  /\ IF Cardinality(Committed) # ms.rows THEN Stop("error") ELSE To(where, "corpus")
  /\ UNCHANGED <<job, fileVars, ms, part, out, batch, crashes, faults>>

RecoverSeen == At("recover", "ident") /\ ForgetUncommitted("member")

Member == At("member", "corpus") /\ ms.next < N /\ ForgetUncommitted("transform")

-----------------------------------------------------------------------------
(* One member: its rows are checked and prepared, then added to both       *)
(* files, then counted.                                                    *)

Known(i, k) == {s \in seen : s.id = ident[i][k]}
First(i, k) == Known(i, k) = {} /\ \A j \in 1..(k - 1) : ident[i][j] # ident[i][k]

\* The dedupe tool keeps the first of the rows with one identity, which must
\* have one text. The strict tool allows no second row, and has no texts.
Admissible(i) ==
  IF job.merge = "strict"
  THEN ident[i] = marker[i].ident /\ \A k \in DOMAIN ident[i] : First(i, k)
  ELSE /\ \A f \in Files : Chunk(f, i) = Markers(f, i)
       /\ \A k \in DOMAIN ident[i] :
            /\ \A s \in Known(i, k) : s.text = corpus[i][k]
            /\ \A j \in 1..(k - 1) : ident[i][j] = ident[i][k] => corpus[i][j] = corpus[i][k]

Kept(i) == Places({k \in DOMAIN ident[i] : First(i, k)})

\* The identities are committed here, before the files are written.
Transform ==
  LET i == ms.next + 1
      kept == Kept(i)
  IN  /\ At("transform", "corpus")
      /\ IF Admissible(i)
         THEN /\ seen' = seen \cup
                   {[id |-> ident[i][kept[k]], member |-> i,
                     text |-> IF job.merge = "strict" THEN Absent ELSE corpus[i][kept[k]]]
                      : k \in DOMAIN kept}
              /\ batch' = [corpus |-> IF job.merge = "strict" THEN corpus[i]
                                      ELSE [k \in DOMAIN kept |-> corpus[i][kept[k]]],
                           ident |-> Numbered(ms.rows, i, [k \in DOMAIN kept |-> ident[i][kept[k]]])]
              /\ To("append", "corpus")
         ELSE Stop("error") /\ UNCHANGED <<seen, batch>>
      /\ UNCHANGED <<job, fileVars, ms, part, out, crashes, faults>>

AppendRow(f) ==
  /\ At("append", f) /\ batch[f] # <<>>
  /\ part' = [part EXCEPT ![f] = Append(@, Head(batch[f]))]
  /\ batch' = [batch EXCEPT ![f] = Tail(@)]
  /\ UNCHANGED <<memberVars, ms, seen, out, stage>>

\* The strict tool compares the corpus with its marker while it copies, and
\* takes back what it has copied.
Appends(f) ==
  /\ At("append", f) /\ batch[f] = <<>>
  /\ IF job.merge = "strict" /\ f = "corpus" /\ corpus[ms.next + 1] # marker[ms.next + 1].corpus
     THEN /\ part' = [part EXCEPT ![f] = SubSeq(@, 1, ms.rows)]
          /\ Stop("error") /\ batch' = NoBatch
     ELSE After("append", f, "commit") /\ UNCHANGED <<part, batch>>
  /\ UNCHANGED <<job, fileVars, ms, seen, out, crashes, faults>>

\* A run ends after as many members or as much time as it was given.
Commit ==
  /\ At("commit", "corpus")
  /\ ms' = [ms EXCEPT !.next = @ + 1, !.rows = Cardinality({s \in seen : s.member <= ms.next + 1})]
  /\ To("member", "corpus") \/ (ms.next + 1 < N /\ Stop("progress"))
  /\ UNCHANGED <<job, fileVars, part, seen, out, batch, crashes, faults>>

-----------------------------------------------------------------------------
(* The end: the partial files get their final names.                       *)

Fits(file) == file # Absent /\ Len(file) = ms.rows

\* Which partial files must be there: the strict tool looks at both first.
Needed(f) == IF job.merge = "dedupe" THEN {f} ELSE IF f = "corpus" THEN Files ELSE {}

Rename(f) ==
  /\ out' = [out EXCEPT ![f] = part[f]]
  /\ part' = [part EXCEPT ![f] = Absent]

Finish(f) ==
  /\ At("finish", f) \/ (f = "corpus" /\ At("member", f) /\ ms.next = N)
  /\ IF (\E g \in Needed(f) : ~Fits(part[g])) \/ (out[f] # Absent /\ ~Fits(out[f]))
     THEN Stop("error") /\ UNCHANGED <<part, out>>
     ELSE /\ After("finish", f, "complete")
          /\ IF out[f] = Absent THEN Rename(f) ELSE UNCHANGED <<part, out>>
  /\ UNCHANGED <<job, fileVars, ms, seen, batch, crashes, faults>>

Complete ==
  /\ At("complete", "corpus")
  /\ ms' = [ms EXCEPT !.complete = TRUE] /\ Stop("pass")
  /\ UNCHANGED <<job, fileVars, part, seen, out, batch, crashes, faults>>

\* A run of the strict tool that finds every member merged starts here.
Refinalize == At("refinalize", "corpus") /\ ForgetUncommitted("rename")

RenameAgain(f) ==
  /\ At("rename", f)
  /\ IF IF out[f] # Absent THEN Fits(out[f]) /\ part[f] = Absent ELSE Fits(part[f])
     THEN /\ After("rename", f, "recomplete")
          /\ IF out[f] = Absent THEN Rename(f) ELSE UNCHANGED <<part, out>>
     ELSE Stop("error") /\ UNCHANGED <<part, out>>
  /\ UNCHANGED <<job, fileVars, ms, seen, batch, crashes, faults>>

\* It goes on to the end of a usual run, where the partial files are missing.
Recomplete ==
  /\ At("recomplete", "corpus")
  /\ ms' = [ms EXCEPT !.complete = TRUE] /\ To("finish", "corpus")
  /\ UNCHANGED <<job, fileVars, part, seen, out, batch, crashes, faults>>

-----------------------------------------------------------------------------
(* The merge of the resumable normalizer, in the run that ends the pool.   *)

ChunkIdents ==
  LET ids == FlattenSeq([i \in 1..N |-> [k \in DOMAIN ident[i] |-> [id |-> ident[i][k], member |-> i]]])
  IN  [n \in DOMAIN ids |-> [record |-> n, id |-> ids[n].id, member |-> ids[n].member]]
Content(f) == IF f = "corpus" THEN FlattenSeq(corpus) ELSE ChunkIdents

WholeBegin ==
  /\ PoolDone /\ job.merge = "whole"
  /\ IF NoneExist(out) /\ ChunkIdents # <<>> /\ IsInjective(FlattenSeq(ident))
     THEN /\ tool' = "merge" /\ stage' = <<"whole", "corpus">>
          /\ at' = [i \in Members |-> "idle"] /\ UNCHANGED <<cursor, budget, result>>
     ELSE Stop("error")
  /\ UNCHANGED <<job, fileVars, mergeFiles, batch, crashes, faults>>

WholeRename(f) ==
  /\ At("whole", f)
  /\ out' = [out EXCEPT ![f] = Content(f)]
  /\ IF f = "corpus" THEN To("whole", "ident") ELSE Stop("pass")
  /\ UNCHANGED <<job, fileVars, ms, part, seen, batch, crashes, faults>>

\* An exception takes both results back.
WholeFails(f) ==
  /\ At("whole", f) /\ Fault
  /\ out' = [g \in Files |-> Absent] /\ Stop("error")
  /\ UNCHANGED <<job, fileVars, ms, part, seen, batch, crashes>>

-----------------------------------------------------------------------------
\* A run is killed: what it had in memory is gone, and its temporary files
\* are replaced by the next one.
Crash ==
  /\ tool # "idle" /\ crashes < MaxCrashes
  /\ crashes' = crashes + 1
  /\ Stop("killed") /\ batch' = NoBatch
  /\ UNCHANGED <<job, fileVars, mergeFiles, faults>>

\* A file of a member is lost, or a row in it changes.
Damaged(file) ==
  {Absent} \cup (IF file \in {Absent, <<>>} THEN {} ELSE {[file EXCEPT ![1] = Garbage]})

Damage(i) ==
  /\ tool = "idle" /\ Fault
  /\ \/ corpus[i] # Absent /\ UNCHANGED ident
        /\ \E bad \in Damaged(corpus[i]) : corpus' = [corpus EXCEPT ![i] = bad]
     \/ ident[i] # Absent /\ UNCHANGED corpus
        /\ \E bad \in Damaged(ident[i]) : ident' = [ident EXCEPT ![i] = bad]
  /\ UNCHANGED <<job, marker, cut, tool, runVars, result, crashes, mergeFiles, batch, stage>>

MergeStep ==
  \/ RecoverFiles \/ RecoverSeen \/ Member \/ Transform \/ Commit
  \/ Complete \/ Refinalize \/ Recomplete \/ WholeBegin
  \/ \E f \in Files : AppendRow(f) \/ Appends(f) \/ Finish(f) \/ RenameAgain(f) \/ WholeRename(f)

Begin(B) == B /\ UNCHANGED <<mergeFiles, batch, stage>>

Step == MergeStep \/ (MemberStep /\ UNCHANGED <<mergeFiles, batch, stage>>)

Next ==
  \/ Step \/ MergeBegin \/ Begin(PoolBegin) \/ Begin(SlicedBegin)
  \/ Crash \/ (\E i \in Members : Damage(i)) \/ (\E f \in Files : WholeFails(f))

Spec == MergeInit /\ [][Next]_vars

\* Somebody runs both tools again and again; a run that is not killed goes on.
FairSpec == Spec /\ WF_vars(Step) /\ SF_vars(MergeBegin)
                 /\ SF_vars(Begin(PoolBegin)) /\ SF_vars(Begin(SlicedBegin))

-----------------------------------------------------------------------------
(* What the archive says the results are.                                  *)

\* The rows in the window of the members up to the n-th, with their member.
RowsUpTo(n) ==
  FlattenSeq([i \in 1..n |-> LET rows == Selected(i, job.window)
                             IN  [k \in DOMAIN rows |-> [id |-> rows[k].id, text |-> rows[k].text,
                                                         member |-> i]]])
AllRows == RowsUpTo(N)

\* Rows of one identity: no tool but dedupe accepts two, and dedupe only when
\* they have one text.
Ambiguous(rows) ==
  \E j, k \in DOMAIN rows :
    /\ j < k /\ rows[j].id = rows[k].id
    /\ job.merge = "dedupe" => rows[j].text # rows[k].text

\* The first of the rows of each identity, as lines of either result.
Firsts(rows) == Places({k \in DOMAIN rows : \A j \in 1..(k - 1) : rows[j].id # rows[k].id})

Lines(f, rows) ==
  LET first == Firsts(rows)
  IN  [n \in DOMAIN first |->
         LET row == rows[first[n]]
         IN  IF f = "corpus" THEN row.text
             ELSE [record |-> n, id |-> row.id, member |-> row.member]]

Expected(f) == Lines(f, AllRows)

IsComplete == IF job.merge = "whole" THEN Exist(out) ELSE ms # Absent /\ ms.complete

-----------------------------------------------------------------------------
(* Properties.                                                             *)

MergeTypeOK ==
  /\ tool \in {"idle", "pool", "sliced", "merge"}
  /\ result \in {"none", "pass", "error", "progress", "killed"}
  /\ at \in [Members -> {"idle", "queued", "started", "corpus", "ident", "done", "failed"}]
  /\ budget \in 0..MaxRows /\ crashes \in 0..MaxCrashes /\ faults \in 0..MaxFaults
  /\ ms = Absent \/ ms \in [next : 0..N, rows : 0..Len(AllRows), complete : BOOLEAN]

\* The lines below the committed size are what the members merged so far give,
\* in every partial file and result, and the identities counted are exactly
\* theirs, whatever a killed run has left behind: what _recover and the table
\* of identities are for.
CommittedIsExact ==
  ms # Absent =>
    /\ Cardinality(Committed) = ms.rows
    /\ {s.id : s \in Committed} = {Expected("ident")[k].id : k \in 1..ms.rows}
    /\ \A f \in Files :
         /\ (part[f] # Absent => Len(part[f]) >= ms.rows /\ IsPrefix(SubSeq(Expected(f), 1, ms.rows), part[f]))
         /\ (part[f] = Absent /\ out[f] = Absent => ms.rows = 0)

\* The merge state is sound.
MergeIsSound == MergeTypeOK /\ CommittedIsExact

\* A result that exists under its final name is, line by line, what the rows of
\* the archive in the window give, numbered without a gap, whatever was killed,
\* lost or changed on the way; complete means that both exist; and an archive
\* with an ambiguous identity gives no result at all.
OutputIsExact ==
  /\ \A f \in Files : out[f] # Absent => ~Ambiguous(AllRows) /\ out[f] = Expected(f)
  /\ IsComplete => Exist(out)

\* What no later run can get out of: the dedupe tool killed after a partial
\* file that is not empty got its final name, the whole merge killed between
\* its two names, a slice cut off, a marker that does not count any more
\* where the slices are ready.
Stuck ==
  \/ job.merge = "dedupe" /\ ms # Absent /\ ms.rows # 0 /\ ~NoneExist(out)
  \/ job.merge = "whole" /\ ~NoneExist(out)
  \/ /\ job.normalizer = "sliced"
     /\ \E i \in Members : cut[i].stray \/ (marker[i] # Absent /\ ~ValidMarker(i))

\* Running the tools again and again gives the results of every archive that is
\* not ambiguous, or ends where only an operator helps; the strict merge behind
\* the pool always succeeds, although it was killed anywhere.
MergeCompletes ==
  ~Ambiguous(AllRows) /\ (job.merge = "whole" => AllRows # <<>>) => <>(IsComplete \/ (tool = "idle" /\ Stuck))

=============================================================================
