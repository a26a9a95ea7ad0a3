--------------------------- MODULE AnalysisService ---------------------------
(***************************************************************************)
(* Analysis requests (api/services/analysis_service.py and the re-analysis *)
(* of an archived case in api/routers/cases.py) in one server process. The *)
(* coroutines share an event loop: they give way only while they wait for  *)
(* the next part of an upload, so everything from the end of one upload to *)
(* the start of the next, and from the last one to the answer, runs alone, *)
(* apart from the worker threads of a parallel analysis.                   *)
(*                                                                         *)
(* A request keeps its files in a directory made for it, or in one that    *)
(* the caller names and that other requests may name too. Stored files are *)
(* records: the directory, the name <<base, n>> (n > 1 after a collision), *)
(* whether it is plain or sealed (encrypted), the upload it comes from as  *)
(* <<request, number>>, number 0 for the report, and how many events of it *)
(* have been written.                                                      *)
(***************************************************************************)
EXTENDS Scenarios

CONSTANTS
  Requests,   \* requests, which also name the directories made for them
  NoReq,      \* the event loop is free
  Workloads,  \* what the requests ask for: [encrypt, cleanup, convert] of the
              \* server and, per request, dir (of its own or a shared one),
              \* again (re-analysis), uploads [name, evtx, events], wanted
  MaxFaults   \* bound on the operations that fail in one behaviour

\* An upload, whose events are those of its lines that can be read.
Upload == [name : Nat \ {0}, evtx : BOOLEAN, events : Seq(Record)]

\* A directory that a caller names is nobody's own: the code keeps callers below
\* an allowed root (path_boundary.py) but not out of the directory that was made
\* for another request; that they do not name it is assumed. An archived case is
\* analysed again in a directory of its own.
ASSUME ServiceAssumption ==
  /\ NoReq \notin Requests /\ MaxFaults \in Nat
  /\ \A w \in Workloads :
       /\ DOMAIN w.uploads \subseteq Requests /\ {w.encrypt, w.cleanup, w.convert} \subseteq BOOLEAN
       /\ \A r \in DOMAIN w.uploads :
            /\ w.uploads[r] \in Seq(Upload)
            /\ w.dir[r] \notin Requests /\ w.again[r] \in BOOLEAN
            /\ w.again[r] => w.dir[r] = "own"

VARIABLES
  work,     \* the workload of this behaviour, constant
  stage,    \* where each request is
  turn,     \* the request that occupies the event loop, or NoReq
  next,     \* number of the upload a request is at
  path,     \* the name its current upload is written to
  got,      \* events of the current upload it has received
  created,  \* names of the uploads it has completed
  dirs,     \* directories that exist
  files,    \* stored files
  read,     \* events the analysis of a request has read
  skipped,  \* uploads it could not read to their end, which at most the log says
  pending,  \* chunks of its analysis no thread has finished
  found,    \* its findings so far
  report,   \* its report: the findings, chains and scenarios
  rows,     \* cases in the history: [dir, by]
  removed,  \* directories from which a deletion took anything, or all
  blocked,  \* failed requests of which something could not be removed
  faults    \* operations that have failed so far

loopVars == <<work, turn>>
uploadVars == <<next, path, got, created>>
analysisVars == <<read, skipped, pending, found, report>>
diskVars == <<dirs, files, rows, removed>>
vars == <<loopVars, stage, uploadVars, analysisVars, diskVars, blocked, faults>>

Active == DOMAIN work.uploads
CallerDir(r) == work.dir[r] # "own"
Dir(r) == IF CallerDir(r) THEN work.dir[r] ELSE r
Again(r) == work.again[r]
Uploads(r) == work.uploads[r]
Cleaning(r) == work.cleanup /\ ~Again(r) /\ ~CallerDir(r)

NoReport == [findings |-> {}, chains |-> {}, scenarios |-> {}]

Plain(d) == {f \in files : f.dir = d /\ f.form = "plain"}
Sealed(d) == {f \in files : f.dir = d /\ f.form = "sealed"}
Names(F) == {f.name : f \in F}

ReportName == <<0, 0>>

Init ==
  /\ work \in Workloads
  /\ stage = [r \in Requests |-> IF r \in Active THEN "new" ELSE "none"]
  /\ turn = NoReq
  /\ next = [r \in Requests |-> 1]
  /\ path = [r \in Requests |-> ReportName]
  /\ got = [r \in Requests |-> 0]
  /\ created = [r \in Requests |-> {}]
  /\ dirs = {} /\ files = {} /\ rows = {} /\ removed = {} /\ blocked = {}
  /\ read = [r \in Requests |-> <<>>]
  /\ skipped = [r \in Requests |-> {}]
  /\ pending = [r \in Requests |-> {}]
  /\ found = [r \in Requests |-> {}]
  /\ report = [r \in Requests |-> NoReport]
  /\ faults = 0

Fault == faults < MaxFaults /\ faults' = faults + 1

\* The coroutine goes on to stage s without giving way, or gives way.
Continue(r, s) == stage' = [stage EXCEPT ![r] = s] /\ turn' = r /\ UNCHANGED work
GiveWay(r, s) == stage' = [stage EXCEPT ![r] = s] /\ turn' = NoReq /\ UNCHANGED work

\* Something of a failed request stays. A directory made for it goes later, with
\* everything in it.
Leaves(r) == blocked' = blocked \union (IF CallerDir(r) THEN {r} ELSE {})

\* A directory tree that cannot be removed may have lost some files before.
RemovedInPart(d) ==
  \E gone \in SUBSET {f \in files : f.dir = d} :
    /\ files' = files \ gone
    /\ removed' = IF gone = {} THEN removed ELSE removed \union {d}
    /\ UNCHANGED dirs

-----------------------------------------------------------------------------
(* Uploads.                                                                *)

\* The directory is created when it is missing.
Begin(r) ==
  /\ stage[r] = "new" /\ turn = NoReq
  /\ Continue(r, "open")
  /\ dirs' = dirs \union {Dir(r)}
  /\ UNCHANGED <<uploadVars, analysisVars, files, rows, removed, blocked, faults>>

\* A name nothing in the directory has: the collision count goes up from 2.
Taken(r) == Names(Plain(Dir(r))) \union created[r]

FreeName(r) ==
  LET base == Uploads(r)[next[r]].name
      n == Min({k \in 1..(Cardinality(Taken(r)) + 1) : <<base, k>> \notin Taken(r)})
  IN  <<base, n>>

\* The file is created, exclusively, before the first part of it is awaited. It
\* cannot when the directory is gone.
Open(r) ==
  /\ stage[r] = "open" /\ turn = r /\ next[r] <= Len(Uploads(r))
  /\ IF Dir(r) \in dirs
     THEN /\ files' = files \union
                 {[dir |-> Dir(r), name |-> FreeName(r), form |-> "plain",
                   of |-> <<r, next[r]>>, upto |-> 0]}
          /\ path' = [path EXCEPT ![r] = FreeName(r)]
          /\ got' = [got EXCEPT ![r] = 0]
          /\ GiveWay(r, "reading")
          /\ UNCHANGED <<next, created, analysisVars, dirs, rows, removed, blocked, faults>>
     ELSE /\ Continue(r, "failing")
          /\ UNCHANGED <<uploadVars, analysisVars, diskVars, blocked, faults>>

Content(r) == Uploads(r)[next[r]].events

\* A part arrives. It goes to the open file, which need not be in the
\* directory any more.
Receive(r) ==
  /\ stage[r] = "reading" /\ turn = NoReq /\ got[r] < Len(Content(r))
  /\ got' = [got EXCEPT ![r] = @ + 1]
  /\ files' = {IF f.of = <<r, next[r]>> /\ f.form = "plain"
               THEN [f EXCEPT !.upto = got[r] + 1] ELSE f : f \in files}
  /\ UNCHANGED <<loopVars, stage, next, path, created, analysisVars,
                 dirs, rows, removed, blocked, faults>>

Complete(r) ==
  /\ stage[r] = "reading" /\ turn = NoReq /\ got[r] = Len(Content(r))
  /\ created' = [created EXCEPT ![r] = @ \union {path[r]}]
  /\ next' = [next EXCEPT ![r] = @ + 1]
  /\ Continue(r, "open")
  /\ UNCHANGED <<path, got, analysisVars, diskVars, blocked, faults>>

\* Mutant of Refuse: the file being written stays.
RefuseLeavingPart(r) ==
  /\ stage[r] = "reading" /\ turn = NoReq
  /\ Continue(r, "failing")
  /\ UNCHANGED <<uploadVars, analysisVars, diskVars, blocked, faults>>

\* Mutant of Refuse: the file goes by the name that the upload came with.
RefuseByUploadName(r) ==
  /\ stage[r] = "reading" /\ turn = NoReq
  /\ Continue(r, "failing")
  /\ files' = {f \in files : \/ f.form = "sealed" \/ f.dir # Dir(r)
                             \/ f.name # <<Uploads(r)[next[r]].name, 1>>}
  /\ UNCHANGED <<uploadVars, analysisVars, dirs, rows, removed, blocked, faults>>

\* A limit is exceeded or the upload cannot be read: the file being written
\* goes by its name, or cannot be removed either.
Refuse(r) ==
  /\ stage[r] = "reading" /\ turn = NoReq
  /\ Continue(r, "failing")
  /\ \/ /\ files' = {f \in files : f.form = "sealed" \/ f.dir # Dir(r) \/ f.name # path[r]}
        /\ UNCHANGED <<blocked, faults>>
     \/ /\ Fault /\ Leaves(r)
        /\ UNCHANGED files
  /\ UNCHANGED <<uploadVars, analysisVars, dirs, rows, removed>>

\* What the clean-up of a failed analysis is to remove: the uploads it completed,
\* by their names, and everything in a directory made for the request.
Litter(r) ==
  {f \in files : /\ f.dir = Dir(r)
                 /\ ~CallerDir(r) \/ (f.form = "plain" /\ f.name \in created[r])}

\* It goes on after a file that cannot be removed.
CleanUp(r) ==
  /\ stage[r] = "failing" /\ turn = r
  /\ GiveWay(r, "failed")
  /\ \/ /\ files' = files \ Litter(r)
        /\ dirs' = IF CallerDir(r) THEN dirs ELSE dirs \ {r}
        /\ UNCHANGED <<blocked, faults>>
     \/ /\ Fault
        /\ \E gone \in SUBSET Litter(r) : files' = files \ gone
        /\ blocked' = blocked \union {r}
        /\ UNCHANGED dirs
  /\ UNCHANGED <<uploadVars, analysisVars, rows, removed>>

-----------------------------------------------------------------------------
(* The analysis.                                                           *)

\* A request that asks for it has the event logs converted that lie in its
\* directory, provided that it uploaded one itself; then only they are read.
Evtx(f) == work.uploads[f.of[1]][f.of[2]].evtx
Converts(r) == work.convert /\ \E n \in DOMAIN Uploads(r) : Uploads(r)[n].evtx

\* A place is a file and a position in it; files are read in the order of
\* their names.
Sooner(p, q) ==
  LET f == p[1].name
      g == q[1].name
  IN  \/ f[1] < g[1]
      \/ f[1] = g[1] /\ f[2] < g[2]
      \/ f = g /\ p[2] < q[2]

\* The files of the input directory, also what others have put there so far.
Chosen(r) == {f \in Plain(Dir(r)) : f.name # ReportName /\ Evtx(f) = Converts(r)}

\* How far each file is read. An error, in a log or a converter, ends the reading
\* of its file; the events before it count, and the next file is read.
Readings(r) ==
  {upto \in [Chosen(r) -> UNION {0..f.upto : f \in Chosen(r)}] :
     \A f \in Chosen(r) : upto[f] <= f.upto}

CutShort(r, upto) == {f \in Chosen(r) : upto[f] < f.upto}

Input(r, upto) ==
  LET places == UNION {{f} \X (1..upto[f]) : f \in Chosen(r)}
      order == InOrder(places, {p \in places \X places : Sooner(p[1], p[2])})
  IN  [k \in DOMAIN order |->
         work.uploads[order[k][1].of[1]][order[k][1].of[2]].events[order[k][2]]]

Reads(r, upto) ==
  /\ read' = [read EXCEPT ![r] = Collected(Input(r, upto))]
  /\ skipped' = [skipped EXCEPT ![r] = {f.of : f \in CutShort(r, upto)}]

\* Files that cannot be read do not fail the analysis. It fails when the
\* encryption key, the active rules or the rulepack cannot be used.
Start(r) ==
  /\ stage[r] = "open" /\ turn = r /\ next[r] > Len(Uploads(r))
  /\ \/ /\ \E upto \in Readings(r) :
              /\ Reads(r, upto)
              /\ IF CutShort(r, upto) = {} THEN UNCHANGED faults ELSE Fault
        /\ Continue(r, "match")
     \/ /\ Fault
        /\ Continue(r, "failing")
        /\ UNCHANGED <<read, skipped>>
  /\ dirs' = dirs \union {Dir(r)}
  /\ UNCHANGED <<uploadVars, pending, found, report, files, rows, removed, blocked>>

Analyze(r) ==
  /\ stage[r] = "match" /\ turn = r
  /\ IF Len(read[r]) > ParallelAbove
     THEN /\ pending' = [pending EXCEPT ![r] = Chunks(read[r])]
          /\ Continue(r, "threads")
          /\ UNCHANGED found
     ELSE /\ found' = [found EXCEPT ![r] = Sequential(read[r])]
          /\ Continue(r, "correlate")
          /\ UNCHANGED pending
  /\ UNCHANGED <<uploadVars, read, skipped, report, diskVars, blocked, faults>>

\* The results of the threads are merged in the order they come.
MergeChunk(r, k) ==
  /\ stage[r] = "threads" /\ turn = r /\ k \in pending[r]
  /\ found' = [found EXCEPT ![r] = Merged(@, ChunkFindings(read[r], k))]
  /\ pending' = [pending EXCEPT ![r] = @ \ {k}]
  /\ Continue(r, IF pending[r] = {k} THEN "correlate" ELSE "threads")
  /\ UNCHANGED <<uploadVars, read, skipped, report, diskVars, blocked, faults>>

\* One chunk that fails fails the analysis: no report from a part of it.
ChunkFails(r) ==
  /\ stage[r] = "threads" /\ turn = r
  /\ Fault
  /\ Continue(r, "failing")
  /\ UNCHANGED <<uploadVars, analysisVars, diskVars, blocked>>

Correlate(r) ==
  LET shown == Filtered(found[r], work.wanted[r])
      chains == Chains(read[r], shown)
  IN  /\ stage[r] = "correlate" /\ turn = r
      /\ report' = [report EXCEPT ![r] =
            [findings |-> shown, chains |-> chains,
             scenarios |-> InferScenarios(read[r], shown, chains)]]
      /\ Continue(r, "export")
      /\ UNCHANGED <<uploadVars, read, skipped, pending, found, diskVars, blocked, faults>>

-----------------------------------------------------------------------------
(* What is kept of it.                                                     *)

\* The report replaces one that an earlier analysis left in the directory, and
\* may be there in part when the export fails.
Export(r) ==
  /\ stage[r] = "export" /\ turn = r
  /\ files' = {f \in files : f \notin Plain(Dir(r)) \/ f.name # ReportName}
                \union {[dir |-> Dir(r), name |-> ReportName, form |-> "plain",
                         of |-> <<r, 0>>, upto |-> 0]}
  /\ \/ Continue(r, IF Cleaning(r) THEN "clean" ELSE "seal") /\ UNCHANGED faults
     \/ Continue(r, "failing") /\ Fault
  /\ UNCHANGED <<uploadVars, analysisVars, dirs, rows, removed, blocked>>

\* Results are not to be kept: the directory goes, or, when it cannot, what is
\* left of it is kept like any other.
Clean(r) ==
  /\ stage[r] = "clean" /\ turn = r
  /\ \/ /\ dirs' = dirs \ {Dir(r)}
        /\ files' = {f \in files : f.dir # Dir(r)}
        /\ GiveWay(r, "ok")
        /\ UNCHANGED <<removed, faults>>
     \/ /\ Fault
        /\ Continue(r, "seal")
        /\ RemovedInPart(Dir(r))
  /\ UNCHANGED <<uploadVars, analysisVars, rows, blocked>>

SealedCopies(F) == {[f EXCEPT !.form = "sealed"] : f \in F}

Seals(d) == (files \ Plain(d)) \union SealedCopies(Plain(d))

\* All plain files of the directory are encrypted, or none, unless going back
\* fails as well: then encrypted copies are left, of all files if plain ones are
\* gone.
Seal(r) ==
  LET d == Dir(r)
      clash == Share(Names(Plain(d)), Names(Sealed(d)))
  IN  /\ stage[r] = "seal" /\ turn = r
      /\ \/ /\ work.encrypt => ~clash
            /\ files' = IF work.encrypt THEN Seals(d) ELSE files
            /\ Continue(r, "register")
            /\ UNCHANGED <<blocked, faults>>
         \/ /\ work.encrypt
            /\ IF clash THEN UNCHANGED faults ELSE Fault
            /\ Continue(r, "failing")
            /\ UNCHANGED <<files, blocked>>
         \/ /\ work.encrypt /\ Fault
            /\ \E left \in SUBSET Plain(d) : \E gone \in SUBSET left :
                 /\ gone = {} \/ left = Plain(d)
                 /\ files' = (files \ gone) \union SealedCopies(left)
            /\ Continue(r, "failing")
            /\ Leaves(r)
      /\ UNCHANGED <<uploadVars, analysisVars, dirs, rows, removed>>

\* An analysis whose case cannot be registered succeeds nevertheless, unless it
\* is the analysis of an archived case again.
Register(r) ==
  /\ stage[r] = "register" /\ turn = r
  /\ \/ /\ rows' = rows \union {[dir |-> Dir(r), by |-> r]}
        /\ IF Again(r) THEN Continue(r, "lineage") ELSE GiveWay(r, "ok")
        /\ UNCHANGED faults
     \/ /\ Fault
        /\ IF Again(r) THEN Continue(r, "failing") ELSE GiveWay(r, "ok")
        /\ UNCHANGED rows
  /\ UNCHANGED <<uploadVars, analysisVars, dirs, files, removed, blocked>>

\* The new case is tied to the archived one.
SetLineage(r) ==
  /\ stage[r] = "lineage" /\ turn = r
  /\ \/ GiveWay(r, "ok") /\ UNCHANGED faults
     \/ Continue(r, "undo") /\ Fault
  /\ UNCHANGED <<uploadVars, analysisVars, diskVars, blocked>>

\* A directory is removed with everything in it.
Removes(d) ==
  /\ dirs' = dirs \ {d}
  /\ files' = {f \in files : f.dir # d}
  /\ removed' = removed \union {d}

\* A case is removed, its directory first.
Deletes(row) == Removes(row.dir) /\ rows' = rows \ {row}

\* The directory cannot be removed, or the index cannot be written after it.
KeepsRow(row) == (RemovedInPart(row.dir) \/ Removes(row.dir)) /\ UNCHANGED rows

Undo(r) ==
  /\ stage[r] = "undo" /\ turn = r
  /\ GiveWay(r, "failed")
  /\ \/ /\ Deletes([dir |-> Dir(r), by |-> r])
        /\ UNCHANGED <<blocked, faults>>
     \/ /\ Fault
        /\ KeepsRow([dir |-> Dir(r), by |-> r])
        /\ blocked' = blocked \union {r}
  /\ UNCHANGED <<uploadVars, analysisVars>>

\* Somebody deletes a case.
DeleteCase(row) ==
  /\ turn = NoReq /\ row \in rows
  /\ \/ Deletes(row) /\ UNCHANGED faults
     \/ KeepsRow(row) /\ Fault
  /\ UNCHANGED <<loopVars, stage, uploadVars, analysisVars, blocked>>

-----------------------------------------------------------------------------
Step(r) ==
  \/ Begin(r) \/ Open(r) \/ Receive(r) \/ Complete(r) \/ Refuse(r) \/ CleanUp(r)
  \/ Start(r) \/ Analyze(r) \/ ChunkFails(r) \/ Correlate(r)
  \/ \E k \in pending[r] : MergeChunk(r, k)
  \/ Export(r) \/ Clean(r) \/ Seal(r) \/ Register(r) \/ SetLineage(r) \/ Undo(r)

Next == \/ \E r \in Active : Step(r)
        \/ \E row \in rows : DeleteCase(row)

Spec == Init /\ [][Next]_vars

-----------------------------------------------------------------------------
\* The analysis is complete; the report of it is about to be written.
Analysed(r) == stage[r] = "correlate"
Reported(r) == stage[r] = "export"

Stages == {"none", "new", "open", "reading", "failing", "failed", "match", "threads",
           "correlate", "export", "clean", "seal", "register", "lineage", "undo", "ok"}

\* The state has the form that the actions rely on, and the event loop is busy
\* with a request exactly between two of the points where it gives way.
TypeOK ==
  /\ stage \in [Requests -> Stages]
  /\ turn \in Active \union {NoReq}
  /\ \A r \in Requests :
       /\ turn = r <=> stage[r] \notin {"none", "new", "reading", "ok", "failed"}
       /\ next[r] \in 1..(IF r \in Active THEN Len(Uploads(r)) + 1 ELSE 1)
       /\ created[r] \subseteq Nat \X Nat /\ path[r] \in Nat \X Nat /\ got[r] \in Nat
       /\ pending[r] \subseteq Chunks(read[r]) /\ skipped[r] \subseteq Active \X Nat
  /\ \A f \in files :
       /\ f.dir \in dirs /\ f.name \in Nat \X Nat /\ f.form \in {"plain", "sealed"}
       /\ f.of \in Active \X Nat /\ f.upto \in Nat
  /\ \A row \in rows : row.by \in Active /\ row.dir = Dir(row.by)
  /\ removed \subseteq {Dir(r) : r \in Active} /\ blocked \subseteq Active
  /\ faults \in 0..MaxFaults

\* However the events fall into chunks and in whatever order the threads
\* finish, the findings are those of a reading of all the events one after the
\* other: a rule that fires anywhere is reported, once per observation and
\* match, also when the parent process is in another chunk
\* (analyzer.apply_rules_parallel).
FindingsAreSequential ==
  \A r \in Active : Analysed(r) =>
    LET events == read[r]
        last(i) == {j \in 1..(i - 1) :
                      /\ events[j].id = "4688" /\ events[j].host = events[i].host
                      /\ events[j].pid = events[i].ppid /\ events[j].pid # ""
                      /\ events[j].image # "" /\ Timed(events[j])}
        child(i, image) ==
          /\ events[i].id = "4688" /\ Timed(events[i])
          /\ \E j \in last(i) : /\ \A l \in last(i) : l <= j
                                /\ events[j].image = image
                                /\ events[i].t - events[j].t \in 0..ParentWindow
        fired == {x \in Rules \X DOMAIN events :
                    /\ \E n \in DOMAIN x[1].targets : x[1].targets[n] \in events[x[2]].marks
                    /\ x[1].parent = "" \/ child(x[2], x[1].parent)}
        keys == {<<x[1].id, Key(events[x[2]]), Matched(x[1], events[x[2]])>> : x \in fired}
    IN  /\ {FindingKey(f) : f \in found[r]} = keys
        /\ Cardinality(found[r]) = Cardinality(keys)

Keys(line, P) == {Key(line[p]) : p \in P}

\* What follows position p by correlation rule c, said directly.
Follows(line, c, p) ==
  {q \in DOMAIN line : /\ q > p /\ line[q].t - line[p].t <= c.window
                       /\ Answers(line[q], c.b) /\ InCommon(line[p], line[q], c.fields)}

RuleChainsAreComplete(line, chains) ==
  \A c \in CorrelationRules :
    LET starts == {p \in DOMAIN line : Answers(line[p], c.a) /\ Follows(line, c, p) # {}}
        expected == {Keys(line, {p} \union Follows(line, c, p)) : p \in starts}
    IN  {Keys(line, ch.events) : ch \in {x \in chains : x.type = c.type}} = expected

\* A session chain begins with its only logon, ends with the first logoff after
\* it and holds all that the session did in between; every logoff is in the
\* chain of the logon before it.
SessionChainsAreComplete(line, chains) ==
  LET mine == {ch \in chains : ch.type = "session"}
      same(p, q) == line[p].host = line[q].host /\ Session(line[p]) = Session(line[q])
      opens(p) == line[p].id = "4624" /\ Session(line[p]) # ""
      ends(p) == line[p].id = "4634" /\ Session(line[p]) # ""
  IN  /\ \A ch \in mine :
           \E p \in ch.events :
             /\ opens(p)
             /\ \A q \in ch.events \ {p} : same(p, q) /\ ~opens(q) /\ line[p].t <= line[q].t
             /\ \A q, x \in ch.events : ends(q) => line[x].t <= line[q].t
             /\ \A q \in DOMAIN line, x \in ch.events :
                  same(p, q) /\ line[p].t < line[q].t /\ line[q].t < line[x].t
                    => Key(line[q]) \in Keys(line, ch.events)
      /\ \A p, q \in DOMAIN line :
           /\ opens(p) /\ ends(q) /\ same(p, q) /\ line[p].t < line[q].t
           /\ \A x \in DOMAIN line :
                (opens(x) \/ ends(x)) /\ same(p, x) /\ line[x].t \in line[p].t..line[q].t
                  => Key(line[x]) \in Keys(line, {p, q})
           => \E ch \in mine : Keys(line, {p, q}) \subseteq Keys(line, ch.events)

\* An activity chain is of one account on one host, fits the window, and the
\* next such event after it comes too late for it.
ActivityChainsAreComplete(line, findings, chains) ==
  LET mine == {ch \in chains : ch.type = "activity"}
      shown(p) == \E f \in findings : Key(f.event) = Key(line[p])
      same(p, q) == line[p].host = line[q].host /\ line[p].user = line[q].user
      counts(p) == /\ shown(p) /\ Session(line[p]) = "" /\ line[p].user # ""
                   /\ line[p].id \notin {"4624", "4634", "4625", "4647"}
  IN  \A ch \in mine :
        LET first == Min(ch.events)
        IN  /\ \A p \in ch.events : counts(p) /\ same(p, first)
            /\ \A q \in DOMAIN line :
                 counts(q) /\ same(q, first) /\ q > first
                   => (q \in ch.events <=> line[q].t - line[first].t <= ActivityWindow)

\* Call x names host h, and nothing that another host answers to.
Crosses(line, x, h) ==
  LET answers(g) == Call(line, x).target \in {g, ShortName[g]}
  IN  /\ h # line[x[1]].host /\ answers(h)
      /\ \A q \in DOMAIN line : answers(line[q].host) => line[q].host = h

\* Position q is of host h and close to p.
Soon(line, p, q, h) ==
  line[q].host = h /\ line[q].t - line[p].t \in (-RemoteSkew)..RemoteWindow

\* Position q is a network logon of nobody else than who acted in p.
LogsOn(line, p, q) ==
  /\ line[q].id = "4624" /\ "network logon" \in line[q].marks
  /\ Cardinality({line[p].user, line[q].user} \ {""}) <= 1

\* What call x does to host h.
Effects(line, x, h) ==
  LET call == Call(line, x)
      shows(e) ==
        \/ call.method = "powershell" /\ RunsProcess(e) /\ "wsmprovhost" \in e.marks
        \/ call.method = "psexec" /\ (RunsProcess(e) \/ IsService(e)) /\ "psexesvc" \in e.marks
        \/ /\ call.method = "scm" /\ call.operation = "create"
           /\ IsService(e) /\ e.service = call.service
        \/ call.method = "scm" /\ call.operation = "start" /\ RunsProcess(e) /\ e.command # ""
  IN  {q \in DOMAIN line : Soon(line, x[1], q, h) /\ shows(line[q])}

NeedsLogon(line, x) == Call(line, x).method \in {"powershell", "psexec"}

\* The commands whose effect says enough by itself or with a logon.
Telling(line, x) ==
  \/ NeedsLogon(line, x)
  \/ /\ Call(line, x).method = "scm" /\ Call(line, x).operation = "create"
     /\ Call(line, x).service # ""

\* What two hosts did at the same time is a remote command only when the one
\* names the other, in a way no third host answers to, and the other shows the
\* effect in time, behind a network logon of the same account where the method
\* needs one; and every such command is in a chain, as long as observations that
\* count as one have one user.
RemoteChainsAreComplete(line, chains) ==
  LET mine == {ch \in chains : ch.type = "remote"}
      calls == Calls(line)
  IN  /\ \A ch \in mine : \E x \in calls :
           LET h == ch.remote.target
           IN  /\ Crosses(line, x, h) /\ x[1] \in ch.events
               /\ ch.remote.method = Call(line, x).method
               /\ ch.events \ {x[1]} # {}
               /\ \A q \in ch.events \ {x[1]} :
                    \/ q \in Effects(line, x, h)
                    \/ NeedsLogon(line, x) /\ Soon(line, x[1], q, h) /\ LogsOn(line, x[1], q)
               /\ NeedsLogon(line, x) => \E q \in ch.events : LogsOn(line, x[1], q)
      /\ \A x \in calls, q \in DOMAIN line :
           LET h == line[q].host
           IN  /\ Telling(line, x) /\ Crosses(line, x, h) /\ q \in Effects(line, x, h)
               /\ \A y \in calls : Key(line[y[1]]) = Key(line[x[1]]) => line[y[1]].user = line[x[1]].user
               /\ NeedsLogon(line, x) =>
                    \E l \in DOMAIN line : Soon(line, x[1], l, h) /\ LogsOn(line, x[1], l)
               => \E ch \in mine :
                    /\ ch.remote.source = line[x[1]].host /\ ch.remote.target = h
                    /\ Keys(line, ch.events) \intersect Keys(line, Effects(line, x, h)) # {}

\* The chains of a report are all those, and only those, that its timeline
\* holds, each once: at the ends of a window, among equal times, when events
\* arrive out of order, with repeated logons and identifiers used again
\* (correlator.correlate_events).
ChainsAreComplete ==
  \A r \in Active : Reported(r) =>
    LET line == Timeline(read[r])
        chains == report[r].chains
    IN  /\ RuleChainsAreComplete(line, chains)
        /\ SessionChainsAreComplete(line, chains)
        /\ ActivityChainsAreComplete(line, report[r].findings, chains)
        /\ RemoteChainsAreComplete(line, chains)
        /\ \A a, b \in chains : a # b => ~SameChain(line, a, b)

ChainScenarios == {"download_exec", "encoded_exec"}

\* Finding f is about an event of component K, of an account or of the lifetime.
Shown(line, K, f) ==
  \E ch \in K : \E p \in ch.events :
    f.event = line[p] /\ (f.event.user # "" \/ Lifetimes(K) # {})

\* A scenario of one host is told from evidence that belongs together: each
\* chain of the host supports one component, a component is of one host and of
\* at most one lifetime of a session, and chains that all name accounts meet in
\* it only through accounts or sessions they share; what is claimed for a
\* lifetime was found in its own events. A template's scenario has for each
\* technique that is required this one or the general one it belongs to; and
\* where a component's own events show all that a template requires, and some
\* chain has its form, there is the scenario.
LocalScenariosStayInScope(line, findings, chains, scenarios) ==
  LET components == Components(line, chains)
      users(ch) == Scope(line, ch).users
      sessions(ch) == Scope(line, ch).sessions
      hosts(K) == UNION {Scope(line, ch).hosts : ch \in K}
      tied(a, b) == users(a) \intersect users(b) # {} \/ sessions(a) \intersect sessions(b) # {}
      closed(K, S) == \A a \in S, b \in K : tied(a, b) => b \in S
  IN  /\ \A ch \in chains : Cardinality({K \in components : ch \in K}) = 1
      /\ \A K \in components :
           /\ Cardinality(hosts(K)) = 1
           /\ Cardinality(Lifetimes(K)) <= 1
           /\ \A S \in (SUBSET K) \ {{}} :
                closed(K, S) /\ S # K => \E ch \in K : users(ch) = {}
      /\ \A s \in scenarios :
           /\ s.component \in components /\ s.chains # {} /\ s.chains \subseteq s.component
           /\ \A t \in s.techniques :
                ~(s.name \in ChainScenarios /\ t \in {"T1105", "T1059.001"})
                => \E f \in findings :
                  /\ f.technique = t /\ f.event.host \in hosts(s.component)
                  /\ Lifetimes(s.component) # {} =>
                       \E ch \in s.component : Key(f.event) \in Keys(line, ch.events)
           /\ \A a, b \in s.component :
                a.instance # <<>> /\ b.instance = <<>> => Overlap(line, a, b)
      /\ \A s \in scenarios, tm \in Templates :
           s.name = tm.id =>
             \A t \in tm.required : \E x \in s.techniques : x = t \/ <<x, t>> \in SubTechniques
      /\ \A K \in components, tm \in Templates :
           /\ tm.required # {} /\ \E ch \in K : tm.patterns = {} \/ ch.type \in tm.patterns
           /\ \A t \in tm.required : \E f \in findings : f.technique = t /\ Shown(line, K, f)
           => \E s \in scenarios : s.name = tm.id /\ s.component = K

\* A scenario across two hosts has, in each of its commands, a severe finding of
\* each of its techniques at both ends, which are the same for all of them; and
\* without such evidence there is none.
RemoteScenariosStayInScope(line, findings, chains, scenarios) ==
  LET severe(h, ch, t) ==
        \E f \in findings : /\ f.severity \in {"high", "critical"} /\ f.technique = t
                            /\ f.event.host = h /\ Key(f.event) \in Keys(line, ch.events)
      proves(ch, t) == /\ t \in MethodTechniques[ch.remote.method]
                       /\ severe(ch.remote.source, ch, t) /\ severe(ch.remote.target, ch, t)
  IN  /\ \A s \in scenarios :
           /\ s.chains \subseteq chains /\ s.techniques # {}
           /\ \A a, b \in s.chains :
                /\ \A t \in s.techniques : proves(a, t)
                /\ a.remote.source = b.remote.source /\ a.remote.target = b.remote.target
      /\ \A ch \in chains : Cardinality({s \in scenarios : ch \in s.chains}) =
           IF \E t \in MethodTechniques[ch.remote.method] : proves(ch, t)
           THEN 1 ELSE 0

\* No scenario mixes evidence of unrelated hosts, accounts or sessions, and none
\* is told without what its template requires, as scenario.py:110 reads it: the
\* comment at scenario.py:720-726 says the contrary, that a sub-technique is
\* required exactly and a general technique is met by those it consists of
\* (scenario_user_scope, scenario.infer_scenarios).
ScenariosStayInScope ==
  \A r \in Active : Reported(r) =>
    LET line == Timeline(read[r])
        remote(S) == {ch \in S : ch.type = "remote"}
        across == {s \in report[r].scenarios : s.name = "remote"}
    IN  /\ LocalScenariosStayInScope(line, report[r].findings,
             report[r].chains \ remote(report[r].chains), report[r].scenarios \ across)
        /\ RemoteScenariosStayInScope(line, report[r].findings,
             remote(report[r].chains), across)

Shared(r) == \E q \in Active \ {r} : Dir(q) = Dir(r)

\* After a successful analysis every file that was uploaded is still there
\* complete, plain or encrypted, whatever other requests wrote, failed to write
\* and cleaned up in the same directory meanwhile; and its events were read if it
\* is of the kind that is read, but for what could not be read of a file, which at
\* most the log says. Not so once a deletion took files from the directory, also one that
\* was to clean up after the analysis and failed half way, nor when others use the
\* directory while files are encrypted: see README.
EvidenceIsKept ==
  \A r \in Active :
    /\ stage[r] = "ok" /\ Dir(r) \in dirs \ removed
    /\ ~(work.encrypt /\ Shared(r))
    => \A n \in DOMAIN Uploads(r) :
         LET events == Uploads(r)[n].events
         IN  /\ \E f \in files : /\ f.dir = Dir(r) /\ f.of = <<r, n>> /\ f.upto = Len(events)
                                 /\ work.encrypt => f.form = "sealed"
             /\ MaxEvents = 0 /\ Uploads(r)[n].evtx = Converts(r) /\ <<r, n>> \notin skipped[r] =>
                  \A i \in DOMAIN events : \E j \in DOMAIN read[r] : Key(read[r][j]) = Key(events[i])

\* What a request leaves behind when it has succeeded under encryption, all of it
\* or what a failed removal spared, is encrypted: the answer says that no plain
\* text was retained (analysis_service.py:380).
NothingStaysPlain ==
  \A r \in Active :
    work.encrypt /\ stage[r] = "ok" /\ ~Shared(r) => Plain(Dir(r)) = {}

\* A failed analysis leaves none of its uploads and no case; its own directory
\* is gone. Not so when the clean-up itself was refused.
FailuresLeaveNothing ==
  \A r \in Active :
    /\ stage[r] = "failed" /\ r \notin blocked
    /\ ~(work.encrypt /\ Shared(r))
    => /\ \A f \in files : f.of[1] = r => f.of[2] = 0 /\ CallerDir(r)
       /\ Dir(r) \in dirs => CallerDir(r)
       /\ \A row \in rows : row.by # r

\* What every state of the service satisfies: its variables have their types, a
\* request that failed has left nothing of itself behind, and one that succeeded
\* under encryption nothing that is plain.
AnalysisInv == TypeOK /\ FailuresLeaveNothing /\ NothingStaysPlain

=============================================================================
