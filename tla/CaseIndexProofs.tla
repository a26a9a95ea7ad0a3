--------------------------- MODULE CaseIndexProofs ---------------------------
(* The case index for any number of cases, organizations, threads and        *)
(* processes: the locks exclude, the file implements the registry, and no    *)
(* damaged index, files of a dropped row or newest row is lost.              *)
EXTENDS CaseIndex, FiniteSetTheorems, TLAPS

\* The operations on rows stay within the index.
LEMMA EditedType ==
  ASSUME NEW index \in Registry!Index, NEW o \in Orgs,
         NEW e \in Registry!RowEdits, NEW t \in Registry!Times,
         Registry!Applicable(e, o, index)
  PROVE  Registry!Edited(e, o, index, t) \in Registry!Index
  <1>1. e.case \in Cases
    BY DEF Registry!RowEdits
  <1>2. Registry!EditedRow(e, o, index, t) \in Registry!Rows
    <2>1. CASE e.kind = "register"
      BY <2>1, IndexAssumption
      DEF Registry!EditedRow, Registry!NewRow, Registry!Rows
    <2>2. CASE e.kind # "register"
      <3>1. index[e.case] \in Registry!Rows
        BY <1>1, <2>2
        DEF Registry!Applicable, Registry!InScope, Registry!Index,
            Registry!RowEdits
      <3>2. e.kind = "lineage" => e.source \in Cases
        BY DEF Registry!RowEdits
      <3>3. e.kind = "update" => e.status \in Statuses
        BY DEF Registry!RowEdits
      <3> QED
        BY <2>2, <3>1, <3>2, <3>3
        DEF Registry!EditedRow, Registry!Rows
    <2> QED BY <2>1, <2>2
  <1> QED
    BY <1>1, <1>2 DEF Registry!Edited, Registry!Index

\* Dropping rows leaves an index.
LEMMA WithoutType ==
  ASSUME NEW index \in Registry!Index, NEW gone
  PROVE  Registry!Without(index, gone) \in Registry!Index
  BY DEF Registry!Without, Registry!Index

\* The file holds an index, or its rows are none.
LEMMA ContentType ==
  ASSUME NEW f, f = Absent \/ f \in Damages \/ f \in Registry!Index
  PROVE  /\ Content(f) \in Registry!Index
         /\ f \in Registry!Index => Content(f) = f
         /\ f \notin Registry!Index => Content(f) = Registry!Empty
  BY RowAssumption DEF Content, Registry!Empty, Registry!Index

\* A deletion of one more case, or of none, is a deletion still.
LEMMA DropMore ==
  ASSUME NEW index \in Registry!Index, NEW o \in Orgs, NEW after,
         Registry!Drop(o, index, after), NEW c \in Cases,
         Registry!InScope(index, o, c), ~index[c].remote
  PROVE  Registry!Drop(o, index, Registry!Without(after, {c}))
  <1>1. PICK gone \in SUBSET Registry!Scope(index, o) :
           /\ \A d \in gone : ~index[d].remote
           /\ after = Registry!Without(index, gone)
    BY DEF Registry!Drop
  <1>2. gone \cup {c} \in SUBSET Registry!Scope(index, o)
    BY <1>1 DEF Registry!Scope
  <1>3. Registry!Without(after, {c}) = Registry!Without(index, gone \cup {c})
    BY <1>1 DEF Registry!Without
  <1> QED BY <1>1, <1>2, <1>3 DEF Registry!Drop

\* Dropping rows of the organization that have no replica is a deletion.
LEMMA DropSome ==
  ASSUME NEW index \in Registry!Index, NEW o \in Orgs,
         NEW gone \in SUBSET Registry!Scope(index, o),
         \A d \in gone : ~index[d].remote
  PROVE  Registry!Drop(o, index, Registry!Without(index, gone))
  BY DEF Registry!Drop

\* Dropping no row is a deletion too: prune may find nothing to do.
LEMMA DropNone ==
  ASSUME NEW index \in Registry!Index, NEW o \in Orgs
  PROVE  Registry!Drop(o, index, index)
  <1>1. index = Registry!Without(index, {})
    BY DEF Registry!Without, Registry!Index
  <1>2. {} \in SUBSET Registry!Scope(index, o)
    OBVIOUS
  <1> QED BY <1>1, <1>2 DEF Registry!Drop

\* What a method decides about the rows it has read: it returns, or it goes
\* on with one change of its organization to those rows.
Decided(k, index) ==
    \/ pc'[k] = "idle" /\ Return(k, reply'[k]) /\ Forgetting(k)
    \/ /\ Goto(k, "write")
       /\ Registry!Change(OrgOf[k], index, mem'[k])
       /\ Holding(k, mem'[k], {})
    \/ /\ Goto(k, "files")
       /\ Registry!Drop(OrgOf[k], index, mem'[k])
       /\ \A c \in victims'[k] :
             /\ c \in Cases /\ Registry!InScope(index, OrgOf[k], c)
             /\ op[k].kind # "archive" => ~index[c].remote
       /\ Holding(k, mem'[k], victims'[k])

\* Whatever a method decides about the rows it has read, it goes on to a
\* pending change of those rows, or returns without one.
LEMMA DecideDecides ==
  ASSUME TypeOK, NEW k \in Callers, NEW index \in Registry!Index,
         Decide(k, index)
  PROVE  /\ Decided(k, index)
         /\ mem'[k] \in Registry!Index
         /\ reply'[k] \in Replies
  <1> DEFINE e == op[k]
             o == OrgOf[k]
  <1>0. /\ o \in Orgs /\ e \in Operations
        /\ pc \in [Callers -> Labels] /\ reply \in [Callers -> Replies]
        /\ mem \in [Callers -> Registry!Index]
        /\ victims \in [Callers -> SUBSET Cases]
        /\ clock \in Registry!Times
    BY IndexAssumption DEF TypeOK
  <1>e. Registry!Empty \in Registry!Index
    BY DEF Registry!Empty, Registry!Index
  \* The two ways to end a step.
  <1>r. ASSUME NEW answer \in Replies, Return(k, answer), Forgetting(k)
        PROVE  /\ Decided(k, index) /\ mem'[k] \in Registry!Index
               /\ reply'[k] \in Replies
    <2>1. /\ pc'[k] = "idle" /\ reply'[k] = answer
          /\ mem'[k] = Registry!Empty
      BY <1>0, <1>r DEF Return, Forgetting
    <2> QED BY <1>r, <1>e, <2>1 DEF Decided
  <1>w. ASSUME NEW m \in Registry!Index, Registry!Change(o, index, m),
               Goto(k, "write"), Holding(k, m, {})
        PROVE  /\ Decided(k, index) /\ mem'[k] \in Registry!Index
               /\ reply'[k] \in Replies
    <2>1. mem'[k] = m /\ reply'[k] \in Replies
      BY <1>0, <1>w DEF Holding, Goto
    <2> QED BY <1>w, <2>1 DEF Decided
  <1>f. ASSUME NEW m \in Registry!Index, Registry!Drop(o, index, m),
               NEW cs \in SUBSET Cases,
               \A c \in cs : /\ Registry!InScope(index, o, c)
                             /\ e.kind # "archive" => ~index[c].remote,
               Goto(k, "files"), Holding(k, m, cs)
        PROVE  /\ Decided(k, index) /\ mem'[k] \in Registry!Index
               /\ reply'[k] \in Replies
    <2>1. mem'[k] = m /\ victims'[k] = cs /\ reply'[k] \in Replies
      BY <1>0, <1>f DEF Holding, Goto
    <2> QED BY <1>f, <2>1 DEF Decided
  <1>1. CASE e.kind = "list" /\ Return(k, "ok") /\ Forgetting(k)
    BY <1>1, <1>r DEF Replies
  <1>2. CASE /\ e \in Registry!RowEdits
             /\ IF Registry!Applicable(e, o, index)
                THEN /\ Goto(k, "write")
                     /\ Holding(k, Registry!Edited(e, o, index, clock), {})
                ELSE Return(k, "not_found") /\ Forgetting(k)
    <2>1. CASE Registry!Applicable(e, o, index)
      <3>1. Registry!Edited(e, o, index, clock) \in Registry!Index
        BY <1>0, <1>2, <2>1, EditedType
      <3>2. Registry!Change(o, index, Registry!Edited(e, o, index, clock))
        BY <1>0, <1>2, <2>1 DEF Registry!Change, Registry!Edit
      <3> QED BY <1>2, <2>1, <3>1, <3>2, <1>w
    <2>2. CASE ~Registry!Applicable(e, o, index)
      BY <1>2, <2>2, <1>r DEF Replies
    <2> QED BY <2>1, <2>2
  <1>3. CASE /\ e.kind \in {"delete", "archive"}
             /\ IF ~Registry!InScope(index, o, e.case)
                THEN Return(k, "not_found") /\ Forgetting(k)
                ELSE IF index[e.case].remote = (e.kind = "delete")
                THEN Return(k, "blocked") /\ Forgetting(k)
                ELSE IF e.kind = "archive"
                THEN \/ /\ e.case \in dirs
                        /\ Goto(k, "files") /\ Holding(k, index, {e.case})
                     \/ Return(k, "blocked") /\ Forgetting(k)
                ELSE IF e.files /\ e.case \in dirs
                THEN Goto(k, "files") /\ Holding(k, index, {e.case})
                ELSE /\ Goto(k, "write")
                     /\ Holding(k, Registry!Without(index, {e.case}), {})
    <2>1. e.case \in Cases
      BY <1>0, <1>3
      DEF Operations, Registry!RowEdits, Registry!Deletes, Registry!Prunes,
          Archives, Reads
    <2>2. CASE \/ Return(k, "not_found") /\ Forgetting(k)
               \/ Return(k, "blocked") /\ Forgetting(k)
      BY <2>2, <1>r DEF Replies
    <2>3. CASE /\ Registry!InScope(index, o, e.case)
               /\ index[e.case].remote # (e.kind = "delete")
               /\ Goto(k, "files") /\ Holding(k, index, {e.case})
      <3>1. Registry!Drop(o, index, index)
        BY <1>0, DropNone
      <3>2. index[e.case].remote \in BOOLEAN
        BY <2>1, <2>3 DEF Registry!InScope, Registry!Index, Registry!Rows
      <3>3. e.kind # "archive" => ~index[e.case].remote
        BY <1>3, <2>3, <3>2
      <3> QED BY <2>1, <2>3, <3>1, <3>3, <1>f
    <2>4. CASE /\ e.kind # "archive"
               /\ Registry!InScope(index, o, e.case)
               /\ index[e.case].remote # (e.kind = "delete")
               /\ Goto(k, "write")
               /\ Holding(k, Registry!Without(index, {e.case}), {})
      <3>1. index[e.case].remote \in BOOLEAN
        BY <2>1, <2>4 DEF Registry!InScope, Registry!Index, Registry!Rows
      <3>2. ~index[e.case].remote
        BY <1>3, <2>4, <3>1
      <3>3. {e.case} \in SUBSET Registry!Scope(index, o)
        BY <2>1, <2>4 DEF Registry!Scope
      <3>4. Registry!Change(o, index, Registry!Without(index, {e.case}))
        BY <1>0, <3>2, <3>3, DropSome DEF Registry!Change
      <3> QED BY <2>4, <3>4, WithoutType, <1>w
    <2> QED BY <1>3, <2>2, <2>3, <2>4
  <1>4. CASE /\ e.kind = "prune"
             /\ \E K \in Registry!NewestSets(index, o, e.keep) :
                  LET gone == {c \in Registry!Prunable(index, o, K, e.cutoff) :
                                  ~index[c].remote}
                      dirty == IF e.files THEN gone \cap dirs ELSE {} IN
                  /\ Goto(k, IF dirty = {} THEN "write" ELSE "files")
                  /\ Holding(k, Registry!Without(index, gone \ dirty), dirty)
    <2>1. PICK K \in Registry!NewestSets(index, o, e.keep) :
             LET gone == {c \in Registry!Prunable(index, o, K, e.cutoff) :
                             ~index[c].remote}
                 dirty == IF e.files THEN gone \cap dirs ELSE {} IN
             /\ Goto(k, IF dirty = {} THEN "write" ELSE "files")
             /\ Holding(k, Registry!Without(index, gone \ dirty), dirty)
      BY <1>4
    <2> DEFINE gone == {c \in Registry!Prunable(index, o, K, e.cutoff) :
                           ~index[c].remote}
               dirty == IF e.files THEN gone \cap dirs ELSE {}
    <2>2. /\ Goto(k, IF dirty = {} THEN "write" ELSE "files")
          /\ Holding(k, Registry!Without(index, gone \ dirty), dirty)
      BY <2>1
    <2>3. /\ gone \in SUBSET Registry!Scope(index, o)
          /\ \A c \in gone : ~index[c].remote
      BY DEF Registry!Prunable
    <2>4. dirty \subseteq gone
      OBVIOUS
    <2> HIDE DEF gone, dirty
    <2>5. Registry!Drop(o, index, Registry!Without(index, gone \ dirty))
      <3>1. gone \ dirty \in SUBSET Registry!Scope(index, o)
        BY <2>3
      <3> QED BY <1>0, <2>3, <3>1, DropSome
    <2>6. Registry!Without(index, gone \ dirty) \in Registry!Index
      BY WithoutType
    <2>7. CASE dirty = {}
      BY <2>2, <2>5, <2>6, <2>7, <1>w DEF Registry!Change
    <2>8. CASE dirty # {}
      <3>1. /\ dirty \in SUBSET Cases
            /\ \A c \in dirty : /\ Registry!InScope(index, o, c)
                               /\ ~index[c].remote
        BY <2>3, <2>4 DEF Registry!Scope
      <3> QED BY <2>2, <2>5, <2>6, <2>8, <3>1, <1>f
    <2> QED BY <2>7, <2>8
  <1> QED BY <1>1, <1>2, <1>3, <1>4 DEF Decide

-----------------------------------------------------------------------------
\* A step of k that leaves the other callers alone, and the file too unless
\* k holds its lock.
OnlyMoves(k) ==
    /\ \A s \in Callers \ {k} : /\ pc'[s] = pc[s] /\ op'[s] = op[s]
                                /\ mem'[s] = mem[s] /\ victims'[s] = victims[s]
    /\ fileLock' = fileLock \/ fileLock \in {k, NoCaller}
    /\ \A p \in Procs : procLock'[p] = procLock[p]
                        \/ procLock[p] \in {k, NoCaller}
    /\ fileLock = k \/ UNCHANGED file

\* The locks and the pending changes of the others survive such a step.
LEMMA OthersStay ==
  ASSUME WritersInv, NEW k \in Callers, OnlyMoves(k)
  PROVE  \A s \in Callers \ {k} : ExcludedAt(s)' /\ PendingAt(s)'
  <1> SUFFICES ASSUME NEW s \in Callers \ {k}
               PROVE  ExcludedAt(s)' /\ PendingAt(s)'
    OBVIOUS
  <1>0. /\ ExcludedAt(s) /\ PendingAt(s) /\ s # NoCaller
        /\ ProcOf[s] \in Procs
    BY IndexAssumption DEF WritersInv, Excluded, Pending
  <1>1. ExcludedAt(s)'
    BY <1>0 DEF OnlyMoves, ExcludedAt
  <1>2. PendingAt(s)'
    <2>1. CASE pc[s] \in {"write", "files"}
      <3>1. UNCHANGED file
        BY <1>0, <2>1 DEF OnlyMoves, ExcludedAt
      <3>2. Content(file)' = Content(file)
        BY <3>1 DEF Content
      <3> QED BY <1>0, <3>2 DEF OnlyMoves, PendingAt
    <2>2. CASE pc[s] \notin {"write", "files"}
      BY <2>2 DEF OnlyMoves, PendingAt
    <2> QED BY <2>1, <2>2
  <1> QED BY <1>1, <1>2

\* No file, free locks and idle callers satisfy the invariant.
LEMMA InitInv == Init => WritersInv
  <1> SUFFICES ASSUME Init PROVE WritersInv
    OBVIOUS
  <1>1. Registry!Empty \in Registry!Index
    BY DEF Registry!Empty, Registry!Index
  <1>2. NoOp \in Operations
    BY DEF NoOp, Operations, Reads
  <1>3. 0 \in Registry!Times
    BY IndexAssumption DEF Registry!Times
  <1>4. TypeOK
    BY <1>1, <1>2, <1>3 DEF Init, TypeOK, Labels, Replies
  <1>5. Excluded /\ Pending
    BY DEF Init, Excluded, ExcludedAt, Pending, PendingAt
  <1> QED BY <1>4, <1>5 DEF WritersInv

\* Every step of a caller, every failure, crash and damage preserves it.
LEMMA NextInv == WritersInv /\ [Next]_vars => WritersInv'
  <1> SUFFICES ASSUME WritersInv, [Next]_vars PROVE WritersInv'
    OBVIOUS
  <1> USE IndexAssumption DEF callVars, lockVars
  <1>0. TypeOK
    BY DEF WritersInv
  <1>x. \A k \in Callers : ExcludedAt(k) /\ PendingAt(k)
    BY DEF WritersInv, Excluded, Pending
  <1>e. Registry!Empty \in Registry!Index /\ NoOp \in Operations
    BY DEF Registry!Empty, Registry!Index, NoOp, Operations, Reads
  \* It is enough to look at the caller that moves.
  <1>i. ASSUME NEW k \in Callers, OnlyMoves(k), TypeOK',
               ExcludedAt(k)', PendingAt(k)'
        PROVE  WritersInv'
    <2>1. \A s \in Callers \ {k} : ExcludedAt(s)' /\ PendingAt(s)'
      BY <1>i, OthersStay
    <2> QED BY <1>i, <2>1 DEF WritersInv, Excluded, Pending
  <1>1. ASSUME NEW k \in Callers, Call(k) PROVE WritersInv'
    <2> USE <1>1 DEF Call
    <2>1. TypeOK'
      <3>1. PICK e \in Requests :
               /\ op' = [op EXCEPT ![k] = e]
               /\ dirs' = IF e.kind = "register" THEN dirs \cup {e.case}
                                                 ELSE dirs
        OBVIOUS
      <3>2. e \in Operations
        BY RequestsAssumption
      <3>3. e.kind = "register" => e.case \in Cases
        BY <3>2 DEF Operations, Registry!RowEdits, Registry!Deletes,
                    Registry!Prunes, Archives, Reads
      <3> QED BY <1>0, <3>1, <3>2, <3>3 DEF TypeOK, Labels, Replies
    <2>2. OnlyMoves(k)
      BY <1>0 DEF OnlyMoves, TypeOK
    <2>3. pc'[k] = "process_lock"
      BY <1>0 DEF TypeOK
    <2> QED BY <2>1, <2>2, <2>3, <1>i DEF ExcludedAt, PendingAt
  <1>2. ASSUME NEW k \in Callers, LockProcess(k) PROVE WritersInv'
    <2> USE <1>2 DEF LockProcess
    <2>1. TypeOK'
      BY <1>0 DEF TypeOK, Labels
    <2>2. OnlyMoves(k)
      BY <1>0 DEF OnlyMoves, TypeOK
    <2>3. pc'[k] = "file_lock" /\ procLock'[ProcOf[k]] = k
      BY <1>0 DEF TypeOK
    <2> QED BY <2>1, <2>2, <2>3, <1>i DEF ExcludedAt, PendingAt
  <1>3. ASSUME NEW k \in Callers, LockFile(k) PROVE WritersInv'
    <2> USE <1>3 DEF LockFile, Return, Forgetting
    <2>1. TypeOK'
      BY <1>0, <1>e DEF TypeOK, Labels, Replies
    <2>2. OnlyMoves(k)
      BY <1>0 DEF OnlyMoves, TypeOK
    <2>3. \/ pc'[k] = "idle"
          \/ /\ pc'[k] = "read" /\ fileLock' = k
             /\ procLock'[ProcOf[k]] = k
      <3>1. ExcludedAt(k)
        BY <1>x
      <3> QED BY <1>0, <3>1 DEF TypeOK, ExcludedAt
    <2> QED BY <2>1, <2>2, <2>3, <1>i DEF ExcludedAt, PendingAt
  <1>4. ASSUME NEW k \in Callers, Read(k) PROVE WritersInv'
    <2> USE <1>4 DEF Read
    <2>0. fileLock = k /\ procLock[ProcOf[k]] = k
      <3>1. ExcludedAt(k)
        BY <1>x
      <3> QED BY <3>1 DEF ExcludedAt
    \* Whatever the file was, the caller decides on its rows.
    <2>1. CASE \E index \in Registry!Index :
                  /\ Decide(k, index) /\ Content(file)' = index
                  /\ file' \in {file, Absent}
                  /\ \/ broken' = broken
                     \/ /\ file \in Damages
                        /\ \E n : broken' = [broken EXCEPT ![n] = file]
      <3>1. PICK index \in Registry!Index :
                  /\ Decide(k, index) /\ Content(file)' = index
        BY <2>1
      <3>2. /\ Decided(k, index) /\ mem'[k] \in Registry!Index
            /\ reply'[k] \in Replies
        BY <1>0, <3>1, DecideDecides
      <3>3. file' \in {file, Absent}
            /\ broken' \in [Names -> Damages \cup {NoDamage}]
        BY <1>0, <2>1 DEF TypeOK
      <3>4. CASE pc'[k] = "idle" /\ Return(k, reply'[k]) /\ Forgetting(k)
        <4> USE <3>4 DEF Return, Forgetting
        <4>1. TypeOK'
          BY <1>0, <1>e, <3>2, <3>3 DEF TypeOK, Labels
        <4>2. OnlyMoves(k)
          BY <1>0, <2>0 DEF OnlyMoves, TypeOK
        <4> QED BY <4>1, <4>2, <1>i DEF ExcludedAt, PendingAt
      <3>5. CASE /\ Goto(k, "write")
                 /\ Registry!Change(OrgOf[k], index, mem'[k])
                 /\ Holding(k, mem'[k], {})
        <4> USE <3>5 DEF Goto, Holding
        <4>1. TypeOK'
          BY <1>0, <3>2, <3>3 DEF TypeOK, Labels
        <4>2. OnlyMoves(k)
          BY <1>0, <2>0 DEF OnlyMoves, TypeOK
        <4>3. pc'[k] = "write"
          BY <1>0 DEF TypeOK
        <4> QED BY <2>0, <3>1, <4>1, <4>2, <4>3, <1>i DEF ExcludedAt, PendingAt
      <3>6. CASE /\ Goto(k, "files")
                 /\ Registry!Drop(OrgOf[k], index, mem'[k])
                 /\ \A c \in victims'[k] :
                       /\ c \in Cases /\ Registry!InScope(index, OrgOf[k], c)
                       /\ op[k].kind # "archive" => ~index[c].remote
                 /\ Holding(k, mem'[k], victims'[k])
        <4> USE <3>6 DEF Goto, Holding
        <4>1. TypeOK'
          BY <1>0, <3>2, <3>3 DEF TypeOK, Labels
        <4>2. OnlyMoves(k)
          BY <1>0, <2>0 DEF OnlyMoves, TypeOK
        <4>3. pc'[k] = "files" /\ op'[k] = op[k]
          BY <1>0 DEF TypeOK
        <4> QED BY <2>0, <3>1, <4>1, <4>2, <4>3, <1>i DEF ExcludedAt, PendingAt
      <3> QED BY <3>2, <3>4, <3>5, <3>6 DEF Decided
    <2>2. CASE /\ file \in Damages
               /\ broken' = [broken EXCEPT ![NextBroken] = file]
               /\ file' = Absent
               /\ Decide(k, Registry!Empty)
      <3>1. Content(file)' = Registry!Empty
        BY <2>2 DEF Content, Registry!Empty
      <3> QED BY <2>1, <2>2, <3>1, <1>e
    <2>3. CASE /\ file \notin Damages /\ Decide(k, Content(file))
               /\ UNCHANGED <<file, broken>>
      <3>1. Content(file)' = Content(file) /\ Content(file) \in Registry!Index
        BY <1>0, <2>3, ContentType DEF Content, TypeOK
      <3> QED BY <2>1, <2>3, <3>1
    <2>4. CASE /\ Return(k, IF file \in Damages THEN "corrupt_error"
                                                 ELSE "lock_error")
               /\ Forgetting(k) /\ UNCHANGED <<file, broken>>
      <3> USE <2>4 DEF Return, Forgetting
      <3>1. TypeOK'
        BY <1>0, <1>e DEF TypeOK, Labels, Replies
      <3>2. OnlyMoves(k)
        BY <1>0, <2>0 DEF OnlyMoves, TypeOK
      <3>3. pc'[k] = "idle"
        BY <1>0 DEF TypeOK
      <3> QED BY <3>1, <3>2, <3>3, <1>i DEF ExcludedAt, PendingAt
    <2> QED BY <2>2, <2>3, <2>4
  <1>5. ASSUME NEW k \in Callers, RemoveFiles(k) PROVE WritersInv'
    <2> USE <1>5 DEF RemoveFiles
    <2>0. /\ fileLock = k /\ procLock[ProcOf[k]] = k /\ PendingAt(k)
          /\ Content(file)' = Content(file)
      <3>1. ExcludedAt(k) /\ PendingAt(k)
        BY <1>x
      <3> QED BY <3>1 DEF ExcludedAt, Content
    <2>1. PICK c \in victims[k] :
             LET rest == victims[k] \ {c}
                 next == IF rest = {} THEN "write" ELSE "files" IN
             \/ /\ dirs' = dirs \ {c}
                /\ IF op[k].kind = "archive"
                   THEN Return(k, "ok") /\ Forgetting(k)
                   ELSE /\ Goto(k, next)
                        /\ Holding(k, Registry!Without(mem[k], {c}), rest)
             \/ /\ UNCHANGED dirs
                /\ IF op[k].kind = "prune"
                   THEN Goto(k, next) /\ Holding(k, mem[k], rest)
                   ELSE Return(k, "files_kept") /\ Forgetting(k)
      OBVIOUS
    <2>2. CASE \E answer \in Replies : Return(k, answer) /\ Forgetting(k)
      <3> USE <2>2 DEF Return, Forgetting
      <3>1. TypeOK'
        BY <1>0, <1>e, <2>1 DEF TypeOK, Labels
      <3>2. OnlyMoves(k)
        BY <1>0, <2>0 DEF OnlyMoves, TypeOK
      <3>3. pc'[k] = "idle"
        BY <1>0 DEF TypeOK
      <3> QED BY <3>1, <3>2, <3>3, <1>i DEF ExcludedAt, PendingAt
    <2>3. ASSUME NEW m \in Registry!Index,
                 Registry!Drop(OrgOf[k], Content(file), m),
                 Goto(k, IF victims[k] \ {c} = {} THEN "write" ELSE "files"),
                 Holding(k, m, victims[k] \ {c})
          PROVE  WritersInv'
      <3> USE <2>3 DEF Goto, Holding
      <3>1. TypeOK'
        BY <1>0, <2>1 DEF TypeOK, Labels
      <3>2. OnlyMoves(k)
        BY <1>0, <2>0 DEF OnlyMoves, TypeOK
      <3>3. /\ pc'[k] \in {"write", "files"} /\ op'[k] = op[k] /\ mem'[k] = m
            /\ victims'[k] \subseteq victims[k]
        BY <1>0 DEF TypeOK
      <3>4. ExcludedAt(k)'
        BY <2>0, <3>3 DEF ExcludedAt
      <3>5. PendingAt(k)'
        BY <2>0, <3>3 DEF PendingAt, Registry!Change
      <3> QED BY <3>1, <3>2, <3>4, <3>5, <1>i
    <2>4. /\ mem[k] \in Registry!Index /\ OrgOf[k] \in Orgs /\ c \in Cases
          /\ Content(file) \in Registry!Index
          /\ Registry!Drop(OrgOf[k], Content(file), mem[k])
          /\ Registry!InScope(Content(file), OrgOf[k], c)
          /\ op[k].kind # "archive" => ~Content(file)[c].remote
      BY <1>0, <2>0, ContentType DEF TypeOK, PendingAt
    <2>5. op[k].kind # "archive" =>
             Registry!Drop(OrgOf[k], Content(file),
                           Registry!Without(mem[k], {c}))
      BY <2>4, DropMore
    <2>6. Registry!Without(mem[k], {c}) \in Registry!Index
      BY <2>4, WithoutType
    <2> QED BY <2>1, <2>2, <2>3, <2>4, <2>5, <2>6 DEF Replies
  <1>6. ASSUME NEW k \in Callers, Write(k) PROVE WritersInv'
    <2> USE <1>6 DEF Write, Return, Forgetting
    <2>0. fileLock = k
      <3>1. ExcludedAt(k)
        BY <1>x
      <3> QED BY <3>1 DEF ExcludedAt
    <2>1. TypeOK'
      BY <1>0, <1>e DEF TypeOK, Labels, Replies
    <2>2. OnlyMoves(k)
      BY <1>0, <2>0 DEF OnlyMoves, TypeOK
    <2>3. pc'[k] = "idle"
      BY <1>0 DEF TypeOK
    <2> QED BY <2>1, <2>2, <2>3, <1>i DEF ExcludedAt, PendingAt
  <1>7. ASSUME NEW p \in Procs, Crash(p) PROVE WritersInv'
    <2> DEFINE dead == {k \in Callers : ProcOf[k] = p}
    <2>0. /\ pc' = [k \in Callers |-> IF k \in dead THEN "idle" ELSE pc[k]]
          /\ op' = [k \in Callers |-> IF k \in dead THEN NoOp ELSE op[k]]
          /\ mem' = [k \in Callers |-> IF k \in dead THEN Registry!Empty
                                                      ELSE mem[k]]
          /\ victims' = [k \in Callers |-> IF k \in dead THEN {}
                                                          ELSE victims[k]]
          /\ reply' = [k \in Callers |-> IF k \in dead THEN "none"
                                                        ELSE reply[k]]
          /\ fileLock' = IF fileLock \in dead THEN NoCaller ELSE fileLock
          /\ procLock' = [procLock EXCEPT ![p] = NoCaller]
          /\ UNCHANGED <<file, broken, dirs, damage, clock>>
      BY <1>7 DEF Crash
    <2>1. TypeOK'
      BY <1>0, <1>e, <2>0 DEF TypeOK, Labels, Replies
    <2>2. ASSUME NEW k \in Callers PROVE ExcludedAt(k)' /\ PendingAt(k)'
      <3>1. ExcludedAt(k) /\ PendingAt(k) /\ Content(file)' = Content(file)
        BY <1>x, <2>0 DEF Content
      <3>2. CASE k \in dead
        <4>1. pc'[k] = "idle"
          BY <2>0, <3>2
        <4> QED BY <4>1 DEF ExcludedAt, PendingAt
      <3>3. CASE k \notin dead
        <4>1. /\ pc'[k] = pc[k] /\ op'[k] = op[k] /\ mem'[k] = mem[k]
              /\ victims'[k] = victims[k]
              /\ procLock'[ProcOf[k]] = procLock[ProcOf[k]]
              /\ fileLock = k => fileLock' = k
          BY <1>0, <2>0, <3>3 DEF TypeOK
        <4> QED BY <3>1, <4>1 DEF ExcludedAt, PendingAt
      <3> QED BY <3>2, <3>3
    <2> QED BY <2>1, <2>2 DEF WritersInv, Excluded, Pending
  <1>8. CASE Damage
    <2> USE <1>8 DEF Damage
    <2>1. TypeOK'
      BY <1>0 DEF TypeOK
    <2>2. ASSUME NEW k \in Callers PROVE ExcludedAt(k)' /\ PendingAt(k)'
      <3>1. ExcludedAt(k) /\ fileLock # k
        BY <1>x
      <3> QED BY <3>1 DEF ExcludedAt, PendingAt
    <2> QED BY <2>1, <2>2 DEF WritersInv, Excluded, Pending
  <1>9. CASE Tick \/ UNCHANGED vars
    <2> USE <1>9 DEF Tick, vars
    <2>1. TypeOK'
      BY <1>0 DEF TypeOK, Registry!Times
    <2>2. ASSUME NEW k \in Callers PROVE ExcludedAt(k)' /\ PendingAt(k)'
      <3>1. ExcludedAt(k) /\ PendingAt(k) /\ Content(file)' = Content(file)
        BY <1>x DEF Content
      <3> QED BY <3>1 DEF ExcludedAt, PendingAt
    <2> QED BY <2>1, <2>2 DEF WritersInv, Excluded, Pending
  <1> QED
    BY <1>1, <1>2, <1>3, <1>4, <1>5, <1>6, <1>7, <1>8, <1>9 DEF Next

\* The locks of case_history_concurrency.py exclude: between reading the
\* index and replacing it, what a caller is about to write stays one change
\* of its organization to the rows that are in the file.
THEOREM WritersInvariant == Spec => []WritersInv
  BY InitInv, NextInv, PTL DEF Spec

\* Every step of the callers, of a dying process and of whoever damages the
\* file is a step of the registry or leaves its rows as they are.
LEMMA StepRefines == WritersInv /\ [Next]_vars => [Registry!Next]_(Content(file))
  <1> SUFFICES ASSUME WritersInv, [Next]_vars,
                      Content(file)' # Content(file)
               PROVE  Registry!Next
    OBVIOUS
  <1> USE IndexAssumption
  <1>0. TypeOK /\ file' # file
    BY DEF WritersInv, Content
  <1>1. CASE Damage
    <2>1. Content(file)' = Registry!Empty
      BY <1>1 DEF Damage, Content, Registry!Empty
    <2> QED BY <2>1 DEF Registry!Next, Registry!Lose
  <1>2. ASSUME NEW k \in Callers, Read(k) PROVE FALSE
    <2>1. file \in Damages /\ file' = Absent
      BY <1>0, <1>2 DEF Read
    <2> QED BY <2>1 DEF Content
  <1>3. ASSUME NEW k \in Callers, Write(k) PROVE Registry!Next
    <2>1. file' = mem[k] /\ pc[k] = "write"
      BY <1>0, <1>3 DEF Write
    <2>2. mem[k] \in Registry!Index
      BY <1>0 DEF TypeOK
    <2>3. Content(file)' = mem[k]
      BY <2>1, <2>2, RowAssumption DEF Content
    <2>4. Registry!Change(OrgOf[k], Content(file), mem[k])
      BY <2>1 DEF WritersInv, Pending, PendingAt
    <2> QED BY <2>3, <2>4 DEF Registry!Next
  <1> QED
    BY <1>0, <1>1, <1>2, <1>3
    DEF Next, Call, LockProcess, LockFile, RemoveFiles, Crash, Tick, vars

\* The index file, its locks, its replacement and its quarantine implement
\* the registry of CaseRegistry: no interleaving of threads and processes,
\* no failed write and no crash shows anything but whole operations of one
\* organization at a time.
THEOREM IndexImplementsRegistry == Spec => ImplementsRegistry
  <1>1. Init => Registry!Init
    BY DEF Init, Registry!Init, Content, Registry!Empty
  <1> QED
    BY <1>1, StepRefines, WritersInvariant, PTL
    DEF Spec, ImplementsRegistry, Registry!Spec

-----------------------------------------------------------------------------
\* While the index file is damaged, one of the names of the files set aside
\* is free, and _quarantine_path finds the first.
LEMMA FreeName ==
  ASSUME TypeOK, Quarantined, file \in Damages
  PROVE  NextBroken \in Names /\ broken[NextBroken] = NoDamage
  <1>1. /\ IsFiniteSet(Names) /\ Cardinality(Names) = Cardinality(Damages)
        /\ Cardinality(Damages) \in Nat
    BY IndexAssumption, FS_CardinalityType, FS_Interval DEF Names
  <1>2. \E n \in Names : broken[n] = NoDamage
    <2> SUFFICES ASSUME \A n \in Names : broken[n] # NoDamage PROVE FALSE
      OBVIOUS
    <2>1. broken \in [Names -> Damages \ {file}]
      BY DEF TypeOK, Quarantined
    <2>2. /\ IsFiniteSet(Damages \ {file})
          /\ Cardinality(Damages \ {file}) < Cardinality(Names)
      <3>1. IsFiniteSet(Damages)
        BY IndexAssumption
      <3>2. /\ IsFiniteSet(Damages \ {file})
            /\ Cardinality(Damages \ {file}) =
                  IF file \in Damages THEN Cardinality(Damages) - 1
                                      ELSE Cardinality(Damages)
        BY <3>1, FS_RemoveElement
      <3> QED BY <1>1, <3>2
    <2>3. \E i, j \in Names : i # j /\ broken[i] = broken[j]
      BY <1>1, <2>1, <2>2, FS_PigeonHole
    <2> QED BY <2>3 DEF Quarantined
  \* The least of the free ones, without an induction: the intervals below
  \* them are ordered by inclusion.
  <1> DEFINE Free == {n \in Names : broken[n] = NoDamage}
             Below(n) == 1..n
             Order == StrictSubsetOrdering(Names)
  <1>3. PICK n \in Free : \A i \in Free : <<Below(i), Below(n)>> \notin Order
    <2> DEFINE T == {Below(n) : n \in Free}
    <2>1. ASSUME NEW n \in Free PROVE Below(n) \in FiniteSubsetsOf(Names)
      <3>1. n \in Int /\ Below(n) \subseteq Names
        BY <1>1 DEF Names
      <3>2. IsFiniteSet(Below(n))
        BY <3>1, FS_Interval
      <3> QED BY <3>1, <3>2 DEF FiniteSubsetsOf
    <2>2. T # {}
      BY <1>2
    <2>3. IsWellFoundedOn(Order, FiniteSubsetsOf(Names))
      BY FS_StrictSubsetOrderingWellFounded
    <2> HIDE DEF T, Order
    <2>4. PICK x \in T : \A y \in T : <<y, x>> \notin Order
      <3>1. T \subseteq FiniteSubsetsOf(Names)
        BY <2>1 DEF T
      <3> QED BY <2>2, <2>3, <3>1, WFMin
    <2> USE DEF T
    <2> QED BY <2>4
  <1>4. ASSUME NEW i \in 1..(n - 1), broken[i] = NoDamage PROVE FALSE
    <2>1. i \in Free /\ i \in Nat /\ n \in Nat /\ i < n
      BY <1>1, <1>3, <1>4 DEF Names
    <2>2. Below(i) \subseteq Below(n) /\ n \in Below(n) /\ n \notin Below(i)
      BY <1>3, <2>1 DEF Names
    <2>3. Below(n) \subseteq Names
      BY <1>1, <1>3 DEF Names
    <2> HIDE DEF Below
    <2>4. <<Below(i), Below(n)>> \in Order
      BY <2>2, <2>3 DEF StrictSubsetOrdering
    <2> QED BY <1>3, <2>1, <2>4
  <1>5. /\ n \in Names /\ broken[n] = NoDamage
        /\ \A i \in 1..(n - 1) : broken[i] # NoDamage
    BY <1>3, <1>4
  <1> HIDE DEF Free, Below, Order
  <1> QED BY <1>5 DEF NextBroken

\* What a method has decided, against the rows it has read.
LEMMA DecideCares ==
  ASSUME TypeOK, NEW k \in Callers, NEW index \in Registry!Index,
         Decide(k, index), pc'[k] \in {"files", "write"}
  PROVE  /\ op' = op
         /\ op[k].kind \in {"delete", "prune"} /\ op[k].files =>
               \A c \in dirs : index[c] # NoRow => mem'[k][c] # NoRow
         /\ op[k].kind = "prune" =>
               \E K \in Registry!NewestSets(index, OrgOf[k], op[k].keep) :
                  \A c \in K : mem'[k][c] = index[c] /\ c \notin victims'[k]
  <1> DEFINE e == op[k]
             o == OrgOf[k]
  <1>0. /\ pc \in [Callers -> Labels] /\ mem \in [Callers -> Registry!Index]
        /\ victims \in [Callers -> SUBSET Cases] /\ dirs \subseteq Cases
        /\ index \in [Cases -> Registry!Rows \cup {NoRow}]
        /\ e \in Operations
    BY DEF TypeOK, Registry!Index
  <1>r. ASSUME NEW answer, Return(k, answer) PROVE FALSE
    BY <1>0, <1>r DEF Return
  <1>1. CASE e \in Registry!RowEdits
    <2>1. e.kind \notin {"delete", "archive", "prune", "list"}
      BY <1>1 DEF Registry!RowEdits
    <2>2. op' = op
      BY <1>r, <2>1 DEF Decide, Holding
    <2> QED BY <2>1, <2>2
  <1>2. CASE e.kind \in {"delete", "archive"}
    <2>0. e.case \in Cases /\ e \notin Registry!RowEdits
      BY <1>0, <1>2
      DEF Operations, Registry!RowEdits, Registry!Deletes, Registry!Prunes,
          Archives, Reads
    <2>1. CASE Holding(k, index, {e.case})
      BY <1>0, <1>2, <2>1 DEF Holding
    <2>2. CASE /\ ~(e.files /\ e.case \in dirs)
               /\ Holding(k, Registry!Without(index, {e.case}), {})
      <3>1. mem'[k] = Registry!Without(index, {e.case}) /\ op' = op
        BY <1>0, <2>2 DEF Holding
      <3> QED BY <1>0, <1>2, <2>2, <3>1 DEF Registry!Without
    <2> QED BY <1>2, <2>0, <2>1, <2>2, <1>r DEF Decide
  <1>3. CASE e.kind = "prune"
    <2>0. e \notin Registry!RowEdits
      BY <1>3 DEF Registry!RowEdits
    <2>1. PICK K \in Registry!NewestSets(index, o, e.keep) :
             LET gone == {c \in Registry!Prunable(index, o, K, e.cutoff) :
                             ~index[c].remote}
                 dirty == IF e.files THEN gone \cap dirs ELSE {} IN
             Holding(k, Registry!Without(index, gone \ dirty), dirty)
      BY <1>3, <2>0 DEF Decide
    <2> DEFINE gone == {c \in Registry!Prunable(index, o, K, e.cutoff) :
                           ~index[c].remote}
               dirty == IF e.files THEN gone \cap dirs ELSE {}
    <2>2. /\ op' = op /\ victims'[k] = dirty
          /\ mem'[k] = Registry!Without(index, gone \ dirty)
      BY <1>0, <2>1 DEF Holding
    <2>3. K \subseteq Cases /\ gone \cap K = {}
      BY DEF Registry!NewestSets, Registry!Prunable, Registry!Scope
    <2> HIDE DEF gone
    <2>4. \A c \in K : mem'[k][c] = index[c] /\ c \notin victims'[k]
      BY <2>2, <2>3 DEF Registry!Without
    <2>5. e.files => \A c \in dirs : index[c] # NoRow => mem'[k][c] # NoRow
      BY <1>0, <2>2 DEF Registry!Without
    <2> QED BY <2>2, <2>4, <2>5
  <1>4. CASE e.kind = "list"
    <2>1. e \notin Registry!RowEdits
      BY <1>4 DEF Registry!RowEdits
    <2> QED BY <1>4, <1>r, <2>1 DEF Decide
  <1> QED BY <1>1, <1>2, <1>3, <1>4 DEF Decide

\* No caller touches what another works on, nor the file without its lock.
LEMMA CallersKeepApart ==
  ASSUME WritersInv, NEW k \in Callers,
         \/ Call(k) \/ LockProcess(k) \/ LockFile(k)
         \/ Read(k) \/ RemoveFiles(k) \/ Write(k)
  PROVE  /\ OnlyMoves(k)
         /\ dirs' \subseteq dirs \cup {c \in Cases : Content(file)[c] = NoRow}
  <1> USE IndexAssumption DEF callVars, lockVars
  <1>0. TypeOK /\ ExcludedAt(k)
    BY DEF WritersInv, Excluded
  <1>1. CASE Call(k)
    <2>1. PICK e \in Requests :
             /\ op' = [op EXCEPT ![k] = e]
             /\ e.kind = "register" => Fresh(e.case)
             /\ dirs' = IF e.kind = "register" THEN dirs \cup {e.case} ELSE dirs
      BY <1>1 DEF Call
    <2>2. e.kind = "register" => e.case \in Cases
      BY RequestsAssumption
      DEF Operations, Registry!RowEdits, Registry!Deletes, Registry!Prunes,
          Archives, Reads
    <2> QED BY <1>0, <1>1, <2>1, <2>2 DEF Call, OnlyMoves, TypeOK, Fresh
  <1>2. CASE LockProcess(k) \/ LockFile(k)
    BY <1>0, <1>2
    DEF LockProcess, LockFile, Return, OnlyMoves, TypeOK
  <1>3. CASE Read(k)
    <2>1. fileLock = k /\ procLock[ProcOf[k]] = k
      BY <1>0, <1>3 DEF Read, ExcludedAt
    <2>2. CASE \E index \in Registry!Index : Decide(k, index)
      <3>1. PICK index \in Registry!Index : Decide(k, index)
        BY <2>2
      <3>2. Decided(k, index)
        BY <1>0, <3>1, DecideDecides
      <3> QED
        BY <1>0, <1>3, <2>1, <3>2
        DEF Decided, Return, Forgetting, Goto, Holding, OnlyMoves, TypeOK, Read
    <2>3. CASE \E answer : Return(k, answer) /\ Forgetting(k)
      BY <1>0, <1>3, <2>1, <2>3 DEF Return, Forgetting, OnlyMoves, TypeOK, Read
    <2>4. Content(file) \in Registry!Index /\ Registry!Empty \in Registry!Index
      BY <1>0, ContentType DEF TypeOK, Registry!Empty, Registry!Index
    <2> QED BY <1>3, <2>2, <2>3, <2>4 DEF Read
  <1>4. CASE RemoveFiles(k)
    <2>1. fileLock = k /\ procLock[ProcOf[k]] = k
      BY <1>0, <1>4 DEF RemoveFiles, ExcludedAt
    <2>2. /\ \/ \E answer : Return(k, answer) /\ Forgetting(k)
             \/ \E next, m, rest : Goto(k, next) /\ Holding(k, m, rest)
          /\ dirs' \subseteq dirs /\ UNCHANGED file
      BY <1>4 DEF RemoveFiles
    <2> QED
      BY <1>0, <2>1, <2>2
      DEF Return, Forgetting, Goto, Holding, OnlyMoves, TypeOK
  <1>5. CASE Write(k)
    <2>1. fileLock = k /\ procLock[ProcOf[k]] = k
      BY <1>0, <1>5 DEF Write, ExcludedAt
    <2> QED
      BY <1>0, <1>5, <2>1 DEF Write, Return, Forgetting, OnlyMoves, TypeOK
  <1> QED BY <1>1, <1>2, <1>3, <1>4, <1>5

\* No file has been damaged, and nobody works.
LEMMA CareInit == Init => CareInv
  BY IndexAssumption
  DEF Init, CareInv, Quarantined, DamageIsKept, CarefulAt

\* A read sets a damaged file aside under a free name; nothing else moves
\* the files set aside, and no caller writes over a damaged index.
LEMMA QuarantineNext ==
  WritersInv /\ CareInv /\ [Next]_vars => (Quarantined /\ DamageIsKept)'
  <1> SUFFICES ASSUME WritersInv, CareInv, [Next]_vars
               PROVE  (Quarantined /\ DamageIsKept)'
    OBVIOUS
  <1> USE IndexAssumption DEF callVars, lockVars
  <1>0. TypeOK /\ Quarantined /\ DamageIsKept
    BY DEF WritersInv, CareInv
  <1>1. CASE UNCHANGED <<file, broken, damage>>
    BY <1>0, <1>1 DEF Quarantined, DamageIsKept
  <1>2. ASSUME NEW k \in Callers, Read(k), file \in Damages, file' = Absent,
               broken' = [broken EXCEPT ![NextBroken] = file]
        PROVE  (Quarantined /\ DamageIsKept)'
    <2> DEFINE n == NextBroken
    <2>1. n \in Names /\ broken[n] = NoDamage
      BY <1>0, <1>2, FreeName
    <2> HIDE DEF n
    <2>2. /\ damage' = damage /\ file \in damage /\ Absent \notin damage
          /\ broken'[n] = file
          /\ \A i \in Names \ {n} : broken'[i] = broken[i]
      BY <1>0, <1>2, <2>1 DEF Read, Quarantined, TypeOK, n
    <2>3. Quarantined'
      BY <1>0, <1>2, <2>1, <2>2 DEF Quarantined
    <2>4. DamageIsKept'
      <3> SUFFICES ASSUME NEW d \in damage
                   PROVE  \E i \in Names : broken'[i] = d
        BY <2>2 DEF DamageIsKept
      <3>1. CASE file = d
        BY <2>1, <2>2, <3>1
      <3>2. CASE file # d
        <4>1. PICK i \in Names : broken[i] = d
          BY <1>0, <3>2 DEF DamageIsKept
        <4>2. i # n
          BY <1>0, <2>1, <4>1 DEF TypeOK
        <4> QED BY <2>2, <4>1, <4>2
      <3> QED BY <3>1, <3>2
    <2> QED BY <2>3, <2>4
  <1>3. ASSUME NEW k \in Callers, Write(k) PROVE (Quarantined /\ DamageIsKept)'
    <2>1. file \notin Damages /\ UNCHANGED <<broken, damage>>
      BY <1>3 DEF Write, CareInv, CarefulAt
    <2>2. file' \notin Damages
      BY <1>0, <1>3, <2>1, RowAssumption DEF Write, TypeOK
    <2> QED BY <1>0, <2>1, <2>2 DEF Quarantined, DamageIsKept, TypeOK
  <1>4. CASE Damage
    <2>1. PICK n \in Damages \ damage : file' = n /\ damage' = damage \cup {n}
      BY <1>4 DEF Damage
    <2>2. UNCHANGED broken /\ file \notin Damages
      BY <1>4 DEF Damage
    <2> QED BY <1>0, <2>1, <2>2 DEF Quarantined, DamageIsKept, TypeOK
  <1> QED
    BY <1>1, <1>2, <1>3, <1>4
    DEF Next, Call, LockProcess, LockFile, Read, RemoveFiles, Crash, Tick, vars

\* A caller past its decision stays careful while others work, and when the
\* process of another dies.
LEMMA CareStays ==
  ASSUME WritersInv, CareInv, NEW s \in Callers,
         pc'[s] = pc[s], op'[s] = op[s], mem'[s] = mem[s],
         victims'[s] = victims[s],
         fileLock = s => UNCHANGED file,
         dirs' \subseteq dirs \cup {c \in Cases : Content(file)[c] = NoRow}
  PROVE  CarefulAt(s)'
  <1> SUFFICES ASSUME pc[s] \in {"files", "write"} PROVE CarefulAt(s)'
    BY DEF CarefulAt
  <1>1. fileLock = s /\ CarefulAt(s)
    BY DEF WritersInv, Excluded, ExcludedAt, CareInv
  <1>2. Content(file)' = Content(file) /\ file' = file
    BY <1>1 DEF Content
  <1>3. Dropping(s)' = Dropping(s)
    BY <1>2 DEF Dropping
  <1>4. Dropping(s) \cap dirs = {} => Dropping(s)' \cap dirs' = {}
    BY <1>3 DEF Dropping
  <1> QED BY <1>1, <1>2, <1>4 DEF CarefulAt

\* No step makes a caller careless.
LEMMA CareNext == WritersInv /\ CareInv /\ [Next]_vars => CareInv'
  <1> SUFFICES ASSUME WritersInv, CareInv, [Next]_vars PROVE CareInv'
    OBVIOUS
  <1> USE IndexAssumption DEF callVars, lockVars
  <1>0. TypeOK /\ (Quarantined /\ DamageIsKept)'
    BY QuarantineNext DEF WritersInv
  <1>s. SUFFICES ASSUME NEW s \in Callers PROVE CarefulAt(s)'
    BY <1>0 DEF CareInv
  \* Steps of the caller itself.
  <1>1. CASE Call(s) \/ LockProcess(s) \/ LockFile(s) \/ Write(s)
    <2>1. pc'[s] \notin {"files", "write"}
      BY <1>0, <1>1
      DEF Call, LockProcess, LockFile, Write, Return, Goto, TypeOK
    <2> QED BY <2>1 DEF CarefulAt
  <1>2. CASE Read(s)
    <2>1. CASE pc'[s] \notin {"files", "write"}
      BY <2>1 DEF CarefulAt
    <2>2. CASE /\ pc'[s] \in {"files", "write"}
               /\ \E index \in Registry!Index :
                     /\ Decide(s, index) /\ Content(file)' = index
                     /\ file' \notin Damages
      <3>1. PICK index \in Registry!Index :
               /\ Decide(s, index) /\ Content(file)' = index
               /\ file' \notin Damages
        BY <2>2
      <3>2. UNCHANGED dirs /\ dirs \subseteq Cases
        BY <1>0, <1>2 DEF Read, TypeOK
      <3> HIDE <1>2
      <3>3. /\ op' = op
            /\ op[s].kind \in {"delete", "prune"} /\ op[s].files =>
                  \A c \in dirs : index[c] # NoRow => mem'[s][c] # NoRow
            /\ op[s].kind = "prune" =>
                  \E K \in Registry!NewestSets(index, OrgOf[s], op[s].keep) :
                     \A c \in K : mem'[s][c] = index[c]
                                  /\ c \notin victims'[s]
        BY <1>0, <2>2, <3>1, DecideCares
      <3> QED BY <3>1, <3>2, <3>3 DEF CarefulAt, Dropping
    <2>3. CASE file \in Damages /\ file' = Absent /\ Decide(s, Registry!Empty)
      <3>1. Content(file)' = Registry!Empty /\ file' \notin Damages
            /\ Registry!Empty \in Registry!Index
        BY <2>3 DEF Content, Registry!Empty, Registry!Index
      <3> QED BY <2>1, <2>2, <2>3, <3>1
    <2>4. CASE file \notin Damages /\ Decide(s, Content(file)) /\ UNCHANGED file
      <3>1. Content(file)' = Content(file) /\ Content(file) \in Registry!Index
        BY <1>0, <2>4, ContentType DEF Content, TypeOK
      <3> QED BY <2>1, <2>2, <2>4, <3>1
    <2>5. CASE \E answer : Return(s, answer)
      <3>1. pc'[s] = "idle"
        BY <1>0, <2>5 DEF Return, TypeOK
      <3> QED BY <2>1, <3>1
    <2> QED BY <1>2, <2>3, <2>4, <2>5 DEF Read
  <1>3. CASE RemoveFiles(s)
    <2>1. CASE \E answer : Return(s, answer)
      <3>1. pc'[s] = "idle"
        BY <1>0, <2>1 DEF Return, TypeOK
      <3> QED BY <3>1 DEF CarefulAt
    <2>2. ASSUME NEW c \in victims[s], UNCHANGED file,
                 \/ /\ dirs' = dirs \ {c}
                    /\ Holding(s, Registry!Without(mem[s], {c}),
                                  victims[s] \ {c})
                 \/ /\ UNCHANGED dirs
                    /\ Holding(s, mem[s], victims[s] \ {c})
          PROVE  CarefulAt(s)'
      <3>1. CarefulAt(s) /\ pc[s] = "files" /\ Content(file)' = Content(file)
        BY <1>3, <2>2 DEF CareInv, RemoveFiles, Content
      <3>2. /\ op' = op /\ victims'[s] = victims[s] \ {c}
            /\ c \in Cases
        BY <1>0, <2>2 DEF Holding, TypeOK
      <3>3. \A d \in Cases \ {c} : mem'[s][d] = mem[s][d]
        BY <1>0, <2>2 DEF Holding, TypeOK, Registry!Without
      <3>4. \/ dirs' = dirs \ {c}
            \/ dirs' = dirs /\ mem'[s] = mem[s]
        BY <1>0, <2>2 DEF Holding, TypeOK
      <3>5. Dropping(s) \cap dirs = {} => Dropping(s)' \cap dirs' = {}
        BY <3>1, <3>3, <3>4 DEF Dropping
      <3>6. \A K \in Registry!NewestSets(Content(file), OrgOf[s], op[s].keep) :
               K \subseteq Cases
        BY DEF Registry!NewestSets, Registry!Scope
      <3>7. op[s].kind = "prune" =>
              \E K \in Registry!NewestSets(Content(file), OrgOf[s],
                                            op[s].keep) :
                 \A d \in K : /\ mem'[s][d] = Content(file)[d]
                              /\ d \notin victims'[s]
        <4> SUFFICES ASSUME op[s].kind = "prune"
                     PROVE  \E K \in Registry!NewestSets(Content(file),
                                          OrgOf[s], op[s].keep) :
                               \A d \in K : /\ mem'[s][d] = Content(file)[d]
                                            /\ d \notin victims'[s]
          OBVIOUS
        <4>1. PICK K \in Registry!NewestSets(Content(file), OrgOf[s],
                                             op[s].keep) :
                 \A d \in K : /\ mem[s][d] = Content(file)[d]
                              /\ d \notin victims[s]
          BY <3>1 DEF CarefulAt
        <4> QED BY <2>2, <3>2, <3>3, <3>6, <4>1
      <3> QED BY <2>2, <3>1, <3>2, <3>5, <3>7 DEF CarefulAt
    <2> QED BY <1>3, <2>1, <2>2 DEF RemoveFiles
  \* Steps of another caller.
  <1>4. ASSUME NEW k \in Callers \ {s},
               \/ Call(k) \/ LockProcess(k) \/ LockFile(k)
               \/ Read(k) \/ RemoveFiles(k) \/ Write(k)
        PROVE  CarefulAt(s)'
    <2>1. /\ OnlyMoves(k)
          /\ dirs' \subseteq dirs \cup {c \in Cases : Content(file)[c] = NoRow}
      BY <1>4, CallersKeepApart
    <2> QED BY <2>1, CareStays DEF OnlyMoves
  \* Steps of nobody.
  <1>5. ASSUME NEW p \in Procs, Crash(p) PROVE CarefulAt(s)'
    <2>1. CASE ProcOf[s] = p
      <3>1. pc'[s] = "idle"
        BY <1>5, <2>1 DEF Crash
      <3> QED BY <3>1 DEF CarefulAt
    <2>2. CASE ProcOf[s] # p
      <3>1. /\ pc'[s] = pc[s] /\ op'[s] = op[s] /\ mem'[s] = mem[s]
            /\ victims'[s] = victims[s] /\ UNCHANGED <<file, dirs>>
        BY <1>5, <2>2 DEF Crash
      <3> QED BY <3>1, CareStays
    <2> QED BY <2>1, <2>2
  <1>6. CASE Damage \/ Tick \/ UNCHANGED vars
    <2>1. /\ UNCHANGED <<pc, op, mem, victims, dirs>>
          /\ fileLock = s => UNCHANGED file
      BY <1>6 DEF Damage, Tick, vars
    <2> QED BY <2>1, CareStays
  <1>7. CASE Next
    BY <1>1, <1>2, <1>3, <1>4, <1>5, <1>6, <1>7 DEF Next
  <1> QED BY <1>6, <1>7

\* No thread, failure, crash or damage loses a damaged index, lets a row go
\* before its files, or makes prune forget which rows are the newest.
THEOREM CareInvariant == Spec => []CareInv
  BY CareInit, CareNext, WritersInvariant, PTL DEF Spec

\* What a caller of the index is about to write is one change of its
\* organization to the rows as they are, made with care, at all times.
THEOREM IndexInvariant == Spec => []IndexInv
  <1>1. WritersInv /\ CareInv => IndexInv
    BY DEF IndexInv
  <1> QED BY <1>1, WritersInvariant, CareInvariant, PTL

\* A damaged index is in its place still or set aside under a name of its
\* own, however many times the file is damaged and whoever reads it.
THEOREM NoDamageIsLost == Spec => []DamageIsKept
  <1>1. CareInv => DamageIsKept
    BY DEF CareInv
  <1> QED BY <1>1, CareInvariant, PTL

\* A row that is dropped with its files has no directory any more.
THEOREM RowsOutliveFiles == Spec => FilesGoFirst
  <1> DEFINE Step == \A k \in Callers, c \in Cases :
         /\ Write(k) /\ op[k].kind \in {"delete", "prune"} /\ op[k].files
         /\ Content(file)[c] # NoRow /\ Content(file)'[c] = NoRow
         => c \notin dirs
  <1>1. WritersInv /\ CareInv => Step
    <2> SUFFICES ASSUME WritersInv, CareInv, NEW k \in Callers, NEW c \in Cases,
                        Write(k), op[k].kind \in {"delete", "prune"},
                        op[k].files,
                        Content(file)[c] # NoRow, Content(file)'[c] = NoRow
                 PROVE  c \notin dirs
      OBVIOUS
    <2>1. pc[k] = "write" /\ CarefulAt(k) /\ mem[k] \in Registry!Index
      BY DEF Write, WritersInv, TypeOK, CareInv
    <2>2. file' = mem[k]
      <3>1. CASE UNCHANGED file
        BY <3>1 DEF Content
      <3> QED BY <3>1 DEF Write
    <2>3. Content(file)' = mem[k]
      BY <2>1, <2>2, RowAssumption DEF Content
    <2>4. c \in Dropping(k)
      BY <2>3 DEF Dropping
    <2> QED BY <2>1, <2>4 DEF CarefulAt
  <1>2. WritersInv /\ CareInv /\ [Next]_vars => [Step]_vars
    BY <1>1
  <1> QED
    BY <1>2, WritersInvariant, CareInvariant, PTL DEF Spec, FilesGoFirst

\* A prune leaves a newest set of keep_last rows of its organization, as the
\* rows are when it writes, untouched.
THEOREM PruneSparesNewest == Spec => PruneKeepsNewest
  <1> DEFINE Step == \A k \in Callers :
         Write(k) /\ op[k].kind = "prune" =>
           \E K \in Registry!NewestSets(Content(file), OrgOf[k], op[k].keep) :
              \A c \in K : Content(file)'[c] = Content(file)[c]
  <1>1. WritersInv /\ CareInv => Step
    <2> SUFFICES ASSUME WritersInv, CareInv, NEW k \in Callers,
                        Write(k), op[k].kind = "prune"
                 PROVE  \E K \in Registry!NewestSets(Content(file), OrgOf[k],
                                                     op[k].keep) :
                           \A c \in K : Content(file)'[c] = Content(file)[c]
      OBVIOUS
    <2>1. pc[k] = "write" /\ CarefulAt(k) /\ mem[k] \in Registry!Index
      BY DEF Write, WritersInv, TypeOK, CareInv
    <2>2. PICK K \in Registry!NewestSets(Content(file), OrgOf[k], op[k].keep) :
             \A c \in K : mem[k][c] = Content(file)[c]
      BY <2>1 DEF CarefulAt
    <2>3. Content(file)' = mem[k] \/ Content(file)' = Content(file)
      BY <2>1, RowAssumption DEF Write, Content
    <2> QED BY <2>2, <2>3
  <1>2. WritersInv /\ CareInv /\ [Next]_vars => [Step]_vars
    BY <1>1
  <1> QED
    BY <1>2, WritersInvariant, CareInvariant, PTL DEF Spec, PruneKeepsNewest
=============================================================================
