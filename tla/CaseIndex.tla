------------------------------ MODULE CaseIndex ------------------------------
(***************************************************************************)
(* The case index of api/services/case_history.py as it is kept: one JSON  *)
(* file shared by the threads of several processes.  Every public method   *)
(* takes a lock of its process and then an advisory lock on a file beside  *)
(* the index (case_history_concurrency.py), reads the whole file, sets a   *)
(* corrupt one aside (case_history_integrity.py), changes the rows in      *)
(* memory, removes work directories where the operation asks for it, and   *)
(* replaces the file.  Any step may fail, and a process may die between    *)
(* any two.                                                                *)
(***************************************************************************)
EXTENDS Integers, FiniteSets

CONSTANTS
    Cases, Orgs, NoCase, NoRow, Statuses, MaxTime,  \* as in CaseRegistry
    Callers,      \* threads that call the service
    Procs,        \* processes
    ProcOf,       \* the process of a caller
    OrgOf,        \* the organization a caller acts for
    NoCaller,     \* owner of a free lock
    Requests,     \* the operations callers ask for
    Absent,       \* there is no index file
    Faults,       \* kinds of failure that may happen
    Damages,      \* damaged contents the file may be given, each once
    NoDamage      \* no file of that name

ASSUME IndexAssumption ==
    /\ ProcOf \in [Callers -> Procs]
    /\ OrgOf \in [Callers -> Orgs]
    /\ NoCaller \notin Callers
    /\ Faults \subseteq {"lock", "io", "fs", "crash"}
    /\ IsFiniteSet(Damages)
    /\ NoDamage \notin Damages
    /\ Absent \notin Damages
    /\ "new" \in Statuses
    /\ MaxTime \in Nat
    /\ IsFiniteSet(Cases)
    /\ NoCase \notin Cases

VARIABLES
    file,       \* the index file: Absent, damaged, or an Index
    broken,     \* the files set aside, by the number in their name
    dirs,       \* cases whose work_dir exists
    damage,     \* the damages that have happened
    procLock,   \* holder of each process's lock on the index
    fileLock,   \* holder of the lock on <index>.lock
    pc, op,     \* where each caller is, and what it asked for
    mem,        \* the rows in a caller's memory
    victims,    \* cases whose directory a caller still has to remove
    reply,      \* how a caller's last operation ended
    clock

lockVars == <<procLock, fileLock>>
callVars == <<op, mem, victims>>
vars == <<file, broken, dirs, damage, lockVars, pc, callVars, reply, clock>>

\* The rows a reader of the file finds.
Content(f) == IF f = Absent \/ f \in Damages THEN [c \in Cases |-> NoRow]
                                             ELSE f

Registry == INSTANCE CaseRegistry WITH rows <- Content(file)

Names == 1..Cardinality(Damages)

Archives   == [kind : {"archive"}, case : Cases]
Reads      == [kind : {"list"}]
Operations == Registry!RowEdits \cup Registry!Deletes \cup Registry!Prunes
                \cup Archives \cup Reads
Labels  == {"idle", "process_lock", "file_lock", "read", "files", "write"}
Replies == {"none", "ok", "not_found", "blocked", "files_kept",
            "lock_error", "corrupt_error"}

NoOp    == [kind |-> "list"]

ASSUME RowAssumption ==
    /\ NoRow \notin Registry!Rows
    /\ \A f \in Damages \cup {Absent} : f \notin Registry!Index

ASSUME RequestsAssumption == Requests \subseteq Operations

TypeOK ==
    /\ file = Absent \/ file \in Damages \/ file \in Registry!Index
    /\ broken \in [Names -> Damages \cup {NoDamage}]
    /\ dirs \subseteq Cases
    /\ damage \subseteq Damages
    /\ procLock \in [Procs -> Callers \cup {NoCaller}]
    /\ fileLock \in Callers \cup {NoCaller}
    /\ pc \in [Callers -> Labels]
    /\ op \in [Callers -> Operations]
    /\ mem \in [Callers -> Registry!Index]
    /\ victims \in [Callers -> SUBSET Cases]
    /\ reply \in [Callers -> Replies]
    /\ clock \in Registry!Times

Init ==
    /\ file = Absent
    /\ broken = [n \in Names |-> NoDamage]
    /\ dirs = {}
    /\ damage = {}
    /\ procLock = [p \in Procs |-> NoCaller]
    /\ fileLock = NoCaller
    /\ pc = [k \in Callers |-> "idle"]
    /\ op = [k \in Callers |-> NoOp]
    /\ mem = [k \in Callers |-> Registry!Empty]
    /\ victims = [k \in Callers |-> {}]
    /\ reply = [k \in Callers |-> "none"]
    /\ clock = 0

-----------------------------------------------------------------------------
Goto(k, label) ==
    /\ pc' = [pc EXCEPT ![k] = label]
    /\ UNCHANGED <<lockVars, reply>>

\* The method returns or raises: both locks are released.
Return(k, answer) ==
    /\ pc' = [pc EXCEPT ![k] = "idle"]
    /\ reply' = [reply EXCEPT ![k] = answer]
    /\ procLock' = [procLock EXCEPT ![ProcOf[k]] =
                       IF @ = k THEN NoCaller ELSE @]
    /\ fileLock' = IF fileLock = k THEN NoCaller ELSE fileLock

\* The rows and the directories caller k goes on with.
Holding(k, index, cases) ==
    /\ mem' = [mem EXCEPT ![k] = index]
    /\ victims' = [victims EXCEPT ![k] = cases]
    /\ UNCHANGED op

Forgetting(k) ==
    /\ op' = [op EXCEPT ![k] = NoOp]
    /\ mem' = [mem EXCEPT ![k] = Registry!Empty]
    /\ victims' = [victims EXCEPT ![k] = {}]

\* No row has the case's id, and nobody is about to register it.
Fresh(c) ==
    /\ Content(file)[c] = NoRow
    /\ \A k \in Callers : op[k].kind = "register" => op[k].case # c

\* A method is called; an analysis registers the directory it has made,
\* under an id of its own.
Call(k) ==
    /\ pc[k] = "idle"
    /\ \E e \in Requests :
          /\ op' = [op EXCEPT ![k] = e]
          /\ e.kind = "register" => Fresh(e.case)
          /\ dirs' = IF e.kind = "register" THEN dirs \cup {e.case} ELSE dirs
    /\ pc' = [pc EXCEPT ![k] = "process_lock"]
    /\ reply' = [reply EXCEPT ![k] = "none"]
    /\ UNCHANGED <<file, broken, damage, lockVars, mem, victims, clock>>

LockProcess(k) ==
    /\ pc[k] = "process_lock"
    /\ procLock[ProcOf[k]] = NoCaller
    /\ procLock' = [procLock EXCEPT ![ProcOf[k]] = k]
    /\ pc' = [pc EXCEPT ![k] = "file_lock"]
    /\ UNCHANGED <<file, broken, dirs, damage, fileLock, callVars, reply,
                   clock>>

\* Mutant of LockFile: the processes do not share a lock.
LockFileNot(k) ==
    /\ pc[k] = "file_lock"
    /\ Goto(k, "read")
    /\ UNCHANGED <<file, broken, dirs, damage, callVars, clock>>

LockFile(k) ==
    /\ pc[k] = "file_lock"
    /\ \/ /\ fileLock = NoCaller
          /\ fileLock' = k
          /\ pc' = [pc EXCEPT ![k] = "read"]
          /\ UNCHANGED <<procLock, reply>>
       \/ /\ "lock" \in Faults
          /\ Return(k, "lock_error")
    /\ UNCHANGED <<file, broken, dirs, damage, callVars, clock>>

\* Mutant of NextBroken: the name is always .broken
NextBrokenFixed == 1

\* The first free name among .broken, .broken.2, ...
NextBroken == CHOOSE n \in Names :
                 /\ broken[n] = NoDamage
                 /\ \A i \in 1..(n - 1) : broken[i] # NoDamage

\* The rows have been read: what the method decides about them.
Decide(k, index) ==
    LET e == op[k]
        o == OrgOf[k] IN
    \/ /\ e.kind = "list"
       /\ Return(k, "ok") /\ Forgetting(k)
    \/ /\ e \in Registry!RowEdits
       /\ IF Registry!Applicable(e, o, index)
          THEN /\ Goto(k, "write")
               /\ Holding(k, Registry!Edited(e, o, index, clock), {})
          ELSE Return(k, "not_found") /\ Forgetting(k)
    \/ /\ e.kind \in {"delete", "archive"}
       /\ IF ~Registry!InScope(index, o, e.case)
          THEN Return(k, "not_found") /\ Forgetting(k)
          ELSE IF index[e.case].remote = (e.kind = "delete")
          THEN Return(k, "blocked") /\ Forgetting(k)
          ELSE IF e.kind = "archive"
          THEN \/ /\ e.case \in dirs
                  /\ Goto(k, "files") /\ Holding(k, index, {e.case})
               \/ Return(k, "blocked") /\ Forgetting(k)
          ELSE IF e.files /\ e.case \in dirs
          THEN Goto(k, "files") /\ Holding(k, index, {e.case})
          ELSE /\ Goto(k, "write")
               /\ Holding(k, Registry!Without(index, {e.case}), {})
    \/ /\ e.kind = "prune"
       /\ \E K \in Registry!NewestSets(index, o, e.keep) :
             LET gone == {c \in Registry!Prunable(index, o, K, e.cutoff) :
                             ~index[c].remote}
                 dirty == IF e.files THEN gone \cap dirs ELSE {} IN
             /\ Goto(k, IF dirty = {} THEN "write" ELSE "files")
             /\ Holding(k, Registry!Without(index, gone \ dirty), dirty)

\* read_index_fail_closed: a missing file is an empty index, a corrupt one
\* is renamed away before the operation goes on with an empty index.
Read(k) ==
    /\ pc[k] = "read"
    /\ \/ /\ file \in Damages
          /\ broken' = [broken EXCEPT ![NextBroken] = file]
          /\ file' = Absent
          /\ Decide(k, Registry!Empty)
       \/ /\ file \notin Damages
          /\ Decide(k, Content(file))
          /\ UNCHANGED <<file, broken>>
       \/ /\ "io" \in Faults
          /\ Return(k, IF file \in Damages THEN "corrupt_error"
                                           ELSE "lock_error")
          /\ Forgetting(k)
          /\ UNCHANGED <<file, broken>>
    /\ UNCHANGED <<dirs, damage, clock>>

\* Mutant of RemoveFiles: a failed removal is not held against the row.
RemoveFilesCareless(k) ==
    /\ pc[k] = "files"
    /\ \E c \in victims[k] :
          LET rest == victims[k] \ {c}
              next == IF rest = {} THEN "write" ELSE "files" IN
          /\ Holding(k, Registry!Without(mem[k], {c}), rest)
          /\ Goto(k, next)
          /\ dirs' \in {dirs, dirs \ {c}}
    /\ UNCHANGED <<file, broken, damage, clock>>

\* _remove_case_files of one case; archive writes no row.
RemoveFiles(k) ==
    /\ pc[k] = "files"
    /\ \E c \in victims[k] :
          LET rest == victims[k] \ {c}
              next == IF rest = {} THEN "write" ELSE "files" IN
          \/ /\ dirs' = dirs \ {c}
             /\ IF op[k].kind = "archive"
                THEN Return(k, "ok") /\ Forgetting(k)
                ELSE /\ Goto(k, next)
                     /\ Holding(k, Registry!Without(mem[k], {c}), rest)
          \/ /\ "fs" \in Faults
             /\ UNCHANGED dirs
             /\ IF op[k].kind = "prune"
                THEN Goto(k, next) /\ Holding(k, mem[k], rest)
                ELSE Return(k, "files_kept") /\ Forgetting(k)
    /\ UNCHANGED <<file, broken, damage, clock>>

\* Mutant of Write: the index is written in place, and a failure leaves it
\* without its rows.
WriteInPlace(k) ==
    /\ pc[k] = "write"
    /\ \/ file' = mem[k] /\ Return(k, "ok")
       \/ "io" \in Faults /\ file' = <<>> /\ Return(k, "lock_error")
    /\ Forgetting(k)
    /\ UNCHANGED <<broken, dirs, damage, clock>>

\* _write_index: a temporary file, then os.replace.  An OSError anywhere
\* under the lock leaves _platform_file_lock as a CaseHistoryLockError.
Write(k) ==
    /\ pc[k] = "write"
    /\ \/ file' = mem[k] /\ Return(k, "ok")
       \/ "io" \in Faults /\ UNCHANGED file /\ Return(k, "lock_error")
    /\ Forgetting(k)
    /\ UNCHANGED <<broken, dirs, damage, clock>>

-----------------------------------------------------------------------------
\* A process dies: its threads are gone and the system drops its locks.
Crash(p) ==
    /\ "crash" \in Faults
    /\ LET dead == {k \in Callers : ProcOf[k] = p} IN
       /\ pc' = [k \in Callers |-> IF k \in dead THEN "idle" ELSE pc[k]]
       /\ op' = [k \in Callers |-> IF k \in dead THEN NoOp ELSE op[k]]
       /\ mem' = [k \in Callers |-> IF k \in dead THEN Registry!Empty
                                                  ELSE mem[k]]
       /\ victims' = [k \in Callers |-> IF k \in dead THEN {} ELSE victims[k]]
       /\ reply' = [k \in Callers |-> IF k \in dead THEN "none" ELSE reply[k]]
       /\ fileLock' = IF fileLock \in dead THEN NoCaller ELSE fileLock
       /\ procLock' = [procLock EXCEPT ![p] = NoCaller]
    /\ UNCHANGED <<file, broken, dirs, damage, clock>>

\* Somebody edits or truncates the file while no operation holds its lock.
Damage ==
    /\ fileLock = NoCaller
    /\ file \notin Damages
    /\ \E n \in Damages \ damage : file' = n /\ damage' = damage \cup {n}
    /\ UNCHANGED <<broken, dirs, lockVars, pc, callVars, reply, clock>>

Tick ==
    /\ clock < MaxTime
    /\ clock' = clock + 1
    /\ UNCHANGED <<file, broken, dirs, damage, lockVars, pc, callVars, reply>>

Next ==
    \/ \E k \in Callers : \/ Call(k) \/ LockProcess(k) \/ LockFile(k)
                          \/ Read(k) \/ RemoveFiles(k) \/ Write(k)
    \/ \E p \in Procs : Crash(p)
    \/ Damage
    \/ Tick

Spec == Init /\ [][Next]_vars

-----------------------------------------------------------------------------
\* The file, its locks and its replacement implement the registry: every
\* change of the rows is one operation of one organization, applied to the
\* rows as they are at that moment; no failure or crash shows a partial one.
ImplementsRegistry == Registry!Spec

\* A row that delete or prune drops with remove_files has no directory any
\* more: a case whose files could not be removed stays in the index.
FilesGoFirst ==
    [][\A k \in Callers, c \in Cases :
         /\ Write(k) /\ op[k].kind \in {"delete", "prune"} /\ op[k].files
         /\ Content(file)[c] # NoRow /\ Content(file)'[c] = NoRow
         => c \notin dirs]_vars

\* prune_cases leaves the keep_last rows of the organization that were
\* updated last as they are, whoever else is working on the index.
PruneKeepsNewest ==
    [][\A k \in Callers :
         Write(k) /\ op[k].kind = "prune" =>
           \E K \in Registry!NewestSets(Content(file), OrgOf[k], op[k].keep) :
              \A c \in K : Content(file)'[c] = Content(file)[c]]_vars

\* No damaged index is thrown away: it is the index file still, or it is one
\* of the files set aside, each under a name of its own.
DamageIsKept ==
    \A n \in damage : file = n \/ \E i \in Names : broken[i] = n

\* A caller works on the index only under both locks.
ExcludedAt(k) ==
    /\ pc[k] \in {"read", "files", "write"} => fileLock = k
    /\ pc[k] \in {"file_lock", "read", "files", "write"}
          => procLock[ProcOf[k]] = k
Excluded == \A k \in Callers : ExcludedAt(k)

\* What a caller is about to write is one change of its organization, made
\* to the rows as they still are in the file.
PendingAt(k) ==
    /\ pc[k] = "write" => Registry!Change(OrgOf[k], Content(file), mem[k])
    /\ pc[k] = "files"
         => /\ Registry!Drop(OrgOf[k], Content(file), mem[k])
            /\ \A c \in victims[k] :
                  /\ Registry!InScope(Content(file), OrgOf[k], c)
                  /\ op[k].kind # "archive" => ~Content(file)[c].remote
Pending == \A k \in Callers : PendingAt(k)

WritersInv == TypeOK /\ Excluded /\ Pending

\* A file set aside is a damage that is no longer in the index file, and no
\* two of them are the same; the index file itself may still be damaged.
Quarantined ==
    /\ file \in Damages => file \in damage
    /\ \A i \in Names : broken[i] \in (damage \ {file}) \cup {NoDamage}
    /\ \A i, j \in Names :
          i # j /\ broken[i] = broken[j] => broken[i] = NoDamage

\* The rows caller k is about to drop with their files.
Dropping(k) == {c \in Cases : Content(file)[c] # NoRow /\ mem[k][c] = NoRow}

\* Past the decision the file is not a damaged one; a row that goes with its
\* files has no directory; a newest set of the rows stays as it is.
CarefulAt(k) ==
    pc[k] \in {"files", "write"} =>
      /\ file \notin Damages
      /\ op[k].kind \in {"delete", "prune"} /\ op[k].files
            => Dropping(k) \cap dirs = {}
      /\ op[k].kind = "prune" =>
            \E K \in Registry!NewestSets(Content(file), OrgOf[k], op[k].keep) :
               \A c \in K : /\ mem[k][c] = Content(file)[c]
                            /\ c \notin victims[k]

\* What the three promises above rest on: the damaged files are told apart,
\* and a caller that is about to write has kept what it may not drop.
CareInv == Quarantined /\ DamageIsKept /\ \A k \in Callers : CarefulAt(k)

\* The state is well formed, the locks exclude, what is about to be written is
\* one change of the rows as they are, and it is made with care.
IndexInv == WritersInv /\ CareInv
=============================================================================
