----------------------------- MODULE CaseLockPool -----------------------------
(***************************************************************************)
(* Who waits for whom in api/routers/cases.py.  The server has one event   *)
(* loop and one pool of worker threads.  A plain endpoint (GET /cases/{id})*)
(* runs on a worker.  A synchronous endpoint under                         *)
(* _object_storage_operation_locked takes the lock of its case on its      *)
(* worker and keeps both until it returns.  reanalyze is a coroutine: it   *)
(* borrows a worker to wait for the lock, gives it back, and asks for one  *)
(* again for materialize_temporary_case and cleanup_temporary_case while   *)
(* it holds the lock.  Workers are handed out first come, first served.    *)
(***************************************************************************)
EXTENDS Integers, Sequences, FiniteSets

CONSTANTS
    Requests,   \* clients; each sends one request at a time
    Locked,     \* those that call a synchronous endpoint under the case lock
    Reanalyses, \* those that call reanalyze
    Cases,
    CaseOf,     \* the case a request is about
    NoOne,      \* owner of a free lock
    Threads     \* size of the worker pool

Lockers == Locked \cup Reanalyses
Plain   == Requests \ Lockers

ASSUME PoolAssumption ==
    /\ IsFiniteSet(Requests)
    /\ Locked \subseteq Requests
    /\ Reanalyses \subseteq Requests
    /\ Locked \cap Reanalyses = {}
    /\ CaseOf \in [Requests -> Cases]
    /\ NoOne \notin Requests
    /\ Threads \in Nat \ {0}

VARIABLES
    pc,         \* where each request is
    queue,      \* requests waiting for a worker, oldest first
    workers,    \* requests that have a worker
    lock        \* the request that holds a case's lock

vars == <<pc, queue, workers, lock>>

OnLoop   == {"check", "analyse"}
OnWorker == {"acquire", "work", "read", "materialize", "cleanup"}

\* Steps taken while the lock of the case is held.
UnderLock == {"check", "analyse", "work", "materialize", "cleanup"}

Init ==
    /\ pc = [r \in Requests |-> "idle"]
    /\ queue = <<>>
    /\ workers = {}
    /\ lock = [c \in Cases |-> NoOne]

Goto(r, label) == pc' = [pc EXCEPT ![r] = label]

\* await run_in_threadpool(...), or the call of a synchronous endpoint.
AskForWorker(r) == queue' = Append(queue, r) /\ UNCHANGED workers
ReturnWorker(r) == workers' = workers \ {r} /\ UNCHANGED queue

Unlock(r) == lock' = [lock EXCEPT ![CaseOf[r]] = NoOne]

Arrive(r) ==
    /\ pc[r] = "idle"
    /\ Goto(r, IF r \in Plain THEN "read" ELSE "acquire")
    /\ AskForWorker(r)
    /\ UNCHANGED lock

\* The pool gives a free worker to the request that has waited longest.
Grant ==
    /\ queue # <<>>
    /\ Cardinality(workers) < Threads
    /\ workers' = workers \cup {Head(queue)}
    /\ queue' = Tail(queue)
    /\ UNCHANGED <<pc, lock>>

\* get_case, get_case_report: no case lock.
Read(r) ==
    /\ pc[r] = "read" /\ r \in workers
    /\ Goto(r, "idle")
    /\ ReturnWorker(r)
    /\ UNCHANGED lock

\* lock.acquire on a worker, in both branches of the decorator.
Acquire(r) ==
    /\ pc[r] = "acquire" /\ r \in workers
    /\ lock[CaseOf[r]] = NoOne
    /\ lock' = [lock EXCEPT ![CaseOf[r]] = r]
    /\ IF r \in Locked
       THEN Goto(r, "work") /\ UNCHANGED <<queue, workers>>
       ELSE Goto(r, "check") /\ ReturnWorker(r)

\* Mutant of Work: an endpoint that raises does not release the lock.
WorkKeepsLock(r) ==
    /\ pc[r] = "work" /\ r \in workers
    /\ Goto(r, "idle")
    /\ ReturnWorker(r)
    /\ UNCHANGED lock \/ Unlock(r)

\* A synchronous endpoint returns or raises.
Work(r) ==
    /\ pc[r] = "work" /\ r \in workers
    /\ Goto(r, "idle")
    /\ ReturnWorker(r)
    /\ Unlock(r)

\* reanalyze refuses (403, 404, 409), or goes on to materialize.
Check(r) ==
    /\ pc[r] = "check"
    /\ \/ Goto(r, "idle") /\ Unlock(r) /\ UNCHANGED <<queue, workers>>
       \/ Goto(r, "materialize") /\ AskForWorker(r) /\ UNCHANGED lock

\* Mutant of Materialize: a failed download keeps its worker.
MaterializeKeepsWorker(r) ==
    /\ pc[r] = "materialize" /\ r \in workers
    /\ \/ Goto(r, "idle") /\ Unlock(r) /\ UNCHANGED <<queue, workers>>
       \/ Goto(r, "analyse") /\ ReturnWorker(r) /\ UNCHANGED lock

\* Mutant of Materialize: it takes the case lock again.
MaterializeLocks(r) ==
    /\ pc[r] = "materialize" /\ r \in workers
    /\ lock[CaseOf[r]] = NoOne
    /\ \/ Goto(r, "idle") /\ Unlock(r)
       \/ Goto(r, "analyse") /\ UNCHANGED lock
    /\ ReturnWorker(r)

\* After a failure there is no temporary directory to clean up.
Materialize(r) ==
    /\ pc[r] = "materialize" /\ r \in workers
    /\ \/ Goto(r, "idle") /\ Unlock(r)
       \/ Goto(r, "analyse") /\ UNCHANGED lock
    /\ ReturnWorker(r)

\* The analysis on the event loop, whatever its outcome.
Analyse(r) ==
    /\ pc[r] = "analyse"
    /\ Goto(r, "cleanup")
    /\ AskForWorker(r)
    /\ UNCHANGED lock

\* cleanup_temporary_case, then the decorator's finally.
Cleanup(r) ==
    /\ pc[r] = "cleanup" /\ r \in workers
    /\ Goto(r, "idle")
    /\ ReturnWorker(r)
    /\ Unlock(r)

Step(r) == \/ Read(r) \/ Acquire(r) \/ Work(r) \/ Check(r)
           \/ Materialize(r) \/ Analyse(r) \/ Cleanup(r)

Next == Grant \/ \E r \in Requests : Arrive(r) \/ Step(r)

Spec == Init /\ [][Next]_vars

\* The pool hands out workers, and a request that can go on does.
FairSpec == Spec /\ WF_vars(Grant) /\ \A r \in Requests : WF_vars(Step(r))

-----------------------------------------------------------------------------
TypeOK ==
    /\ pc \in [Requests -> {"idle"} \cup OnLoop \cup OnWorker]
    /\ queue \in Seq(Requests)
    /\ workers \subseteq Requests
    /\ lock \in [Cases -> Requests \cup {NoOne}]

Queued(r) == \E i \in 1..Len(queue) : queue[i] = r

\* A request is waiting for a worker or has one exactly while it is at a step
\* that runs on one, and it waits in one place.
WorkersMatch ==
    /\ \A r \in Requests :
          /\ pc[r] \in OnWorker <=> (Queued(r) \/ r \in workers)
          /\ ~(Queued(r) /\ r \in workers)
          /\ pc[r] = "work" => r \in workers
    /\ \A i, j \in 1..Len(queue) : queue[i] = queue[j] => i = j

\* The lock of a case is held by a request that is at a step under it, and
\* by nobody once that request is answered, on every path out of the
\* decorated endpoint.
LocksMatch ==
    /\ \A c \in Cases : lock[c] # NoOne =>
          CaseOf[lock[c]] = c /\ pc[lock[c]] \in UnderLock
    /\ \A r \in Requests : pc[r] \in UnderLock => lock[CaseOf[r]] = r
    /\ \A r \in Requests : pc[r] \in UnderLock \cup {"acquire"}
                              => r \in Lockers

PoolInv == TypeOK /\ WorkersMatch /\ LocksMatch

\* A request that can take its next step now.
CanStep(r) ==
    \/ pc[r] \in OnLoop
    \/ r \in workers /\ pc[r] # "acquire"
    \/ r \in workers /\ lock[CaseOf[r]] = NoOne

\* While requests are in progress, one of them can go on or the pool has a
\* worker for one: they never all wait for one another.
NobodyIsStuck ==
    (\E r \in Requests : pc[r] # "idle") =>
        \/ \E r \in Requests : CanStep(r)
        \/ queue # <<>> /\ Cardinality(workers) < Threads

\* A request that holds the lock of its case is answered, and an endpoint that
\* takes no case lock is, whatever the locked ones are doing: neither starves
\* behind the requests that wait for a lock with a worker in their hands.
RequestsAreServed ==
    \A r \in Requests : (pc[r] \in UnderLock \cup {"read"}) ~> (pc[r] = "idle")
=============================================================================
