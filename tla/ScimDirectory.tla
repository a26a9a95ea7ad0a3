--------------------------- MODULE ScimDirectory ---------------------------
(***************************************************************************)
(* The SCIM identity directory: users, nested groups and what they let an  *)
(* OIDC user do.  api/services/scim_store.py keeps the rows, in two JSON   *)
(* files or in a database; scim_directory.py and scim_groups.py change     *)
(* them, scim_bulk.py runs lists of operations, api/routers/scim.py takes  *)
(* the requests of identity providers, and api/security.py asks on every   *)
(* request of a user whether their session still holds.                    *)
(*                                                                         *)
(* A mutation loads the rows, checks them and saves whole tables.  With a  *)
(* database the clients below are replicas, a mutation is a transaction    *)
(* and one lock is taken before the first read; with JSON files they are   *)
(* threads of one server, the lock is _LOCK, and removing a user saves two *)
(* files, one after the other.                                             *)
(***************************************************************************)
EXTENDS ScimRows, Sequences

CONSTANTS
    Clients,        \* who executes SCIM requests
    NoClient,
    Backends,       \* the configurations considered
    Initial,        \* what the store may hold at the start
    Requests,       \* lists of operations, with a limit of errors
    MaxRequests,    \* bound on the requests of a behaviour
    MaxFaults       \* bound on failures and crashes

\* No two users share a name, in any spelling, or a subject, and no two groups
\* a name.
RowsDiffer(s) ==
    /\ \A u, w \in Existing(s.users) : u # w =>
          /\ Fold[s.users[u].name] # Fold[s.users[w].name]
          /\ \/ s.users[u].subject # s.users[w].subject
             \/ s.users[u].subject = NoSubject
    /\ \A g, h \in Existing(s.groups) : g # h =>
          Fold[s.groups[g].name] # Fold[s.groups[h].name]

ASSUME DirectoryAssumption ==
    /\ NoClient \notin Clients
    /\ Backends \subseteq {"json", "database"}
    /\ MaxRequests \in Nat /\ MaxFaults \in Nat

\* The directory starts from rows the service could have saved.
ASSUME InitialAssumption ==
    /\ Initial \subseteq Store
    /\ \A s \in Initial :
          Acyclic(s.groups) /\ MembersExist(s) /\ RowsDiffer(s)

\* Lists refer to the bulkId of a POST of theirs (declared_ids).
ASSUME RequestsAssumption ==
    \A r \in Requests :
        /\ Len(r.ops) \in Nat
        /\ \A i \in 1..Len(r.ops) :
              /\ IsOperation(r.ops[i])
              /\ \A x \in References(r.ops[i]) :
                    x \in 1..Len(r.ops) /\ r.ops[x].method = "POST"
        /\ r.limit \in Nat
        /\ r.conditional \in BOOLEAN

VARIABLES
    backend,
    store,      \* the rows on disk, or committed
    used,       \* identifiers given to resources so far
    lock,       \* the client inside a mutation
    job,        \* what each client executes
    session,    \* the assignment in the OIDC session of each subject
    serving,    \* the assignment under which a request of a subject runs
    requests,   \* counters
    faults,
    cut         \* history: users whose removal stopped after the first file

sessionVars == <<session, serving>>
vars == <<backend, store, used, lock, job, sessionVars, requests, faults, cut>>

-----------------------------------------------------------------------------
(* A job is a list of operations: the body of a Bulk request, or the one    *)
(* operation of any other request.                                          *)

Idle == [stage |-> "idle", ops |-> <<>>, limit |-> 0, conditional |-> FALSE,
         seen |-> None, todo |-> <<>>, later |-> <<>>, ids |-> <<>>,
         ok |-> {}, failed |-> {}, stuck |-> {}, progress |-> FALSE,
         target |-> None, staged |-> None]

Stages == {"idle", "running", "staged", "half", "answered"}

Current(j) == Head(j.todo)
Op(j) == j.ops[Current(j)]

\* fail_on_errors and error_count
Reached(j) == j.limit # 0 /\ Cardinality(j.failed) >= j.limit

\* The operation at hand is over: j is the job with its result.
Leave(j) == [j EXCEPT !.stage = "running", !.todo = Tail(@),
                      !.progress = TRUE, !.target = None,
                      !.staged = None]
Succeeded(j) ==
    [Leave(j) EXCEPT
        !.ok = @ \cup {Current(j)},
        !.ids = IF Op(j).method = "POST"
                THEN [@ EXCEPT ![Current(j)] = j.target] ELSE @]
Failed(j)    == [Leave(j) EXCEPT !.failed = @ \cup {Current(j)}]

\* Identifiers never given before; which of them uuid4 makes does not matter.
Fresh(j) == (IF Op(j).res = "User" THEN UserIds ELSE GroupIds) \ used

\* The resource the operation is about, when it can be told.
Target(j) == IF Op(j).method = "POST" THEN CHOOSE id \in Fresh(j) : TRUE
             ELSE Resolve(Op(j).id, j.ids)

Rows(s, op) == IF op.res = "User" THEN s.users ELSE s.groups

\* Mutant of Loaded: the rows are those of a snapshot taken before the lock.
LoadedEarly(j) == IF j.conditional THEN j.seen ELSE store

\* The rows a mutation reads: pg_advisory_xact_lock comes before the first
\* read, in a transaction whose statements each see what is committed.
Loaded(j) == store

\* _if_match_denied, _check_version
VersionMatches(j, id) ==
    (j.conditional /\ Op(j).method # "POST" /\ ~IsReference(Op(j).id)) =>
        /\ id \in Existing(Rows(j.seen, Op(j)))
        /\ id \in Existing(Rows(Loaded(j), Op(j)))
        /\ Rows(j.seen, Op(j))[id] = Rows(Loaded(j), Op(j))[id]

Waiting(j) == {x \in References(Op(j)) : j.ids[x] = None}

Running(c) == /\ job[c].stage = "running"
              /\ job[c].todo # <<>>
              /\ ~Reached(job[c])

-----------------------------------------------------------------------------
Init ==
    /\ backend \in Backends
    /\ store \in Initial
    /\ used = Existing(store.users) \cup Existing(store.groups)
    /\ lock = NoClient
    /\ job = [c \in Clients |-> Idle]
    /\ session = [x \in Subjects |-> None]
    /\ serving = [x \in Subjects |-> None]
    /\ requests = 0 /\ faults = 0
    /\ cut = {}

\* A request arrives; the version in its If-Match is that of the row now.
Submit(c, r) ==
    /\ job[c].stage = "idle"
    /\ requests < MaxRequests
    /\ requests' = requests + 1
    /\ job' = [job EXCEPT ![c] =
                  [Idle EXCEPT !.stage = "running", !.ops = r.ops,
                               !.limit = r.limit,
                               !.conditional = r.conditional,
                               !.seen = IF r.conditional THEN store ELSE None,
                               !.todo = [i \in 1..Len(r.ops) |-> i],
                               !.ids = [i \in 1..Len(r.ops) |-> None]]]
    /\ UNCHANGED <<backend, store, used, lock, sessionVars, faults, cut>>

\* _UnresolvedBulkReference: left for a later pass.
Defer(c) ==
    /\ Running(c)
    /\ Waiting(job[c]) # {}
    /\ job' = [job EXCEPT ![c].later = Append(@, Current(job[c])),
                          ![c].todo = Tail(@)]
    /\ UNCHANGED <<backend, store, used, lock, sessionVars, requests, faults,
                   cut>>

\* A mutation gets the lock, loads and checks, and has its rows to save.
Begin(c) ==
    LET j == job[c]  id == Target(j) IN
    /\ Running(c)
    /\ Waiting(j) = {}
    /\ lock = NoClient
    /\ Op(j).method = "POST" => Fresh(j) # {}
    /\ VersionMatches(j, id)
    /\ Accepted(Loaded(j), Op(j), id, j.ids)
    /\ lock' = c
    /\ job' = [job EXCEPT
                  ![c].stage = "staged", ![c].target = id,
                  ![c].staged = After(Loaded(j), Op(j), id, j.ids)]
    /\ UNCHANGED <<backend, store, used, sessionVars, requests, faults, cut>>

\* ... or is refused: not found, a conflict, an invalid graph, a stale version.
Refuse(c) ==
    LET j == job[c]  id == Target(j) IN
    /\ Running(c)
    /\ Waiting(j) = {}
    /\ lock = NoClient
    /\ Op(j).method = "POST" => Fresh(j) # {}
    /\ ~(VersionMatches(j, id) /\ Accepted(Loaded(j), Op(j), id, j.ids))
    /\ job' = [job EXCEPT ![c] = Failed(j)]
    /\ UNCHANGED <<backend, store, used, lock, sessionVars, requests, faults,
                   cut>>

RemovesUser(j) == Op(j).method = "DELETE" /\ Op(j).res = "User"

\* The tables, or files, an operation saves.
SavesUsers(j)  == Op(j).res = "User"
SavesGroups(j) == Op(j).res = "Group" \/ RemovesUser(j)

\* The operation is over, its rows are saved and the lock is released.
Done(c) ==
    /\ lock' = NoClient
    /\ used' = used \cup {job[c].target}
    /\ job' = [job EXCEPT ![c] = Succeeded(job[c])]

\* Tables are saved whole.
SavedUsers(j)  == IF SavesUsers(j) THEN j.staged.users ELSE store.users
SavedGroups(j) == IF SavesGroups(j) THEN j.staged.groups ELSE store.groups

\* A transaction commits both tables.
Commit(c) ==
    /\ backend = "database"
    /\ job[c].stage = "staged"
    /\ store' = [users |-> SavedUsers(job[c]), groups |-> SavedGroups(job[c])]
    /\ Done(c)
    /\ UNCHANGED <<backend, sessionVars, requests, faults, cut>>

\* The users file is replaced; to remove a user the groups come next.
SaveUsers(c) ==
    /\ backend = "json"
    /\ job[c].stage = "staged" /\ SavesUsers(job[c])
    /\ store' = [store EXCEPT !.users = job[c].staged.users]
    /\ IF RemovesUser(job[c])
       THEN /\ job' = [job EXCEPT ![c].stage = "half"]
            /\ UNCHANGED <<lock, used>>
       ELSE Done(c)
    /\ UNCHANGED <<backend, sessionVars, requests, faults, cut>>

\* The groups file is replaced.
SaveGroups(c) ==
    /\ backend = "json"
    /\ \/ job[c].stage = "half"
       \/ job[c].stage = "staged" /\ ~SavesUsers(job[c])
    /\ store' = [store EXCEPT !.groups = job[c].staged.groups]
    /\ Done(c)
    /\ UNCHANGED <<backend, sessionVars, requests, faults, cut>>

Cut(c) == IF job[c].stage = "half" THEN {job[c].target} ELSE {}

\* Mutant of SaveFails: the lock stays taken.
SaveFailsLocked(c) ==
    /\ job[c].stage \in {"staged", "half"}
    /\ faults < MaxFaults
    /\ faults' = faults + 1
    /\ cut' = cut \cup Cut(c)
    /\ job' = [job EXCEPT ![c] = Failed(job[c])]
    /\ UNCHANGED <<backend, store, used, lock, sessionVars, requests>>

\* Saving fails: the transaction is rolled back, a file that has been replaced
\* is not.
SaveFails(c) ==
    /\ job[c].stage \in {"staged", "half"}
    /\ faults < MaxFaults
    /\ faults' = faults + 1
    /\ lock' = NoClient
    /\ cut' = cut \cup Cut(c)
    /\ job' = [job EXCEPT ![c] = Failed(job[c])]
    /\ UNCHANGED <<backend, store, used, sessionVars, requests>>

\* A replica dies, or the server with all its threads.
Crash(c) ==
    LET dead == IF backend = "json" THEN Clients ELSE {c} IN
    /\ job[c].stage # "idle"
    /\ faults < MaxFaults
    /\ faults' = faults + 1
    /\ cut' = cut \cup UNION {Cut(d) : d \in dead}
    /\ lock' = IF lock \in dead THEN NoClient ELSE lock
    /\ job' = [d \in Clients |-> IF d \in dead THEN Idle ELSE job[d]]
    /\ UNCHANGED <<backend, store, used, sessionVars, requests>>

-----------------------------------------------------------------------------
(* Passes over the operations that wait for others (execute_scim_bulk).     *)

\* Mutant of Progressed: a pass with an error counts as none.
ProgressedCleanly(j) == j.progress /\ j.failed = {}

Progressed(j) == j.progress

PassIsOver(c) ==
    /\ job[c].stage = "running" /\ job[c].todo = <<>>
    /\ job[c].later # <<>> /\ ~Reached(job[c])

NextPass(c) ==
    /\ PassIsOver(c)
    /\ Progressed(job[c])
    /\ job' = [job EXCEPT ![c].todo = job[c].later, ![c].later = <<>>,
                          ![c].progress = FALSE]
    /\ UNCHANGED <<backend, store, used, lock, sessionVars, requests, faults,
                   cut>>

\* Nothing came of this pass: what waits is refused, up to the limit.
GiveUp(c) ==
    LET j == job[c]
        room == j.limit - Cardinality(j.failed)
        n == IF j.limit = 0 \/ Len(j.later) < room THEN Len(j.later) ELSE room
        given == {j.later[i] : i \in 1..n}
    IN  /\ PassIsOver(c)
        /\ ~Progressed(j)
        /\ job' = [job EXCEPT ![c].stage = "answered", ![c].stuck = given,
                              ![c].failed = @ \cup given]
        /\ UNCHANGED <<backend, store, used, lock, sessionVars, requests,
                       faults, cut>>

Finish(c) ==
    /\ job[c].stage = "running"
    /\ \/ Reached(job[c])
       \/ job[c].todo = <<>> /\ job[c].later = <<>>
    /\ job' = [job EXCEPT ![c].stage = "answered"]
    /\ UNCHANGED <<backend, store, used, lock, sessionVars, requests, faults,
                   cut>>

Answer(c) ==
    /\ job[c].stage = "answered"
    /\ job' = [job EXCEPT ![c] = Idle]
    /\ UNCHANGED <<backend, store, used, lock, sessionVars, requests, faults,
                   cut>>

-----------------------------------------------------------------------------
(* OIDC users.  A reading of both tables is one step: a snapshot of the     *)
(* database, or under the lock of the server.                               *)

ReadsPass == backend = "database" \/ lock = NoClient

Login(x) ==
    /\ ReadsPass
    /\ SubjectIdentity(store, x) # None
    /\ session' = [session EXCEPT ![x] = SubjectIdentity(store, x)]
    /\ UNCHANGED <<backend, store, used, lock, job, serving, requests, faults,
                   cut>>

\* Mutant of Serve: the session is trusted while it lasts.
ServeTrusting(x) ==
    /\ session[x] # None /\ serving[x] = None
    /\ serving' = [serving EXCEPT ![x] = session[x]]
    /\ UNCHANGED <<backend, store, used, lock, job, session, requests, faults,
                   cut>>

\* _session_identity_is_enabled: the session is compared with the directory on
\* every request.
Serve(x) ==
    /\ ReadsPass
    /\ session[x] # None /\ serving[x] = None
    /\ SubjectIdentity(store, x) = session[x]
    /\ serving' = [serving EXCEPT ![x] = session[x]]
    /\ UNCHANGED <<backend, store, used, lock, job, session, requests, faults,
                   cut>>

EndRequest(x) ==
    /\ serving[x] # None
    /\ serving' = [serving EXCEPT ![x] = None]
    /\ UNCHANGED <<backend, store, used, lock, job, session, requests, faults,
                   cut>>

-----------------------------------------------------------------------------
Step(c) ==
    \/ Defer(c) \/ Begin(c) \/ Refuse(c)
    \/ Commit(c) \/ SaveUsers(c) \/ SaveGroups(c)
    \/ NextPass(c) \/ GiveUp(c) \/ Finish(c) \/ Answer(c)

Next ==
    \/ \E c \in Clients : \/ \E r \in Requests : Submit(c, r)
                          \/ Step(c) \/ SaveFails(c) \/ Crash(c)
    \/ \E x \in Subjects : Login(x) \/ Serve(x) \/ EndRequest(x)

Spec == Init /\ [][Next]_vars

\* Threads and replicas go on, and the lock is given to those who wait.
FairSpec == Spec /\ \A c \in Clients : WF_vars(Step(c))

-----------------------------------------------------------------------------
(* Properties.                                                             *)

Holding(c) == job[c].stage \in {"staged", "half"}

Jobs ==
    [stage : Stages, ops : {r.ops : r \in Requests} \cup {<<>>}, limit : Nat,
     conditional : BOOLEAN, seen : Store \cup {None},
     todo : Seq(Nat), later : Seq(Nat),
     ids : Seq(UserIds \cup GroupIds \cup {None}),
     ok : SUBSET Nat, failed : SUBSET Nat, stuck : SUBSET Nat,
     progress : BOOLEAN, target : UserIds \cup GroupIds \cup {None},
     staged : Store \cup {None}]

TypeOK ==
    /\ backend \in Backends
    /\ store \in Store
    /\ used \subseteq UserIds \cup GroupIds
    /\ lock \in Clients \cup {NoClient}
    /\ job \in [Clients -> Jobs]
    /\ session \in [Subjects -> Assignments \cup {None}]
    /\ serving \in [Subjects -> Assignments \cup {None}]
    /\ cut \subseteq UserIds

\* The rows a client is about to save are what its operation makes of the rows
\* as they are, and it alone holds the lock; after the users file only the
\* references to the removed user remain to be saved.
Prepared(c) ==
    LET j == job[c]  op == Op(job[c]) IN
    /\ lock = c <=> Holding(c)
    /\ Holding(c) =>
          /\ j.todo # <<>>
          /\ j.target \in IF op.res = "User" THEN UserIds ELSE GroupIds
          /\ j.staged \in Store
    /\ j.stage = "staged" =>
          /\ Accepted(store, op, j.target, j.ids)
          /\ j.staged = After(store, op, j.target, j.ids)
          /\ (j.conditional /\ op.method # "POST" /\ ~IsReference(op.id)) =>
                Rows(j.seen, op)[j.target] = Rows(store, op)[j.target]
    /\ j.stage = "half" =>
          /\ backend = "json" /\ RemovesUser(j)
          /\ store.users[j.target] = None
          /\ j.staged.groups = Without(store.groups, j.target)

Entries(s) == {s[i] : i \in 1..Len(s)}
Once(s) == \A i, k \in 1..Len(s) : s[i] = s[k] => i = k

\* While a list is executed each of its operations is in one place: done,
\* failed, still to do in this pass or left for a later one.
Sorted(j) ==
    LET waiting == Entries(j.todo) \cup Entries(j.later) IN
    /\ j.ok \cup j.failed \cup waiting = 1..Len(j.ops)
    /\ j.ok \cap j.failed = {}
    /\ (j.ok \cup j.failed) \cap waiting = {}
    /\ Entries(j.todo) \cap Entries(j.later) = {}
    /\ Once(j.todo) /\ Once(j.later)

\* ... what is done refers to what was done, by the identifiers that gave, and
\* what was left in a pass without progress refers to what is not.
Listed(j) ==
    /\ j.stage \in {"running", "staged", "half"} =>
          /\ Sorted(j)
          /\ j.stuck = {}
          /\ Len(j.ids) = Len(j.ops)
          /\ \A i \in 1..Len(j.ops) : j.ids[i] # None <=>
                i \in j.ok /\ j.ops[i].method = "POST"
          /\ ~j.progress => \A i \in Entries(j.later) :
                               ~(References(j.ops[i]) \subseteq j.ok)
          /\ j.limit # 0 => Cardinality(j.failed) <= j.limit
    /\ j.stage \in {"staged", "half"} =>
          /\ References(Op(j)) \subseteq j.ok
          /\ j.limit # 0 => Cardinality(j.failed) < j.limit
    /\ \A i \in j.ok : References(j.ops[i]) \subseteq j.ok

\* What every request has to itself while it runs.
JobsInv == \A c \in Clients : Prepared(c) /\ Listed(job[c])

Members(s) == UNION {s.groups[g].members : g \in Existing(s.groups)}

\* Groups never contain one another in a circle, nor anything that is gone,
\* save a user whose removal was interrupted between two files or is not
\* finished (_validate_group_graph, delete_user, delete_group): whatever the
\* requests, replicas and failures.
GroupsAreSound ==
    /\ Acyclic(store.groups)
    /\ Members(store) \ (Existing(store.users) \cup Existing(store.groups))
          \subseteq cut \cup UNION {Cut(c) : c \in Clients}
    /\ backend = "database" => MembersExist(store)

\* No two users share a name, in any spelling, or a subject, and no two groups
\* a name: the operations of replicas that check at the same time included
\* (_check_uniqueness under the lock).
NamesAreUnique == RowsDiffer(store)

\* The rows of the directory are sound.
DirectoryIsSound == GroupsAreSound /\ NamesAreUnique

\* The state is well formed, what the requests are about to save is what their
\* operations make of the rows as they are, and the rows are sound.
DirectoryInv == TypeOK /\ JobsInv /\ DirectoryIsSound

\* The groups around user u: those in every set that has the groups of u and
\* the groups of its groups.
GroupsAround(groups, u) ==
    LET closed == {S \in SUBSET Existing(groups) :
                     \A g \in Existing(groups) :
                         groups[g].members \cap (S \cup {u}) # {} => g \in S}
    IN  {g \in Existing(groups) : \A S \in closed : g \in S}

\* Every assignment the directory makes to user u.
AssignmentsOf(s, u) ==
    ({s.users[u].assignment}
      \cup {s.groups[g].assignment : g \in GroupsAround(s.groups, u)})
    \ {NoAssignment}

Entitled(s, u, a) == s.users[u].active /\ AssignmentsOf(s, u) = {a}

\* A user has a role in an organization exactly if they are active and the
\* user and all groups around them, at any depth, agree on it
\* (_resolved_identity).
IdentityIsUnambiguous ==
    \A u \in Existing(store.users) :
        LET identity == Identity(store, u)
            assigned == AssignmentsOf(store, u)
        IN  \A a \in Assignments :
                identity = a <=> (store.users[u].active /\ assigned = {a})

\* A request of an OIDC user starts only under an assignment that the user has
\* at that moment, however long ago they logged in and whatever replicas are
\* changing (_session_identity_is_enabled).
SessionsFollowTheDirectory ==
    [][\A x \in Subjects :
         (serving[x] = None /\ serving'[x] # None) =>
            \E u \in Existing(store.users) :
                /\ store.users[u].subject = x
                /\ Entitled(store, u, serving'[x])]_vars

\* The operation of client c is about row id, or removes what the row refers to.
Concerns(c, rows, id) ==
    \/ job[c].target = id
    \/ Op(job[c]).method = "DELETE" /\ job[c].target \in rows[id].members

\* No update is lost: a row changes only by an operation about it, to what
\* that operation made of the row as it was, and if the request named a version
\* then that is the version replaced (mutation, _if_match_denied): "prevents
\* lost updates and stale If-Match writes".
NoLostUpdates ==
    [][/\ \A u \in UserIds : store'.users[u] # store.users[u] =>
            \E c \in Clients :
                /\ Holding(c) /\ job[c].target = u
                /\ (job[c].conditional /\ Op(job[c]).method # "POST"
                     /\ ~IsReference(Op(job[c]).id))
                        => job[c].seen.users[u] = store.users[u]
       /\ \A g \in GroupIds : store'.groups[g] # store.groups[g] =>
            \E c \in Clients :
                /\ Holding(c) /\ Concerns(c, store.groups, g)
                /\ (/\ job[c].conditional /\ Op(job[c]).method # "POST"
                    /\ ~IsReference(Op(job[c]).id) /\ job[c].target = g)
                        => job[c].seen.groups[g] = store.groups[g]]_vars

\* The answer to a list of operations is complete and true to their references:
\* without a limit every operation is answered, with one no more errors than
\* that; what succeeded refers only to what had succeeded, and what was given
\* up could never have been done (execute_scim_bulk).
BulkAnswers ==
    \A c \in Clients :
        LET j == job[c] IN
        j.stage = "answered" =>
            /\ j.limit = 0 => j.ok \cup j.failed = 1..Len(j.ops)
            /\ j.limit # 0 => Cardinality(j.failed) <= j.limit
            /\ j.ok \cap j.failed = {}
            /\ \A i \in j.ok : References(j.ops[i]) \subseteq j.ok
            /\ \A i \in j.stuck : ~(References(j.ops[i]) \subseteq j.ok)

\* Every request is answered: the passes come to an end and no lock is kept
\* from those who wait.
RequestsEnd == \A c \in Clients : job[c].stage # "idle" ~> job[c].stage = "idle"
=============================================================================
