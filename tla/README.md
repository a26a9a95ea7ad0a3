# Verification of BreachScope

BreachScope is a DFIR service: an analyst uploads logs, the engine matches rules and correlates
events, and the result is kept as a *case* — a work directory with evidence and reports, encrypted at
rest, indexed in a JSON file, and optionally replicated to an S3-compatible bucket. This directory holds
TLA+ models of the parts whose correctness depends on order, failure and concurrency, of the detection
algorithms whose correctness depends on windows, ties and sessions, TLC configurations for small instances,
and proofs for every instance.

Paths below are relative to the repository. `PROJECT.json` maps each definition to the lines it models.

    tlc -workers 2 -config CaseArchive_faults.cfg CaseArchiveMC.tla     # any run
    tlapm CaseArchiveProofs.tla                                         # any proof module

## Inventory

| Part | State | Operations | Interacts with |
|---|---|---|---|
| Case history index (`api/services/case_history*.py`) | one JSON file of rows, quarantined `.broken` files, work directories | register, workflow update, lineage, set/clear/mark remote, list/get, archive, delete, prune | every case endpoint, analysis, backup |
| Object storage (`object_storage.py`, `routers/cases.py`) | objects and manifest in the bucket, `<work_dir>.restore-backup` | replicate, verify, archive, restore, reanalyze, delete, forget | index, encryption, audit |
| Case locks and worker pool (`routers/cases.py`) | `threading.Lock` per case, Starlette's threads | acquire, release, `run_in_threadpool` | all case endpoints |
| Artifact encryption (`artifact_encryption.py`) | files and `.enc` files of a tree | `encrypt_file`, `encrypt_tree`, read, verify | analysis, object storage |
| Analysis service (`analysis_service.py`, `workdir_service.py`, `case_reanalysis.py`, `upload_policy.py`) | work directory, temporary directories | analyze, clean up, reanalyze | engine, encryption, index, rules |
| Rule authoring, activation, tuning (`rule_*.py`) | drafts, publications, a versioned manifest with history, profiles | create, update, validate, approve, publish, activate, deactivate, roll back | analysis |
| SCIM directory (`scim_*.py`) | users, groups, members in JSON, SQLite or PostgreSQL | create, replace, patch, delete, bulk, migrate | authentication |
| Audit log, login rate limit, backups, operations status | append-only JSONL with a hash chain; failure counters; zip files | record, verify; check, count, clear; create, delete | everything |
| Authentication, RBAC, organization scope | signed cookies, keys, OIDC transactions | log in, resolve identity | everything |
| Detection engine and ingestion (`breachscope/*.py`) | events of one analysis, findings, chains, scenarios | parse, match, correlate, infer | analysis |
| Holdout normalization and merge (`scripts/p2_37_*.py`) | a pair of files and a marker per member of an external archive, slices, merge state, table of identities, two results | normalize in a pool or in slices, merge strictly, with duplicates, or at once | evaluation of the engine |
| One-pass evaluation scripts (`scripts/p2_14e_*` … `scripts/p2_36c_*`, `brawl_attack_holdout_one_pass.py`) | a permanent lock file, one result file that is rewritten as the run goes, an output directory, the corpus and the product a contract pins down by hashes | claim the lock, verify, load, score row by row, summarize, publish | evaluation of the engine |
| Artifact readers, reporting, release/demo/evaluation tools, web UI | files they write | — | — |

What is hard in it: every request runs on a thread or on the event loop of one server process, so the
steps of a slow operation (an upload, a restore, an `rmtree`) interleave with other requests on the
same case; the index is shared with other processes as well; the bucket, the file system and the process
may fail between any two steps; an operation that fails must undo what it did and may fail at that too.

What makes each part correct:

* index: a change is one operation on the rows as they are, never on stale ones; no organization
  touches another's rows; a row goes only after its files; damaged files are kept;
* archive: some complete copy of a retained case exists at all times; a success answer is true; nothing
  is orphaned; locks are given back;
* encryption: every artifact is on disk, as plaintext or ciphertext; the report describes the tree;
* pool: requests never all wait for one another; holders and plain reads are answered;
* analysis: an analysis keeps the evidence it was given and ends with a registered case, or leaves nothing behind;
* rules: what runs is exactly what was reviewed, published and activated, and something always can run;
* SCIM: references and uniqueness survive concurrent and partial updates; sessions follow the directory;
* engine: parallel chunks, binary searches, sessions that are used again and remote commands agree with
  their declarative meaning; a scenario does not mix incidents;
* holdout: a result that exists is exact, line by line, whatever was killed on the way, and comes in the end;
* one-pass scripts: a lock lets one run look at the corpus; a result says how its run ended, is never overwritten by
  another, adds up, and rests on nothing that was changed behind its back;
* audit, rate limit, backup: see the plan.

## Modules

### CaseRegistry, CaseIndex — the case index

`CaseRegistry` is the abstract promise: a function from case ids to rows (organization, time of update,
workflow status, remote flag, lineage). `Change` is one edit of one row (`RowEdits`, whose guards are the
`KeyError`/`ValueError` exits of the methods) or a deletion of rows without a replica, both within one
organization. `Lose` is the file being damaged by somebody else.

`CaseIndex` is the file. A call takes the process's lock (`LockProcess`), the advisory lock on
`<index>.lock` (`LockFile`), reads the whole file (`Read`, which renames a corrupt one to the first free
`.broken` name first), decides (`Decide`: edit, refusal, deletion, prune, archive), removes directories one
by one (`RemoveFiles`), and replaces the file (`Write`). Each of these may fail, and a process may die
between any two (`Crash`: the locks go, the file stays). The OSError that leaves `_platform_file_lock` as
`CaseHistoryLockError` although the lock was held is in the model as the reply `lock_error` of `Read` and
`Write`. Rows keep only what the methods test; `updated_at` is the clock. `mark_object_storage_restored`
changes fields the rows leave out, so it keeps its guard and writes the same row. `prune_cases` with
`dry_run` reads only. A cutoff beyond `MaxTime` stands for `older_than_days=None`. Ids are taken to be
fresh: an id is a digest of directory and time in seconds, and one directory registered twice within a second would
replace its own row.

Refinement: `Registry == INSTANCE CaseRegistry WITH rows <- Content(file)`, property
`ImplementsRegistry == Registry!Spec`.

### CaseArchive — one case between its directory and the bucket

One server process (the container starts a single uvicorn worker), any number of requests. Variables: the row (`indexed`,
`recorded` metadata), the directory and the restore backup, the objects and the manifest in the bucket, the
per-case lock, the index lock where a method holds it over several steps, each request's `pc`, `op`, the
manifest it works on (`snap`), the files it still has to handle, and its last answer. One action per call that can be
interleaved or fail: `List`, `Upload`, `PutManifest`, `Rollback`, `Record` for replicate; `LoadManifest`,
`Download`, `Authenticate`, `Swap`, `Install`, `DropBackup`, `Mark` for restore (verify and archive run it
against a probe); `RemoveObject`, `RemoveManifest`, `Clear` for delete; `ArchiveLocal`, `RemoveFile`,
`RemoveDir` under the index lock; `DeleteCase` and `DropRow` for `DELETE /cases/{id}`, which does *not* take the case
lock. `Faults` chooses what may go wrong: S3 calls (with or without having taken effect), file operations, index
writes, a process death (`Restart`), another or no key after a restart.

A ciphertext never changes once written, so a file is a model value; a manifest is its timestamp and its
files and stands for its SHA-256; an object with the wrong content is a failing download.

### CaseLockPool — who waits for whom

The worker threads, the FIFO queue for them and the case locks. A plain endpoint runs on a worker. A
synchronous endpoint under `_object_storage_operation_locked` waits for the lock on its worker; `reanalyze` borrows a
worker to wait for the lock, gives it back, and asks again to materialize and to clean up. What the endpoints do
in between is abstracted to “returns or raises”.

### ArtifactEncryption — encrypt_tree

The two phases and their rollbacks over the sets of plaintext and ciphertext files: `Encrypt` /
`EncryptFails` / `Discard` / `Raised`, then `Unlink` / `UnlinkFails` / `Restore` / `Restored` / `Drop` /
`RolledBack`; `Crash` anywhere; calls repeat over whatever tree was left. The container format is not
modelled: a `.enc` file appears by rename, hence complete.

### RuleLifecycle — from a draft to a run

Drafts with versions and approvals, published files, the versioned manifest with its bounded history, and what an
analysis makes of it (`Verified`). Each store has a lock over a whole read-change-write, so one operation is one
step, except that `publish` writes the file and then the drafts and may be cut off in between, and
`activate` verifies the publication before it takes the lock of the manifest. Users act on what they read last; the
roles a user has may change; an outsider may replace a published file; a later release may bring a rule of the same
identifier. Tuning profiles are left out.

### ScimRows, ScimDirectory — users and groups

`ScimRows` has the operations on the rows as functions (uniqueness, the group graph, removal with its cascade,
assignments inherited through groups). `ScimDirectory` runs them: clients send single, conditional and Bulk
requests; a server keeps the rows in two JSON files, written one after the other under one lock, or replicas keep
them in one database under an advisory lock and a transaction. A Bulk request makes passes over its operations until
none waits for another any more. An OIDC user logs in, and each of their requests looks at the directory again.

### Detection, RemoteExecution, Correlation, Scenarios — the engine

Pure operators, one module per stage, beside the meaning they are compared with. `Detection`: events in the
order of the collector, parents of Windows processes, rules in chunks, filters, the time line.
`RemoteExecution`: source commands, their targets by host alias, the evidence on the target within window and clock
skew. `Correlation`: rule chains found by two binary searches, chains of sessions cut into lifetimes, activities,
chains of remote commands, and the removal of duplicates. `Scenarios`: the partition of chains into incidents,
scenario templates, episodes of remote execution. `Meets` compares techniques with the requirements of a template as
`scenario.py:110` does, which is not what the comment of the function it calls says (see *What the models found*). Times are small numbers, hosts, accounts and techniques are model
values, the text of an event is the set of the marks that rules look for.

### AnalysisService — a request around the engine

The coroutine of a request: naming and streaming uploads, analysis in chunks that threads finish in any order, report,
clean-up, encryption, registration, the lineage of a re-analysed case, and what each failure removes. An input file is
read up to an error in it (`Readings`), and the next one is read all the same (`skipped` are those that were cut short). A directory tree whose removal fails may have lost any of its files (`RemovedInPart`), be it in the clean-up
of a successful analysis, after which the rest is kept like any case, or in a deletion. Coroutines share
one event loop and give way only while they wait for the next part of an upload (`turn`). Two requests may use
one directory that the caller names; the code does not keep a caller from naming the directory that was made for
another request, but `ServiceAssumption` does. The module extends the engine's, so the run analyses real events.

### HoldoutMembers, HoldoutMerge — a corpus in resumable runs

`HoldoutMembers`: the pool (`PoolBegin`, `Task*`, `Cancel`, `PoolEnd`) and the sliced tool (`Slice*`) make two files
and a marker of each member of an archive. `HoldoutMerge`: the strict and the dedupe merge (`MergeBegin`, recovery,
`Transform`, `AppendRow`, `Commit`, `Finish`, `Refinalize`) and the merge in the pool's own run (`Whole*`). A run may
be killed between any two steps (`Crash`), all its workers with it; between runs a file may be lost or changed
(`Damage`). A hash is the content, a size the number of rows; every row kept is one line of
either file, one record number and one seen identity, so the state needs one count. One tool runs at a time.

### OnePass, OnePassScripts — a corpus that may be looked at once

The evaluation scripts are variations of one protocol: claim a permanent lock file, publish `started`, check the
script, the contract, the product and the corpus against registered hashes, score the corpus row by row, count, and
publish `completed`. They differ in what is locked and where, what is hashed before, after or instead of being used,
what is inside which `try`, and which handlers write. So `OnePassScripts` writes each of the 26 scripts down as a
*program*, a sequence of steps with the `try` each is in, one operator per function of the script; `OnePass` says what
a step does (`Look` compares what is on disk now, `Take` keeps a copy, `Check` compares the copy, `Claim` is
`O_CREAT | O_EXCL`, `Publish` and `Save` replace the result, `Score` may fail, `Count` and `Tally` make the summary,
`CatchRow` and `CatchRun` are the handlers) while another run of the same script goes on, calls fail
(`Stumble`), runs are killed (`Kill`) and files change (`Change`). What a contract pins down is a few *things*
(runner, contract, code, rules, corpora); hashing is the comparison of a thing with `wrong`, the set of those that
differ from the contract now. A lock path given on the command line is taken to be the one the contract names;
nothing in those scripts (for instance `p2_17c` and `p2_24b`) compares the two, so `ResultsAreKept` rests on it.

## Runs

| Run | Shows | Bounds |
|---|---|---|
| `archive_faults` | `ArchiveInv` (of which `ManifestLast` is a conjunct), `KeepsACopy`, `SuccessIsTrue` with every fault | 2 files, 2 requests, 2 timestamps |
| `archive_orphans` | `NoOrphans`; `LockIsReleased` under fairness | 2 files, 2 requests; file-system and index faults |
| `archive_stuck_overwrite` | **violation**: a leftover backup makes every overwrite restore fail | 1 request |
| `encryption` | `EvidenceKept`, `OutcomeIsTrue`, `EncryptionInv` | 4 files |
| `index` | `IndexInv`, `DamageIsKept`, `ImplementsRegistry`, `FilesGoFirst`, `PruneKeepsNewest` | 2 processes, 1 organization, 2 cases, 2 damages, 2 seconds |
| `pool_enough` | `PoolInv`, `NobodyIsStuck`, `RequestsAreServed` | a worker for every request that may wait for a lock |
| `pool_exhausted` | **violation**: fewer workers than that, and all requests wait for ever | 2 workers |
| `rules` | `RuleInv` (types, `PublishedWasReviewed` and how drafts, readings, files and manifest agree), `RunsReviewedRules`, `OneDraftPerId`, `HistoryRuns`, `RetryIsPossible`, `CommitsWhatWasSeen` | 2 drafts with 2 and 1 versions, 2 users whose roles change, 2 activations, a history of 2, 1 changed file, 1 new rule of the rulepack |
| `scim` | `DirectoryInv` (types, `JobsInv` and `DirectoryIsSound`), `IdentityIsUnambiguous`, `BulkAnswers`, `SessionsFollowTheDirectory`, `NoLostUpdates`, `RequestsEnd` | 2 clients, 2 requests each out of a list of single and Bulk requests, 1 fault, both kinds of store |
| `analysis` | `FindingsAreSequential`, `ChainsAreComplete`, `ScenariosStayInScope`, `EvidenceIsKept`, `AnalysisInv` (types, `FailuresLeaveNothing` and `NothingStaysPlain`) | one request with every order of 5 events of four families, 6 of two families of remote commands; two requests with up to 3 uploads and every combination of what they may share; 2 failures |
| `holdout` | `MergeIsSound`, `OutputIsExact`, `MergeCompletes` | 2 members, up to 4 rows, 2 kills, 1 fault, with and without an earlier job, 5 combinations of tools |
| `one_pass` | `OnePassInv` (types, `LockIsOwned`, `OneRunPerLock`, `FailureIsRecorded`, `TextIsCareful`), `CompletedIsSound`, `SummaryAddsUp`, `ResultsAreKept` | each of 26 scripts, 2 runs, 2 attacks, 1 benign source, 1 place, 2 faults, of which one may be a thing that is wrong from the start |

Why the bounds are enough. Two requests give every pairwise race on a case, and the lock admits one
operation, so a third request adds another waiter or another `DELETE`, which is idempotent. Two files are what it
takes to be half way through an upload, deletion or `rmtree`. Two timestamps tell a replica from its
successor. Four files let each phase of `encrypt_tree` have files in front of and behind the failing one, and a leftover
besides. Two processes are needed for a lost update, a third caller only queues; two damages for a
name collision; two cases and two seconds for a prune that keeps one and drops one. `MaxClock`,
`MaxTime` and the set `Damages` are the only bounds on counters of the first four components; the proofs have none on cases, requests, files, processes or workers.

Rules: two spellings of one identifier need two drafts; a stale approval needs a second version; a rollback to
something that can no longer run needs two activations, and a history of two is the shortest that forgets one. SCIM:
groups in groups with users in them are the least on which a circle, an inherited assignment and a removal in
the middle differ from a flat directory; Bulk lists contain references forwards, backwards and in a circle.
Analysis: five events are what a lifetime of a session with an effect, its logoff and a second lifetime take; six give
two commands and the evidence of both; chunks of two put a process and its parent apart. Two failures let
the clean-up after the first fail, or the second request meet what the first has left. Holdout: two members give one
that is committed and one in work; the archives are one without repeated identities, one with the same row twice, one
with two texts for one identity, and an empty selection; two kills let a recovery be killed as well. One-pass: two runs race for a lock and meet a lock left by
a killed one; two attacks give a row before and behind the failing one; two faults let a file change
and be put right again, or a handler fail. In the run both use one place, the only one in which they could write the
same file; the proof has any number of places.

`index` has one organization, so both callers see all rows; that no organization changes the rows of another is part
of `ImplementsRegistry`, whose proof has any number of them. Its symmetry exchanges the two callers
together with their processes, which differ by nothing else.

`archive_orphans` leaves S3 failures and process deaths out, because with them the code does leave
objects behind: `replicate_case` ignores failing deletes in its rollback, and a process that dies during an upload has
recorded nothing about it. It also leaves out `forget`, which is a request to keep the objects and drop the record.

Fairness. `archive_orphans`: weak fairness of each request's steps, which says that a thread is scheduled and each
call it makes returns or raises (boto3 and the file system time out or answer). `LockIsReleased` excepts a
concurrent `DELETE /cases/{id}`: the index lock makes no promise of turns, so a stream of failing
deletions may keep an operation waiting. `pool_enough`: weak fairness of `Grant` (anyio's limiter queues first come,
first served) and of each request's steps. `scim`: weak fairness of each client's steps: threads and
replicas go on, and as the requests are finitely many, whoever waits for the lock finds it free in the end. `holdout`: weak fairness of the steps of a run, and strong fairness of
beginning each tool, because an operator runs them again until they are through; kills and faults are
bounded, never prevented. A run of the sliced tool reads at least one row or sees the end of the file before its
time is up. `rules`, `analysis` and `one_pass` check safety only.

## Proofs

| Module | Theorem | States |
|---|---|---|
| `CaseArchiveProofs` | `ArchiveInvariant`, `ManifestGoesLast` | `Spec => []ArchiveInv`, `Spec => []ManifestLast` |
| | `NoCopyIsLost` | `Spec => KeepsACopy`, for a case that has files |
| | `EndpointsTellTheTruth` | `Spec => SuccessIsTrue` |
| | `NothingIsOrphaned` | `Spec => []NoOrphans`, without S3 failures, process deaths and requests to forget a replica |
| `CaseIndexProofs` | `IndexInvariant`, `NoDamageIsLost` | `[]IndexInv`, `[]DamageIsKept` |
| | `IndexImplementsRegistry` | `Spec => ImplementsRegistry`: the file implements the abstract registry |
| | `RowsOutliveFiles`, `PruneSparesNewest` | `Spec => FilesGoFirst`, `Spec => PruneKeepsNewest` |
| `ServerProofs` | `EncryptionInvariant`, `NoArtifactIsLost`, `ReportsAreTrue` | `EncryptionSpec => []EncryptionInv`, `[]EvidenceKept`, `[]OutcomeIsTrue` |
| | `PoolInvariant`, `EnoughWorkersNeverStuck` | `Spec => []PoolInv` (`CaseLockPool`); `[]NobodyIsStuck` if there is a worker for each locker |
| `RuleLifecycleProofs` | `RuleInvariant` | `[]RuleInv` |
| | `OnlyReviewedRulesRun`, `OneOwner`, `NoManifestStopsAnalyses`, `PublishIsRepeatable` | `[]RunsReviewedRules`, `[]OneDraftPerId`, `[]HistoryRuns`, `[]RetryIsPossible` |
| | `NothingUnseenIsReplaced` | `Spec => CommitsWhatWasSeen` |
| `ScimDirectoryProofs` | `DirectoryInvariant`, `OneIdentity`, `ListsAreAnswered` | `[]DirectoryInv`, `[]IdentityIsUnambiguous`, `[]BulkAnswers` |
| | `SessionsAreChecked`, `NoUpdateIsLost` | `Spec => SessionsFollowTheDirectory`, `Spec => NoLostUpdates` |
| `AnalysisServiceProofs` | `ServiceInvariant`, `AnalysisInvariant` | `[]ServiceInv`, `[]AnalysisInv` |
| | `FindingsInvariant`, `EvidenceInvariant`, `EncryptionInvariant` | `[]FindingsAreSequential`, `[]EvidenceIsKept`, `[]NothingStaysPlain` |
| | `ChainsInvariant`, `ScenariosInvariant` | `[]ChainsAreComplete`, `[]ScenariosStayInScope` |
| `OnePassProofs` | `LocksArePermanent`, `ResultsStay` | `[]OneRunPerLock`; `Spec => ResultsAreKept` |
| | `OnePassInvariant`, `CompletedSoundly`, `SummariesAddUp` | `[]OnePassInv`, `[]CompletedIsSound`, `[]SummaryAddsUp`, for scripts whose text is careful |
| `HoldoutMergeProofs` | `MergeInvariant` | `[]MergeInv` |
| | `MergeSoundly`, `OutputsAreExact` | `[]MergeIsSound`, `[]OutputIsExact` |

Assumptions are those of the modules: distinct sentinels, finite sets where something is counted, `Faults`/`Requests`
within the known kinds, and inputs the program can be given (`ServiceAssumption`, `RequestsAssumption`,
`InitialAssumption`, `MembersAssumption`). `CorrelationAssumption` says of the rules of correlation what
`_get_default_correlation_rules` (`correlator.py`) gives: finitely many, one per type, each asking for the same host, none
called like the chains of sessions, activities or remote commands; the analysis uses no others (`pipeline.py`).
`ScenarioAssumption` keeps names for the scenarios of remote commands and of single chains, whose identifiers the code makes
in forms of their own, and gives no two templates one id. TLC evaluates them in the runs. The hypotheses of a single theorem are named with it below.
No proof bounds the number of cases, requests, clients, files, processes, events, scripts, members, rows or kills.

* **Archive.** `ManifestLast` is not inductive: while `RemoveObject` works through the manifest's files, one must
  know that every object still present is in `todo`, that the metadata in the row is the manifest being deleted, and
  that nobody else is writing. `Serialized` says exactly that: only the lock's holder is at a step under the lock,
  and what it has read of the row stays true meanwhile (`OthersStaySerialized` covers the requests that do not
  move). `WorkInv`, inductive given `LockInv`, adds what a request has achieved: past the download the bucket has
  the complete replica it read, a directory under deletion belongs to a case without a replica, and the local
  directory has no file that the recorded replica lacks. So whoever removes one copy holds another (`NoCopyIsLost`;
  without files there is nothing to lose, hence `Files # {}`) and each success is true when it is given. `NoOrphans`
  needs one more invariant, `BucketIsAccounted`: what is in the bucket is recorded, or is being written by a request
  that knows of it. Its three hypotheses are the cases in which the code does leave objects behind (see *Runs*).
* **Encryption.** One conjunct per phase: phase one has touched no source; in phase two every file of the batch is a
  complete ciphertext; the rollback may drop ciphertexts only once all plaintexts are back.
* **Index.** `Excluded` (both locks) and `Pending`: what a caller is about to write is one `Change` of its
  organization applied to the rows *as they are in the file now*. The second needs the first — another writer would
  make it false — and with it each `Write` is a step of `CaseRegistry`, every other step leaves the rows alone, and
  a quarantine or damage is `Lose` or a stutter. `CareInv` rests on that: past the decision the rows to drop are
  those in the file, their directories are gone, and a newest set is spared (`FilesGoFirst`, `PruneKeepsNewest`).
  Damages are kept because files set aside are told apart, so that with as many names as damages one is always free
  (`Quarantined`, and the pigeonhole principle on finite sets).
* **Pool.** If no request can step, every worker belongs to a waiter for a lock, whose holder waits for a worker. So
  holder and waiters together exceed the pool: impossible when there are at least as many workers as requests that
  may lock. The invariant ties queue, workers and locks to the `pc`s.
* **Rules.** No property of the rules is inductive, since each relates two stores that are written one after the
  other. `RuleInv` has a part per relation: approvals belong to the version a draft has (`DraftsAreTrue`), what a
  user read at the current version is what is there (`ReadingsAreTrue`), an untouched file holds its publication
  (`FilesAreTrue`), a version is published with the rule it has (`PublicationsAreTrue`), the checks of `publish`
  hold until its second write (`WriterIsCurrent`), and everything in the manifest, its history or an activation
  under way is published, under one identifier each (`ManifestIsTrue`). With it the others follow state by state,
  but for `OneDraftPerId`, which is proved by induction beside it.
* **SCIM.** `JobsInv` says two things of each request. What it is about to save is what its operation, still
  acceptable, makes of the rows *as they are*, and it alone holds the lock (`Prepared`); `NoLostUpdates` is a
  consequence. And each operation of its list is done, failed, to do in this pass or left for a later one; what is
  done refers to what was done, and what a pass without progress left to what is not (`Listed`); `BulkAnswers` is a
  consequence. `DirectoryIsSound` (no circle of groups, members exist, names and subjects differ) is shown operation
  by operation on the rows. The search of the groups around a user goes by rounds; in place of an induction over
  them the proofs take the *least* number of rounds that fails, which a set of numbers has (`RoundsExist`), and as
  each round but the last adds a group, a finite directory is closed after as many rounds as it has groups.
  `OneIdentity` says so without rounds (`GroupsAround`).
* **Analysis.** `InOrder` (the sorting of events) is a choice among bijections; `InOrderSorts` proves by ranks that
  there is one that sorts. `FindingsAreSequential` needs that after some chunks the findings are exactly those of
  their events (`Evaluation`, with the parents fixed before the chunks). `EvidenceIsKept` needs most of
  `ServiceInv`: where each request is and which upload it is at (`Control`); that no two files share a name and a
  name in use is taken (`Disk`), so that a clean-up removes its own files only; that these stay while it may have to
  (`Present`); that uploads received so far are stored as far as they have come, plain until they are sealed
  (`Kept`), and are read but for what was skipped (`AllRead`); and which cases exist and why (`History`). TLC has
  checked `ServiceInv` on workloads of two requests in one directory. `Kept` holds of the directories from which nothing was removed
  (`removed`), which a failing clean-up or deletion can do. `NothingStaysPlain` is shown beside it by `SealedTight`: from
  sealing on, a request that has a directory to itself has no plain file in it, because nobody else writes there and
  what is removed in part is removed before sealing.

  `ChainsAreComplete` compares two accounts of the same chains: what the correlator does with positions, searches and
  passes over a list, and what its property says of events and times. `Correlated` is the state invariant: the report
  about to be written has the chains of the events read and of finitely many findings, and the scenarios of these. The
  rest is about every time line.
  Each kind of chain is first described by the positions it holds. A window of a rule or an activity lies between two
  bisections, which on a sorted list hold exactly the times in it. A lifetime of a session is cut
  out by one pass over its logons and logoffs, a stretch of activity by another; each pass is a recursive function that
  is shown to exist (`PassExists`: among the lists on which it would not, there is a shortest), and what it has
  kept up to a place is shown of all places by the least one at which it would fail. The evidence of a remote command
  is bounded by its first and its marking effect, which are least elements. `OneIsKept` is the removal of duplicates:
  among the chains that are the same exactly one stays, the one that goes before all the others. From that follow
  `RuleChainsComplete`, `SessionChainsComplete`, `ActivityChainsComplete` and `RemoteChainsComplete`, and `KeptAre`
  joins them.

  `ScenariosStayInScope` follows from `Correlated` as well. The heart of it is the partition that the code makes pair by
  pair: `JoinedIs` says that joining two related parts leaves a partition whose parts are each `Bound`, that is, have no
  proper part closed under the relation, and `GroupsAre` takes that through the fold over all pairs; the fold is a recursive
  function, which `FoldExists` shows to exist, and `FoldKeeps` takes the least number of pairs at which it would go wrong.
  Groups, and lifetimes with what joins them, together are a partition of the chains of one host
  (`ComponentsPartition`). As each such chain is of one host (`ScopesAreLocal`) and related chains share one, so
  does a component (`ComponentsAreLocal`); where all chains name accounts, the relation is one of accounts and sessions
  (`OnlyBoundByTies`). A template's scenario has what `Meets` asks of it by definition; that it is told whenever the
  events of a component show all it requires needs that findings of a component's own events support it, which its
  accounts, or the lifetime, bring about. Scenarios across two hosts partition the chains that count: an episode begins at the last
  beginning before each of its chains, which is unique (`LastBegins`, `LastBeginsOnce`, `EpisodesPartition`), and what
  counts is exactly what severe findings show at both ends (`SharedIs`).
* **One-pass scripts.** `LocksArePermanent` and `ResultsStay` are about *any* programs that satisfy
  `OnePassAssumption`: a script that has a lock claims it once, outside of any `try`, before every step that writes
  and every handler. `LockIsOwned` is inductive: whoever is past the claim made the lock file, and a result belongs
  to a run that is past its claim and uses that place. An exception never takes a run past the claim, because none
  of the steps before it is in a `try` (`RaiseMoves`); every step has one of two effects on locks and one of two on
  results (`StepEffect`), which reduces the induction to those. A second writer of a result would hold the same
  lock, so it is the first one. The other three assume of each script that it is `Careful`, which is a condition on
  its *text*, not on its runs: a failure behind the first write is handled, but for a `take` outside of any `try`
  (`FailsSafely`); all that was taken is compared before `completed` is published, on every way there
  (`RestsOnChecks`); an item is counted once, on every way through its `try` (`CountsOnce`). TLC evaluates it for
  each of the 26 scripts (`TextIsCareful`). `WayInv` then says of each run what it owes to the steps it cannot have
  jumped over, and that its result says what it knows.
* **Holdout.** Neither property is inductive: between the commit of the identities and that of the state the table
  has rows that nobody counts, partial files are longer than counted, and a result exists before the state says so.
  `MergeInv` has three parts. `MembersInv`: a marker of this job is what the archive says whatever became of the files
  (`MarkersAreTrue`), slices hold the rows in the window up to where they have read (`SlicesAreTrue`), and what a run
  wrote before its marker is what that will name. `DurableIsTrue` is what outlives a kill: the count is the number of
  identities of the members merged, the committed part of the table is theirs (`SeenUpTo`), each partial file *begins*
  with their lines, a result is exact and there only when the last member is merged. `WorkInv` says what a run knows at
  each stage, for instance that behind recovery the partial files are exactly those lines, that what is still to be
  appended completes the lines of the next member, and that the rows up to there are not ambiguous. A kill forgets
  `WorkInv` and keeps the rest (`CrashKeeps`); recovery earns it again by cutting back (`RecoverKeeps`,
  `ForgetKeeps`). The corpus of the strict merge is the exception in both: it is copied before it is
  compared with its marker, so `Adding` says what the file at hand makes of it. A `Damage` touches neither, because
  the merge believes no file that it has not compared. The lemmas before that are about what the program computes:
  `Places` of a set in order, joined sequences, `Firsts` and `Lines` of the rows of one more member
  (`FirstsGrow`, `LinesGrow`, `TransformedIdent`), and the whole merge as lines of the joined rows. `FlattenSeq` is
  recursive; its lemmas take the *least* place at which two joined sequences differ. TLC has checked each part of
  `MergeInv` on the run `holdout`, and the theorems hold for any number of members, rows, workers, kills and faults.

Only model-checked: liveness (`LockIsReleased`, `RequestsAreServed`, `RequestsEnd`, `MergeCompletes`), which is out of the
prover's reach. Every other property of the passing runs is a theorem.

## What the models found

* `pool_exhausted`: waiters for a case lock occupy workers; with as many waiters as workers (40 by
  default) `reanalyze` never gets the worker it needs under the lock, and the server's synchronous endpoints stop.
* `archive_stuck_overwrite`: nothing removes a `.restore-backup` that outlived its restore.

Observed while modelling; each is in the model, and the properties are stated so that they hold with it:

* Templates: `scenario.py:110` gives the technique that was found and the one that is required to a function that takes
  them in the other order (`scenario.py:735`). A template that requires T1059.001 is met by T1059, and one that requires
  T1059 is not met by T1059.001, contrary to the comment at `scenario.py:720-726` and to
  `tests/test_attack_technique_matching.py`, which calls the function the right way round. `Meets` is the code's reading, and
  `ScenariosStayInScope` says what a scenario then has; stated as the comment has it, TLC refutes it.
* A removal of the work directory after a successful analysis that fails half way (`analysis_service.py:100`) leaves a
  case without its report or without evidence; the request seals and registers the rest and answers success. The test of
  that path (`tests/test_success_analysis_cleanup.py:209`) says that the case is preserved, and lets the removal fail before
  it has removed anything. `removed` marks these directories, and `EvidenceIsKept` excepts them.
* verify: `ArtifactEncryptionError` is no `ObjectStorageError`, so the endpoint neither answers 503 nor writes the
  audit record that `docs/API_DOCUMENTATION.md` promises (`CaseArchive`, the replies of `Authenticate`).
* SCIM on JSON files: removing a user that is cut off between the two files leaves a group with a member that
  is gone, and from then on every request that touches the group is an error (`scim_groups.py:280`).
* Encryption of a directory that two requests share seals the half-received upload of the other one, whose rest goes
  to a file nobody has a name for; and a second analysis of a directory always fails on the first one's
  `report.*.enc`, keeping its report in plaintext although the answer says that results were not retained
  (`analyze.py:133`).
* A request with `.evtx` and `.jsonl` uploads that converts reads only the converted logs (`analysis_service.py:254`);
  one that shares a directory reads the others' uploads as well. Files that cannot be read to their end are named in
  the log only (`collector.py:175`; those of a failing conversion, `ingest.py:113`, not even there); the answer does
  not tell that the analysis is of a part of the evidence.
* A case can be deleted while another analysis uses its directory. A re-analysis whose report cannot be read
  raises after the directory was retained, and leaves it without a row; a failed registration is only a warning
  otherwise.
* Remote episodes compare a chain with the end of the chain before it, not with the latest end so far
  (`scenario.py:636`); they compare ids of chains as text, so `10` comes before `9`.
* The dedupe merge killed between a final name and its state can never go on: `_recover` misses the partial file.
  The strict merge has code for that case, completes, and then ends the run with an unhandled `FileNotFoundError` on
  the partial file it has just renamed; the next run reports success. The whole merge killed between its two names
  refuses for ever. The sliced tool killed while writing a slice refuses for ever, and a member whose old marker does
  not count any more can be read in slices but not be finalized. `Stuck` in `HoldoutMerge` names these states;
  `MergeCompletes` says there are no others.

* One-pass scripts, before P2-35E: the lock lies in the output directory (P2-28, 29B, 30, 30B, 33, 34, 35C, 35D), so a
  second pass with another directory is not stopped; P2-14E has no lock and overwrites an earlier result.
  P2-17C and P2-21 import the product outside of any `try`: if that fails, the result says `started` for ever
  (excepted in `FailureIsRecorded`). P2-35J and P2-35K count a row twice if writing it fails (excepted in
  `SummaryAddsUp`). Where the final line on the screen is inside the `try`, a failing `print` turns a completed
  result into a failed one (P2-24B and later). P2-35C to P2-35E hash the archive before they take the timing member
  from it, and do not compare what they took; P2-34 hashes the names and sizes of its extracted corpus only; `contract_sha256` is computed
  after the contract was read. These are the things that `CompletedIsSound` covers only as far as the script
  checks them (`checked`). A permanent lock is consumed by a run that is killed or fails before its first write.

## Not modelled, and why

* Several server processes with one bucket: the case lock is local to a process, and the deployment runs one.
* `reanalyze` in `CaseArchive`: it only reads the replica; its waiting is in `CaseLockPool`, its new case
  in `AnalysisService`.
* The internal thread use of `UploadFile` and `FileResponse`, and `asyncio.to_thread` in `auth.py`, which has
  a pool of its own. The requests of `CaseArchive` run in threads, those of `AnalysisService` on the event loop.
* The audit log, the login rate limit, backups, rule tuning profiles, the listing of SCIM resources and the migration
  between SCIM stores: stateful, and the first of what could be modelled next.
* Matching inside one event (regular expressions, fields), the Sigma and Hayabusa adapters, conversion of EVTX files,
  the normalization of one record: conversions of data without order or state; the models take their results as given.
* In the one-pass scripts: preflight and worker modes as commands of their own, the parsing and scoring of one record,
  alignment and timing arithmetic, which enter as results.
* Authentication, RBAC, status pages, artifact readers, reporting, templates, release and other evaluation tools:
  stateless checks, formatting or sequential command-line wrappers. Labels and scores of the holdout are computed in
  one pass.

## Plan

1. (done) encryption, case index with its abstract registry, archive, worker pool; their invariants and the refinement.
2. (done) rules, SCIM, the engine, the analysis service, holdout normalization and merge, the one-pass scripts and
   the permanence of their locks and results.
3. (done) the invariants of `RuleLifecycle`, `ScimDirectory`, `AnalysisService` and `OnePass`, what follows from them, and the
   action properties of archive and index.
4. (done) the invariant of `HoldoutMerge` and with it `MergeIsSound` and `OutputIsExact`; `ChainsAreComplete` and
   `ScenariosStayInScope` for any events and chains.
5. Next: rule tuning in `RuleLifecycle`; the migration of a SCIM directory
   beside running requests; backups beside the index; the audit chain; the ciphertext container.
