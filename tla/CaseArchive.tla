---------------------------- MODULE CaseArchive ----------------------------
(***************************************************************************)
(* The life of one retained case between its local directory and the       *)
(* S3-compatible bucket: api/routers/cases.py (the object-storage          *)
(* endpoints and DELETE /cases/{id}), api/services/object_storage.py and   *)
(* the methods of api/services/case_history.py they call.                  *)
(*                                                                         *)
(* Requests run in one server process.  The object-storage operations of a *)
(* case exclude one another with the per-case lock of the router; DELETE   *)
(* /cases/{id} does not take it.  Every call into the case index holds the *)
(* index lock for its whole length.  Between two steps of a request any    *)
(* other request may run, and the process may die (Restart).               *)
(*                                                                         *)
(* A file is a model value: ciphertexts never change once written.  A      *)
(* manifest is the pair of its timestamp and its files, and stands for its *)
(* SHA-256 as well.                                                        *)
(***************************************************************************)
EXTENDS Naturals

CONSTANTS
    Files,      \* the encrypted artifacts of the case
    Reqs,       \* concurrent requests
    NoReq,      \* owner of a free lock
    NoFile,     \* no file: NoDir is the directory that does not exist
    NoReplica,  \* no replica metadata, no manifest object
    Requests,   \* the operations clients ask for
    Faults,     \* kinds of failure that may happen
    MaxClock    \* bound on the seconds of replicated_at

LockedOps == {"replicate", "verify", "archive", "restore", "overwrite",
              "delete", "forget"}
DeleteOps == {"delete_case", "delete_row"}     \* remove_files true, false
Ops       == LockedOps \cup DeleteOps

ASSUME ConstantsAssumption ==
    /\ NoReq \notin Reqs
    /\ NoFile \notin Files
    /\ NoReplica \notin [at : 0..MaxClock, files : SUBSET Files]
    /\ Requests \subseteq Ops
    /\ Faults \subseteq {"s3", "fs", "index", "restart", "key"}
    /\ MaxClock \in Nat

NoDir == {NoFile}

VARIABLES
    indexed,    \* the case has a row in the index
    recorded,   \* the row's object_storage metadata
    local,      \* files in the case's work_dir
    backup,     \* files in <work_dir>.restore-backup
    objects,    \* case files present in the bucket
    manifest,   \* the case_manifest.json object in the bucket
    caseLock,   \* holder of the router's lock for this case
    idxLock,    \* holder of the index lock over several steps
    pc, op,     \* where each request is, and what it does
    snap,       \* the manifest a request works on
    todo,       \* the files a request still has to handle
    reply,      \* the last answer of a request
    key,        \* BS_ARTIFACT_ENCRYPTION_KEY: none, the case's, another
    clock       \* wall clock, in seconds

rowVars    == <<indexed, recorded>>
diskVars   == <<local, backup>>
bucketVars == <<objects, manifest>>
envVars    == <<key, clock>>
vars == <<rowVars, diskVars, bucketVars, caseLock, idxLock,
          pc, op, snap, todo, reply, envVars>>

Manifests == [at : 0..MaxClock, files : SUBSET Files]
Replicas  == Manifests \cup {NoReplica}
Dirs      == (SUBSET Files) \cup {NoDir}
Keys      == {"right", "wrong", "none"}

Labels    == {"idle", "lock", "get_case", "list", "upload", "rollback",
              "record", "load", "download", "archive", "rmtree", "swap",
              "install", "reinstall", "drop_backup", "mark", "remove",
              "clear", "delete_case", "drop_row"}
Replies   == [status : {"none", "ok", "404", "409", "500", "503"},
              audit  : {"none", "success", "failure"}]
NoReply   == [status |-> "none", audit |-> "none"]

TypeOK ==
    /\ indexed \in BOOLEAN
    /\ recorded \in Replicas
    /\ local \in Dirs
    /\ backup \in Dirs
    /\ objects \in SUBSET Files
    /\ manifest \in Replicas
    /\ caseLock \in Reqs \cup {NoReq}
    /\ idxLock \in Reqs \cup {NoReq}
    /\ pc \in [Reqs -> Labels]
    /\ op \in [Reqs -> Ops]
    /\ snap \in [Reqs -> Replicas]
    /\ todo \in [Reqs -> SUBSET Files]
    /\ reply \in [Reqs -> Replies]
    /\ key \in Keys
    /\ clock \in 0..MaxClock

\* A case just analysed with encryption on: retained, registered, local only.
Init ==
    /\ indexed = TRUE
    /\ recorded = NoReplica
    /\ local = Files
    /\ backup = NoDir
    /\ objects = {}
    /\ manifest = NoReplica
    /\ caseLock = NoReq
    /\ idxLock = NoReq
    /\ pc = [r \in Reqs |-> "idle"]
    /\ op = [r \in Reqs |-> "verify"]
    /\ snap = [r \in Reqs |-> NoReplica]
    /\ todo = [r \in Reqs |-> {}]
    /\ reply = [r \in Reqs |-> NoReply]
    /\ key = "right"
    /\ clock = 0

-----------------------------------------------------------------------------
(* How a step of request r ends.                                           *)

Goto(r, label) ==
    /\ pc' = [pc EXCEPT ![r] = label]
    /\ UNCHANGED <<caseLock, op, reply>>

\* Work on manifest m, with files fs still to handle.
Working(r, m, fs) ==
    /\ snap' = [snap EXCEPT ![r] = m]
    /\ todo' = [todo EXCEPT ![r] = fs]

Keeping(r) == UNCHANGED <<snap, todo>>

\* The handler returns or raises: the wrapper's finally releases the lock.
Answer(r, status, audit) ==
    /\ pc' = [pc EXCEPT ![r] = "idle"]
    /\ reply' = [reply EXCEPT ![r] = [status |-> status, audit |-> audit]]
    /\ caseLock' = IF caseLock = r THEN NoReq ELSE caseLock
    /\ Working(r, NoReplica, {})
    /\ UNCHANGED op

Done(r)        == Answer(r, "ok", "success")
Fails(r, code) == Answer(r, code, "failure")    \* caught, audited
Raises(r)      == Answer(r, "500", "none")      \* no handler catches it

IndexFree == idxLock = NoReq
Nonempty(dir) == dir \notin {NoDir, {}}
Undoing(r) == op[r] = "replicate"   \* delete_replica called as a rollback

-----------------------------------------------------------------------------
(* Requests, the per-case lock and the guards on the row that was read.    *)

Submit(r) ==
    /\ pc[r] = "idle"
    /\ \E o \in Requests :
          /\ op' = [op EXCEPT ![r] = o]
          /\ pc' = [pc EXCEPT ![r] = IF o \in DeleteOps THEN "delete_case"
                                                        ELSE "lock"]
    /\ reply' = [reply EXCEPT ![r] = NoReply]
    /\ UNCHANGED <<rowVars, diskVars, bucketVars, caseLock, idxLock,
                   snap, todo, envVars>>

\* Mutant of Lock: the endpoints are not serialized.
LockShared(r) ==
    /\ pc[r] = "lock"
    /\ caseLock' = r
    /\ pc' = [pc EXCEPT ![r] = "get_case"]
    /\ UNCHANGED <<rowVars, diskVars, bucketVars, idxLock,
                   op, snap, todo, reply, envVars>>

Lock(r) ==
    /\ pc[r] = "lock"
    /\ caseLock = NoReq
    /\ caseLock' = r
    /\ pc' = [pc EXCEPT ![r] = "get_case"]
    /\ UNCHANGED <<rowVars, diskVars, bucketVars, idxLock,
                   op, snap, todo, reply, envVars>>

\* The 404 and 409 answers of each endpoint, before it does anything.
Conflict(o) ==
    \/ o = "replicate" /\ (local = NoDir \/ recorded # NoReplica)
    \/ o \in {"verify", "archive", "restore", "overwrite"}
         /\ recorded = NoReplica
    \/ o = "archive" /\ local = NoDir
    \/ o = "restore" /\ Nonempty(local)
Missing(o) ==
    \/ ~indexed
    \/ o \in {"delete", "forget"} /\ recorded = NoReplica

\* Mutant of FirstStep: archive does not verify the replica first.
FirstStepUnverified(o) == CASE o = "replicate" -> "list"
                            [] o = "forget"    -> "clear"
                            [] o = "archive"   -> "archive"
                            [] OTHER           -> "load"

FirstStep(o) == CASE o = "replicate" -> "list"
                  [] o = "forget"    -> "clear"
                  [] OTHER           -> "load"

GetCase(r) ==
    /\ pc[r] = "get_case"
    /\ IndexFree
    /\ \/ Missing(op[r]) /\ Answer(r, "404", "none")
       \/ ~Missing(op[r]) /\ Conflict(op[r]) /\ Answer(r, "409", "none")
       \/ /\ ~Missing(op[r]) /\ ~Conflict(op[r])
          /\ Goto(r, FirstStep(op[r]))
          /\ Working(r, recorded, {})
    /\ UNCHANGED <<rowVars, diskVars, bucketVars, idxLock, envVars>>

-----------------------------------------------------------------------------
(* ObjectStorageService.replicate_case and the recording of its result.    *)

List(r) ==
    /\ pc[r] = "list"
    /\ \/ local = NoDir /\ Raises(r)
       \/ local # NoDir /\ (key = "none" \/ local = {}) /\ Fails(r, "503")
       \/ /\ local # NoDir /\ key # "none" /\ local # {}
          /\ Goto(r, "upload")
          /\ Working(r, [at |-> 0, files |-> local], local)
    /\ UNCHANGED <<rowVars, diskVars, bucketVars, idxLock, envVars>>

\* Mutant of Upload: the directory is listed again for every file.
UploadRelisted(r) ==
    /\ pc[r] = "upload"
    /\ \E f \in todo[r] \cup local :
          /\ objects' = objects \cup {f}
          /\ Working(r, snap[r], todo[r] \ {f})
    /\ Goto(r, "upload")
    /\ UNCHANGED <<rowVars, diskVars, manifest, idxLock, envVars>>

Upload(r) ==
    /\ pc[r] = "upload"
    /\ \E f \in todo[r] \cap local :
          /\ objects' = objects \cup {f}
          /\ Working(r, snap[r], todo[r] \ {f})
    /\ Goto(r, "upload")
    /\ UNCHANGED <<rowVars, diskVars, manifest, idxLock, envVars>>

\* The upload raises; the object may have been written all the same.
UploadFails(r) ==
    /\ pc[r] = "upload"
    /\ \E f \in todo[r] :
          \/ f \notin local /\ UNCHANGED objects
          \/ "s3" \in Faults /\ objects' \in {objects, objects \cup {f}}
    /\ Goto(r, "rollback")
    /\ Working(r, snap[r], snap[r].files \ todo[r])
    /\ UNCHANGED <<rowVars, diskVars, manifest, idxLock, envVars>>

PutManifest(r) ==
    /\ pc[r] = "upload"
    /\ todo[r] = {}
    /\ LET m == [snap[r] EXCEPT !.at = clock] IN
       \/ /\ manifest' = m
          /\ Goto(r, "record")
          /\ Working(r, m, {})
       \/ /\ "s3" \in Faults
          /\ manifest' \in {manifest, m}
          /\ Goto(r, "rollback")
          /\ Working(r, snap[r], snap[r].files)
    /\ UNCHANGED <<rowVars, diskVars, objects, idxLock, envVars>>

\* Best effort: a delete that fails is ignored.
Rollback(r) ==
    /\ pc[r] = "rollback"
    /\ \E f \in todo[r] :
          /\ \/ objects' = objects \ {f}
             \/ "s3" \in Faults /\ UNCHANGED objects
          /\ Working(r, snap[r], todo[r] \ {f})
    /\ Goto(r, "rollback")
    /\ UNCHANGED <<rowVars, diskVars, manifest, idxLock, envVars>>

RollbackDone(r) ==
    /\ pc[r] = "rollback"
    /\ todo[r] = {}
    /\ Fails(r, "503")
    /\ UNCHANGED <<rowVars, diskVars, bucketVars, idxLock, envVars>>

\* Mutant of Record: the replica is left behind when the row is gone.
RecordNoUndo(r) ==
    /\ pc[r] = "record"
    /\ IndexFree
    /\ \/ indexed /\ recorded' = snap[r] /\ Done(r)
       \/ /\ ~indexed \/ "index" \in Faults
          /\ Fails(r, "500") /\ UNCHANGED recorded
    /\ UNCHANGED <<indexed, diskVars, bucketVars, idxLock, envVars>>

Record(r) ==
    /\ pc[r] = "record"
    /\ IndexFree
    /\ \/ indexed /\ recorded' = snap[r] /\ Done(r)
       \/ /\ ~indexed \/ "index" \in Faults
          /\ Goto(r, "load") /\ Keeping(r) /\ UNCHANGED recorded
    /\ UNCHANGED <<indexed, diskVars, bucketVars, idxLock, envVars>>

-----------------------------------------------------------------------------
(* restore_case, which verify and archive run against a probe directory,   *)
(* and delete_replica: both begin by loading the recorded manifest.        *)

NeedsKey(r) == op[r] \in {"verify", "archive", "restore", "overwrite"}

LoadManifest(r) ==
    /\ pc[r] = "load"
    /\ \/ /\ manifest = snap[r]
          /\ NeedsKey(r) => key # "none"
          /\ op[r] = "restore" => ~Nonempty(local)
          /\ Goto(r, IF NeedsKey(r) THEN "download" ELSE "remove")
          /\ Working(r, snap[r], snap[r].files)
       \/ /\ \/ manifest # snap[r]
             \/ "s3" \in Faults
             \/ NeedsKey(r) /\ key = "none"
             \/ op[r] = "restore" /\ Nonempty(local)
          /\ Fails(r, IF Undoing(r) THEN "500" ELSE "503")
    /\ UNCHANGED <<rowVars, diskVars, bucketVars, idxLock, envVars>>

Download(r) ==
    /\ pc[r] = "download"
    /\ \E f \in todo[r] :
          \/ /\ f \in objects
             /\ Goto(r, "download")
             /\ Working(r, snap[r], todo[r] \ {f})
          \/ (f \notin objects \/ "s3" \in Faults) /\ Fails(r, "503")
    /\ UNCHANGED <<rowVars, diskVars, bucketVars, idxLock, envVars>>

\* verify_artifact: with another key AES-GCM raises ArtifactEncryptionError,
\* which is no ObjectStorageError.
Authenticate(r) ==
    /\ pc[r] = "download"
    /\ todo[r] = {}
    /\ \/ key # "right" /\ Raises(r)
       \/ key = "right" /\ op[r] = "verify" /\ Done(r)
       \/ /\ key = "right" /\ op[r] # "verify"
          /\ Goto(r, IF op[r] = "archive" THEN "archive" ELSE "swap")
          /\ Keeping(r)
    /\ UNCHANGED <<rowVars, diskVars, bucketVars, idxLock, envVars>>

Swap(r) ==
    /\ pc[r] = "swap"
    /\ \/ /\ Nonempty(local) /\ backup # NoDir
          /\ Fails(r, "503")
          /\ UNCHANGED diskVars
       \/ /\ Nonempty(local) /\ backup = NoDir
          /\ backup' = local /\ local' = NoDir
          /\ Goto(r, "reinstall") /\ Keeping(r)
       \/ /\ ~Nonempty(local)
          /\ local' = NoDir /\ UNCHANGED backup
          /\ Goto(r, "install") /\ Keeping(r)
       \/ /\ "fs" \in Faults
          /\ Raises(r)
          /\ UNCHANGED diskVars
    /\ UNCHANGED <<rowVars, bucketVars, idxLock, envVars>>

\* Mutant of Install: a failure starts the download again, without a limit.
InstallRetrying(r) ==
    /\ pc[r] \in {"install", "reinstall"}
    /\ \/ /\ local' = snap[r].files /\ UNCHANGED backup
          /\ Goto(r, IF pc[r] = "install" THEN "mark" ELSE "drop_backup")
          /\ Keeping(r)
       \/ /\ "fs" \in Faults
          /\ IF pc[r] = "reinstall" THEN local' = backup /\ backup' = NoDir
                                    ELSE UNCHANGED diskVars
          /\ Goto(r, "download") /\ Working(r, snap[r], snap[r].files)
    /\ UNCHANGED <<rowVars, bucketVars, idxLock, envVars>>

Install(r) ==
    /\ pc[r] \in {"install", "reinstall"}
    /\ \/ /\ local' = snap[r].files /\ UNCHANGED backup
          /\ Goto(r, IF pc[r] = "install" THEN "mark" ELSE "drop_backup")
          /\ Keeping(r)
       \/ /\ "fs" \in Faults
          /\ \/ pc[r] = "reinstall" /\ local' = backup /\ backup' = NoDir
             \/ UNCHANGED diskVars     \* putting the backup back may fail too
          /\ Raises(r)
    /\ UNCHANGED <<rowVars, bucketVars, idxLock, envVars>>

DropBackup(r) ==
    /\ pc[r] = "drop_backup"
    /\ \/ /\ \E f \in backup : backup' = backup \ {f}
          /\ Goto(r, "drop_backup") /\ Keeping(r)
       \/ /\ backup = {} /\ backup' = NoDir
          /\ Goto(r, "mark") /\ Keeping(r)
       \/ "fs" \in Faults /\ Raises(r) /\ UNCHANGED backup
    /\ UNCHANGED <<rowVars, local, bucketVars, idxLock, envVars>>

Mark(r) ==
    /\ pc[r] = "mark"
    /\ IndexFree
    /\ \/ indexed /\ recorded # NoReplica /\ Done(r)
       \/ /\ ~indexed \/ recorded = NoReplica \/ "index" \in Faults
          /\ Raises(r)
    /\ UNCHANGED <<rowVars, diskVars, bucketVars, idxLock, envVars>>

\* Keys are deleted in the manifest's order, the manifest itself last.
RemoveObject(r) ==
    /\ pc[r] = "remove"
    /\ \E f \in todo[r] :
          /\ objects' = objects \ {f}
          /\ Working(r, snap[r], todo[r] \ {f})
    /\ Goto(r, "remove")
    /\ UNCHANGED <<rowVars, diskVars, manifest, idxLock, envVars>>

\* Mutant of RemoveManifest: the manifest does not wait for the files.
RemoveManifestEarly(r) ==
    /\ pc[r] = "remove"
    /\ manifest' = NoReplica
    /\ IF Undoing(r) THEN Fails(r, "500")
                     ELSE Goto(r, "clear") /\ Keeping(r)
    /\ UNCHANGED <<rowVars, diskVars, objects, idxLock, envVars>>

RemoveManifest(r) ==
    /\ pc[r] = "remove"
    /\ todo[r] = {}
    /\ manifest' = NoReplica
    /\ IF Undoing(r) THEN Fails(r, "500")
                     ELSE Goto(r, "clear") /\ Keeping(r)
    /\ UNCHANGED <<rowVars, diskVars, objects, idxLock, envVars>>

\* A delete raises; the object may be gone all the same.
RemoveFails(r) ==
    /\ pc[r] = "remove"
    /\ "s3" \in Faults
    /\ \/ \E f \in todo[r] : objects' \in {objects, objects \ {f}}
             /\ UNCHANGED manifest
       \/ todo[r] = {} /\ manifest' \in {manifest, NoReplica}
             /\ UNCHANGED objects
    /\ Fails(r, IF Undoing(r) THEN "500" ELSE "503")
    /\ UNCHANGED <<rowVars, diskVars, idxLock, envVars>>

Clear(r) ==
    /\ pc[r] = "clear"
    /\ IndexFree
    /\ \/ indexed /\ recorded' = NoReplica /\ Done(r)
       \/ (~indexed \/ "index" \in Faults) /\ UNCHANGED recorded /\ Raises(r)
    /\ UNCHANGED <<indexed, diskVars, bucketVars, idxLock, envVars>>

-----------------------------------------------------------------------------
(* archive_local_case and delete_case hold the index lock while they       *)
(* remove the directory file by file.                                      *)

ArchiveLocal(r) ==
    /\ pc[r] = "archive"
    /\ IndexFree
    /\ LET refused == recorded # snap[r] \/ local = NoDir IN
       \/ ~indexed /\ Raises(r) /\ UNCHANGED idxLock
       \/ indexed /\ refused /\ Fails(r, "409") /\ UNCHANGED idxLock
       \/ /\ indexed /\ ~refused
          /\ idxLock' = r
          /\ Goto(r, "rmtree") /\ Keeping(r)
    /\ UNCHANGED <<rowVars, diskVars, bucketVars, envVars>>

DeleteCase(r) ==
    /\ pc[r] = "delete_case"
    /\ IndexFree
    /\ \/ ~indexed /\ Fails(r, "404") /\ UNCHANGED idxLock
       \/ /\ indexed /\ recorded # NoReplica
          /\ Fails(r, "409") /\ UNCHANGED idxLock
       \/ /\ indexed /\ recorded = NoReplica
          /\ idxLock' = r
          /\ Goto(r, IF op[r] = "delete_case" /\ local # NoDir
                     THEN "rmtree" ELSE "drop_row")
          /\ Keeping(r)
    /\ UNCHANGED <<rowVars, diskVars, bucketVars, envVars>>

RemoveFile(r) ==
    /\ pc[r] = "rmtree"
    /\ \E f \in local : local' = local \ {f}
    /\ Goto(r, "rmtree") /\ Keeping(r)
    /\ UNCHANGED <<rowVars, backup, bucketVars, idxLock, envVars>>

RemoveDir(r) ==
    /\ pc[r] = "rmtree"
    /\ local = {}
    /\ local' = NoDir
    /\ \/ op[r] = "archive" /\ Done(r) /\ idxLock' = NoReq
       \/ /\ op[r] # "archive" /\ Goto(r, "drop_row") /\ Keeping(r)
          /\ UNCHANGED idxLock
    /\ UNCHANGED <<rowVars, backup, bucketVars, envVars>>

\* OSError in shutil.rmtree: what is left stays, and so does the row.
RemoveDirFails(r) ==
    /\ pc[r] = "rmtree"
    /\ "fs" \in Faults
    /\ Fails(r, IF op[r] = "archive" THEN "500" ELSE "409")
    /\ idxLock' = NoReq
    /\ UNCHANGED <<rowVars, diskVars, bucketVars, envVars>>

DropRow(r) ==
    /\ pc[r] = "drop_row"
    /\ idxLock' = NoReq
    /\ \/ indexed' = FALSE /\ Done(r)
       \/ "index" \in Faults /\ UNCHANGED indexed /\ Raises(r)
    /\ UNCHANGED <<recorded, diskVars, bucketVars, envVars>>

-----------------------------------------------------------------------------
Tick ==
    /\ clock < MaxClock
    /\ clock' = clock + 1
    /\ UNCHANGED <<rowVars, diskVars, bucketVars, caseLock, idxLock,
                   pc, op, snap, todo, reply, key>>

\* The process dies and is started again, perhaps with another key: its
\* requests and its locks are gone, the disk and the bucket stay.
Restart ==
    /\ "restart" \in Faults
    /\ key' \in IF "key" \in Faults THEN Keys ELSE {key}
    /\ caseLock' = NoReq
    /\ idxLock' = NoReq
    /\ pc' = [r \in Reqs |-> "idle"]
    /\ snap' = [r \in Reqs |-> NoReplica]
    /\ todo' = [r \in Reqs |-> {}]
    /\ reply' = [r \in Reqs |-> NoReply]
    /\ UNCHANGED <<rowVars, diskVars, bucketVars, op, clock>>

Progress(r) ==
    \/ Lock(r) \/ GetCase(r)
    \/ List(r) \/ Upload(r) \/ UploadFails(r) \/ PutManifest(r)
    \/ Rollback(r) \/ RollbackDone(r) \/ Record(r)
    \/ LoadManifest(r) \/ Download(r) \/ Authenticate(r)
    \/ Swap(r) \/ Install(r) \/ DropBackup(r) \/ Mark(r)
    \/ RemoveObject(r) \/ RemoveManifest(r) \/ RemoveFails(r) \/ Clear(r)
    \/ ArchiveLocal(r) \/ DeleteCase(r) \/ RemoveFile(r) \/ RemoveDir(r)
    \/ RemoveDirFails(r) \/ DropRow(r)

Next ==
    \/ \E r \in Reqs : Submit(r) \/ Progress(r)
    \/ Tick
    \/ Restart

Spec == Init /\ [][Next]_vars

\* A started request keeps running: its thread is scheduled and every call
\* it makes returns or raises.
FairSpec == Spec /\ \A r \in Reqs : WF_vars(Progress(r))

-----------------------------------------------------------------------------
(* What the operations promise.                                            *)

\* The bucket holds everything the row's metadata describes.
Restorable ==
    /\ recorded # NoReplica
    /\ manifest = recorded
    /\ recorded.files \subseteq objects

CopySomewhere ==
    \/ local = Files
    \/ backup = Files
    \/ Restorable /\ recorded.files = Files

RemovesOnDemand(r) ==
    /\ op[r] \in {"delete", "forget"} \cup DeleteOps
    /\ \/ RemoveObject(r) \/ RemoveManifest(r) \/ RemoveFails(r) \/ Clear(r)
       \/ RemoveFile(r) \/ DropRow(r)

\* As long as nobody asks for a deletion, no step of replicate, verify,
\* archive or restore, no failure inside them and no restart loses the last
\* complete copy of a retained case.
KeepsACopy ==
    [][CopySomewhere /\ ~(\E r \in Reqs : RemovesOnDemand(r))
         => CopySomewhere']_vars

\* delete_replica removes the manifest last, so that a deletion that stopped
\* half way can be asked for again: replica metadata whose manifest is gone
\* describes no object that is still in the bucket, and forget=true orphans
\* nothing of it.
ManifestLast ==
    recorded # NoReplica /\ manifest # recorded
        => recorded.files \cap objects = {}

\* Steps taken under the lock of the case; rmtree is also a step of DELETE.
UnderLock == {"get_case", "list", "upload", "rollback", "record", "load",
              "download", "archive", "swap", "install", "reinstall",
              "drop_backup", "mark", "remove", "clear"}

\* Only the request with the case's lock works on the replica, and what it
\* has read of the row under that lock stays true while it has it.
SerializedAt(r) ==
    /\ pc[r] \in UnderLock => caseLock = r
    /\ pc[r] \in UnderLock \cup {"lock"} => op[r] \in LockedOps
    /\ pc[r] \in {"list", "upload", "rollback", "record"}
         => Undoing(r) /\ recorded = NoReplica
    /\ pc[r] \in {"upload", "rollback", "record", "download", "archive",
                  "swap", "install", "reinstall", "load", "remove"}
         => snap[r] \in Manifests
    /\ pc[r] \in {"load", "remove"}
         => recorded = IF Undoing(r) THEN NoReplica ELSE snap[r]
    /\ pc[r] \in {"record", "remove"} => manifest = snap[r]
    /\ pc[r] = "remove" => snap[r].files \cap objects \subseteq todo[r]
Serialized == \A r \in Reqs : SerializedAt(r)

\* The types, the discipline of the lock and the order of a deletion.
LockInv == TypeOK /\ Serialized /\ ManifestLast

\* A directory is missing or holds only files that manifest m lists.
Within(dir, m) == dir = NoDir \/ dir \subseteq m.files

Restoring == {"swap", "install", "reinstall", "drop_backup", "mark"}

\* The request has downloaded the whole replica.
Verified(r) ==
    \/ pc[r] \in {"archive"} \cup Restoring
    \/ pc[r] = "rmtree" /\ op[r] = "archive"

\* A request past the download knows that the replica in the bucket is the
\* recorded one and complete, and one that deletes the local directory that
\* there is no replica.
WorkingAt(r) ==
    /\ pc[r] \in {"upload", "record"} => /\ snap[r].files \ todo[r] \subseteq objects
                                        /\ Within(local, snap[r])
    /\ pc[r] = "record" => todo[r] = {}
    /\ pc[r] = "download" \/ Verified(r) =>
         /\ caseLock = r /\ NeedsKey(r)
         /\ recorded = snap[r] /\ manifest = snap[r]
         /\ snap[r] \in Manifests
         /\ snap[r].files \ todo[r] \subseteq objects
    /\ Verified(r) => todo[r] = {}
    /\ pc[r] = "archive" => op[r] = "archive"
    /\ pc[r] \in Restoring => op[r] \in {"restore", "overwrite"}
    /\ pc[r] \in {"install", "reinstall"} => local = NoDir
    /\ pc[r] \in {"drop_backup", "mark"} => local = snap[r].files
    /\ pc[r] \in {"reinstall", "drop_backup"} => backup \subseteq snap[r].files
    /\ pc[r] = "load" => op[r] # "forget"
    /\ pc[r] = "remove" => op[r] \in {"replicate", "delete"}
    /\ pc[r] = "clear" =>
         /\ op[r] \in {"delete", "forget"}
         /\ recorded = snap[r] /\ snap[r] \in Manifests
         /\ op[r] = "delete" => manifest = NoReplica /\ snap[r].files \cap objects = {}
    /\ pc[r] \in {"delete_case", "drop_row"} => op[r] \in DeleteOps
    /\ pc[r] = "rmtree" => op[r] \in {"archive", "delete_case"}
    /\ pc[r] \in {"rmtree", "drop_row"} =>
         idxLock = r /\ (op[r] \in DeleteOps => recorded = NoReplica)
    /\ pc[r] = "drop_row" /\ op[r] = "delete_case" => local = NoDir

\* ... and the local directory never has a file that the recorded replica lacks.
WorkInv ==
    /\ \A r \in Reqs : WorkingAt(r)
    /\ recorded # NoReplica => Within(local, recorded)

\* The lock is kept, deletions are in order, and nobody works on less than they
\* believe to have.
ArchiveInv == LockInv /\ WorkInv

Effect(r) ==
    CASE op[r] \in {"replicate", "verify"}  -> Restorable'
      [] op[r] = "archive"                  -> Restorable' /\ local' = NoDir
      [] op[r] \in {"restore", "overwrite"} -> Restorable'
                                                 /\ local' = recorded'.files
      [] op[r] = "delete"  -> /\ recorded' = NoReplica
                              /\ manifest' = NoReplica
                              /\ objects' \cap snap[r].files = {}
      [] op[r] = "forget"                   -> recorded' = NoReplica
      [] op[r] = "delete_case"              -> ~indexed' /\ local' = NoDir
      [] OTHER                              -> ~indexed'

\* When an endpoint answers success, what it announces is true at that
\* moment, whatever the requests beside it did meanwhile.
SuccessIsTrue ==
    [][\A r \in Reqs :
         reply'[r].status = "ok" /\ reply[r] # reply'[r] => Effect(r)]_vars

\* A case that has left the index leaves nothing behind in the bucket once
\* the requests that were running have ended.
NoOrphans ==
    ~indexed /\ (\A r \in Reqs : pc[r] = "idle")
        => objects = {} /\ manifest = NoReplica

\* The request is uploading a replica, or taking back one it did not record.
Replicating(r) ==
    Undoing(r) /\ pc[r] \in {"upload", "rollback", "record", "load", "remove"}

\* What request r still has to upload or remove, compared with the bucket.
AccountedAt(r) ==
    /\ op[r] # "forget"
    /\ pc[r] = "upload" => /\ todo[r] \subseteq snap[r].files
                           /\ objects \subseteq snap[r].files \ todo[r]
                           /\ manifest = NoReplica
    /\ pc[r] = "rollback" => objects \subseteq todo[r] /\ manifest = NoReplica
    /\ pc[r] \in {"record", "load"} => objects \subseteq snap[r].files
    /\ Undoing(r) /\ pc[r] = "load" => manifest = snap[r]
    /\ pc[r] = "remove" => objects \subseteq todo[r]

\* While the object store answers and no server dies, everything in the bucket
\* is in the case's row or in the hands of the replicate that put it there.
BucketIsAccounted ==
    /\ ~indexed => recorded = NoReplica
    /\ recorded # NoReplica => /\ objects \subseteq recorded.files
                               /\ manifest \in {recorded, NoReplica}
    /\ recorded = NoReplica /\ (\A r \in Reqs : ~Replicating(r))
         => objects = {} /\ manifest = NoReplica
    /\ \A r \in Reqs : AccountedAt(r)

\* An object-storage operation that has the case's lock gives it back,
\* whatever fails in it, unless DELETE /cases/{id} competes with it for the
\* index, whose lock does not promise anyone a turn.
LockIsReleased ==
    \A r \in Reqs :
       caseLock = r ~> \/ caseLock # r
                       \/ \E s \in Reqs : op[s] \in DeleteOps /\ pc[s] # "idle"

\* overwrite=true replaces a local case: once the replica is downloaded and
\* authenticated the restore is not turned down.
OverwriteIsHonoured ==
    [][\A r \in Reqs : pc[r] = "swap" => reply'[r].status # "503"]_vars
=============================================================================
