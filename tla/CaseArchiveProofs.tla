-------------------------- MODULE CaseArchiveProofs --------------------------
(* The archive of a case, for any set of files, any number of concurrent     *)
(* requests and every combination of failures.                               *)
EXTENDS CaseArchive, TLAPS

\* A step of r that leaves the tables of the other requests alone.
OnlyMoves(r) ==
    /\ \A s \in Reqs \ {r} : /\ pc'[s] = pc[s] /\ op'[s] = op[s]
                             /\ snap'[s] = snap[s] /\ todo'[s] = todo[s]
    /\ caseLock' = caseLock \/ caseLock \in {r, NoReq}
    /\ pc[r] \in UnderLock \/ UNCHANGED <<recorded, manifest, objects>>

\* A step of one request that leaves the lock to its holder leaves the
\* other requests as serialized as they were.
LEMMA OthersStaySerialized ==
  ASSUME LockInv, NEW r \in Reqs, OnlyMoves(r)
  PROVE  \A s \in Reqs \ {r} : SerializedAt(s)'
  <1> SUFFICES ASSUME NEW s \in Reqs \ {r} PROVE SerializedAt(s)'
    OBVIOUS
  <1>1. SerializedAt(s) /\ SerializedAt(r)
    BY DEF LockInv, Serialized
  <1>2. CASE pc[s] \in UnderLock
    <2>1. caseLock = s /\ pc[r] \notin UnderLock
      BY <1>1, <1>2 DEF SerializedAt
    <2>2. caseLock' = s /\ UNCHANGED <<recorded, manifest, objects>>
      BY <2>1, ConstantsAssumption DEF OnlyMoves
    <2> QED BY <1>1, <2>2 DEF OnlyMoves, SerializedAt, Undoing
  <1>3. CASE pc[s] \notin UnderLock
    BY <1>1, <1>3 DEF OnlyMoves, SerializedAt, UnderLock
  <1> QED BY <1>2, <1>3

\* A directory is missing or a set of the case's files.
LEMMA DirTypes == /\ NoDir \in Dirs /\ SUBSET Files \subseteq Dirs
                  /\ \A d \in Dirs : d # NoDir => d \in SUBSET Files
  <1>1. NoDir \in Dirs
    BY Zenon DEF Dirs
  <1>2. SUBSET Files \subseteq Dirs
    BY Zenon DEF Dirs
  <1>3. \A d \in Dirs : d # NoDir => d \in SUBSET Files
    BY Zenon DEF Dirs
  <1> QED BY <1>1, <1>2, <1>3

\* A directory that loses a file is a directory still.
LEMMA RemoveFromDir ==
  ASSUME NEW d \in Dirs, NEW f \in d PROVE d \ {f} \in Dirs
  <1>1. CASE d = NoDir
    <2>1. d \ {f} = {}
      BY <1>1 DEF NoDir
    <2> QED BY <2>1, DirTypes
  <1>2. CASE d # NoDir
    BY <1>2, DirTypes
  <1> QED BY <1>1, <1>2

\* The manifests are replicas of files of the case.
LEMMA ManifestTypes ==
    /\ \A m \in Manifests : m \in Replicas /\ m.files \in SUBSET Files
    /\ \A d \in SUBSET Files : [at |-> 0, files |-> d] \in Manifests
    /\ \A m \in Replicas : m # NoReplica => m \in Manifests
  BY ConstantsAssumption DEF Manifests, Replicas

\* The answers the endpoints give are replies.
LEMMA ReplyTypes ==
    /\ NoReply \in Replies
    /\ \A status \in {"ok", "404", "409", "500", "503"},
          audit \in {"none", "success", "failure"} :
          [status |-> status, audit |-> audit] \in Replies
  BY DEF Replies, NoReply

\* A registered case with its directory and no replica satisfies it.
LEMMA InitInv == Init => LockInv
  <1> SUFFICES ASSUME Init PROVE LockInv
    OBVIOUS
  <1>1. TypeOK
    <2> USE DEF Init
    <2>1. indexed \in BOOLEAN /\ recorded \in Replicas /\ manifest \in Replicas
      BY DEF Replicas
    <2>2. local \in SUBSET Files /\ objects \in SUBSET Files
      OBVIOUS
    <2>3. local \in Dirs /\ backup \in Dirs
      BY <2>2, DirTypes
    <2>4. pc \in [Reqs -> Labels] /\ op \in [Reqs -> Ops]
      BY DEF Labels, Ops, LockedOps
    <2>5. snap \in [Reqs -> Replicas] /\ todo \in [Reqs -> SUBSET Files]
      BY DEF Replicas
    <2>6. reply \in [Reqs -> Replies]
      BY ReplyTypes
    <2>7. key \in Keys /\ clock \in 0..MaxClock
      BY ConstantsAssumption DEF Keys
    <2> QED BY <2>1, <2>2, <2>3, <2>4, <2>5, <2>6, <2>7 DEF TypeOK
  <1>2. Serialized
    BY DEF Init, Serialized, SerializedAt, UnderLock
  <1>3. ManifestLast
    BY DEF Init, ManifestLast
  <1> QED BY <1>1, <1>2, <1>3 DEF LockInv

\* The types of the tables of the requests, and of everything else.
RequestTypes ==
    /\ caseLock \in Reqs \cup {NoReq}
    /\ pc \in [Reqs -> Labels]
    /\ op \in [Reqs -> Ops]
    /\ snap \in [Reqs -> Replicas]
    /\ todo \in [Reqs -> SUBSET Files]
    /\ reply \in [Reqs -> Replies]

WorldTypes ==
    /\ indexed \in BOOLEAN
    /\ recorded \in Replicas
    /\ local \in Dirs
    /\ backup \in Dirs
    /\ objects \in SUBSET Files
    /\ manifest \in Replicas
    /\ idxLock \in Reqs \cup {NoReq}
    /\ key \in Keys
    /\ clock \in 0..MaxClock

\* The type invariant in two parts: the requests' state, and the world's.
LEMMA TypeParts == TypeOK <=> RequestTypes /\ WorldTypes
  BY DEF TypeOK, RequestTypes, WorldTypes

\* Every step of every request keeps the types, works on the replica only
\* under the lock of the case, and takes the manifest down last.
LEMMA NextInv == LockInv /\ [Next]_vars => LockInv'
  <1> SUFFICES ASSUME LockInv, [Next]_vars PROVE LockInv'
    OBVIOUS
  <1> USE ConstantsAssumption
  <1> USE DEF rowVars, diskVars, bucketVars, envVars
  <1>1. ASSUME NEW r \in Reqs, Submit(r) PROVE LockInv'
    <2> USE <1>1 DEF Submit
    <2>0. SerializedAt(r)
      BY DEF LockInv, Serialized
    <2>1. TypeOK'
      <3>1. RequestTypes /\ WorldTypes
        BY TypeParts DEF LockInv
      <3>2. WorldTypes'
        BY <2>0, <3>1
        DEF WorldTypes, RequestTypes, SerializedAt, Manifests, Replicas
      <3>3. RequestTypes'
        BY <3>1, ReplyTypes DEF RequestTypes, Labels
      <3> QED BY <3>2, <3>3 DEF TypeOK, RequestTypes, WorldTypes
    <2>2. OnlyMoves(r)
      BY DEF LockInv, OnlyMoves, UnderLock, TypeOK,
             Goto, Working, Keeping, Answer
    <2>3. SerializedAt(r)'
      BY <2>0
      DEF LockInv, SerializedAt, Undoing, UnderLock, TypeOK,
          Replicas, Manifests, DeleteOps, LockedOps, Ops, Goto, Working,
          Keeping, Answer
    <2>4. Serialized'
      BY <2>2, <2>3, OthersStaySerialized DEF Serialized
    <2>5. ManifestLast'
      BY <2>0 DEF LockInv, SerializedAt, Undoing, UnderLock, ManifestLast,
             Goto, Working, Keeping, Answer
    <2> QED BY <2>1, <2>4, <2>5 DEF LockInv
  <1>2. ASSUME NEW r \in Reqs, Lock(r) PROVE LockInv'
    <2> USE <1>2 DEF Lock
    <2>0. SerializedAt(r)
      BY DEF LockInv, Serialized
    <2>1. TypeOK'
      <3>1. RequestTypes /\ WorldTypes
        BY TypeParts DEF LockInv
      <3>2. WorldTypes'
        BY <2>0, <3>1
        DEF WorldTypes, RequestTypes, SerializedAt, Manifests, Replicas
      <3>3. RequestTypes'
        BY <3>1 DEF RequestTypes, Labels
      <3> QED BY <3>2, <3>3 DEF TypeOK, RequestTypes, WorldTypes
    <2>2. OnlyMoves(r)
      BY DEF LockInv, OnlyMoves, UnderLock, TypeOK,
             Goto, Working, Keeping, Answer
    <2>3. SerializedAt(r)'
      BY <2>0
      DEF LockInv, SerializedAt, Undoing, UnderLock, TypeOK,
          Replicas, Manifests, DeleteOps, LockedOps, Ops, Goto, Working,
          Keeping, Answer
    <2>4. Serialized'
      BY <2>2, <2>3, OthersStaySerialized DEF Serialized
    <2>5. ManifestLast'
      BY <2>0 DEF LockInv, SerializedAt, Undoing, UnderLock, ManifestLast,
             Goto, Working, Keeping, Answer
    <2> QED BY <2>1, <2>4, <2>5 DEF LockInv
  <1>3. ASSUME NEW r \in Reqs, GetCase(r) PROVE LockInv'
    <2> USE <1>3 DEF GetCase
    <2>0. SerializedAt(r)
      BY DEF LockInv, Serialized
    <2>1. TypeOK'
      <3>1. RequestTypes /\ WorldTypes
        BY TypeParts DEF LockInv
      <3>2. WorldTypes'
        BY <2>0, <3>1
        DEF WorldTypes, RequestTypes, SerializedAt, Manifests, Replicas
      <3>3. RequestTypes'
        BY <3>1, ReplyTypes, SMTT(30)
        DEF RequestTypes, WorldTypes, FirstStep, Labels, Replicas, Goto,
            Working, Answer
      <3> QED BY <3>2, <3>3 DEF TypeOK, RequestTypes, WorldTypes
    <2>2. OnlyMoves(r)
      BY DEF LockInv, OnlyMoves, UnderLock, TypeOK,
             Goto, Working, Keeping, Answer
    <2>3. SerializedAt(r)'
      <3>1. CASE pc'[r] = "idle"
        BY <3>1 DEF SerializedAt, UnderLock
      <3>2. CASE /\ ~Missing(op[r]) /\ ~Conflict(op[r])
                 /\ Goto(r, FirstStep(op[r])) /\ Working(r, recorded, {})
        <4>1. caseLock' = r /\ op'[r] = op[r] /\ op[r] \in LockedOps
          BY <2>0, <3>2 DEF SerializedAt, UnderLock, Goto
        <4>2. CASE op[r] \in {"replicate", "forget"}
          BY <3>2, <4>1, <4>2
          DEF LockInv, TypeOK, SerializedAt, Undoing, Conflict, FirstStep,
              Goto
        <4>3. CASE op[r] \notin {"replicate", "forget"}
          <5>1. op[r] \in Ops
            BY DEF LockInv, TypeOK
          <5>2. op[r] \notin DeleteOps
            BY <2>0 DEF SerializedAt, UnderLock, LockedOps, DeleteOps
          <5>3. recorded # NoReplica /\ recorded \in Manifests
            BY <3>2, <4>3, <5>1, <5>2, ManifestTypes
            DEF LockInv, TypeOK, Missing, Conflict, Ops, LockedOps
          <5> QED
            BY <3>2, <4>1, <4>3, <5>3
            DEF LockInv, TypeOK, SerializedAt, Undoing, FirstStep, Goto,
                Working
        <4> QED BY <4>2, <4>3
      <3> QED
        BY <3>1, <3>2 DEF Answer, LockInv, TypeOK
    <2>4. Serialized'
      BY <2>2, <2>3, OthersStaySerialized DEF Serialized
    <2>5. ManifestLast'
      BY <2>0 DEF LockInv, SerializedAt, Undoing, UnderLock, ManifestLast,
             Goto, Working, Keeping, Answer
    <2> QED BY <2>1, <2>4, <2>5 DEF LockInv
  <1>4. ASSUME NEW r \in Reqs, List(r) PROVE LockInv'
    <2> USE <1>4 DEF List, Raises, Fails
    <2>0. SerializedAt(r)
      BY DEF LockInv, Serialized
    <2>1. TypeOK'
      <3>1. RequestTypes /\ WorldTypes
        BY TypeParts DEF LockInv
      <3>2. WorldTypes'
        BY <2>0, <3>1
        DEF WorldTypes, RequestTypes, SerializedAt, Manifests, Replicas
      <3>3. RequestTypes'
        BY <3>1, ReplyTypes, ManifestTypes, DirTypes, SMTT(30)
        DEF RequestTypes, WorldTypes, Labels, Replicas, Goto, Working, Answer
      <3> QED BY <3>2, <3>3 DEF TypeOK, RequestTypes, WorldTypes
    <2>2. OnlyMoves(r)
      BY DEF LockInv, OnlyMoves, UnderLock, TypeOK,
             Goto, Working, Keeping, Answer
    <2>3. SerializedAt(r)'
      BY <2>0, ManifestTypes, DirTypes
      DEF LockInv, SerializedAt, Undoing, UnderLock, TypeOK, Goto,
          Working, Answer
    <2>4. Serialized'
      BY <2>2, <2>3, OthersStaySerialized DEF Serialized
    <2>5. ManifestLast'
      BY <2>0 DEF LockInv, SerializedAt, Undoing, UnderLock, ManifestLast,
             Goto, Working, Keeping, Answer
    <2> QED BY <2>1, <2>4, <2>5 DEF LockInv
  <1>5. ASSUME NEW r \in Reqs, Upload(r) PROVE LockInv'
    <2> USE <1>5 DEF Upload
    <2>0. SerializedAt(r)
      BY DEF LockInv, Serialized
    <2>1. TypeOK'
      <3>1. RequestTypes /\ WorldTypes
        BY TypeParts DEF LockInv
      <3>2. WorldTypes'
        BY <2>0, <3>1
        DEF WorldTypes, RequestTypes, SerializedAt, Manifests, Replicas
      <3>3. RequestTypes'
        BY <2>0, <3>1, ReplyTypes
        DEF RequestTypes, SerializedAt, Replicas, Labels, Goto, Working,
            Keeping, Answer
      <3> QED BY <3>2, <3>3 DEF TypeOK, RequestTypes, WorldTypes
    <2>2. OnlyMoves(r)
      BY DEF LockInv, OnlyMoves, UnderLock, TypeOK,
             Goto, Working, Keeping, Answer
    <2>3. SerializedAt(r)'
      BY <2>0
      DEF LockInv, SerializedAt, Undoing, UnderLock, TypeOK,
          Replicas, Manifests, DeleteOps, LockedOps, Ops, Goto, Working,
          Keeping, Answer
    <2>4. Serialized'
      BY <2>2, <2>3, OthersStaySerialized DEF Serialized
    <2>5. ManifestLast'
      BY <2>0 DEF LockInv, SerializedAt, Undoing, UnderLock, ManifestLast,
             Goto, Working, Keeping, Answer
    <2> QED BY <2>1, <2>4, <2>5 DEF LockInv
  <1>6. ASSUME NEW r \in Reqs, UploadFails(r) PROVE LockInv'
    <2> USE <1>6 DEF UploadFails
    <2>0. SerializedAt(r)
      BY DEF LockInv, Serialized
    <2>1. TypeOK'
      <3>1. RequestTypes /\ WorldTypes
        BY TypeParts DEF LockInv
      <3>2. WorldTypes'
        BY <2>0, <3>1
        DEF WorldTypes, RequestTypes, SerializedAt, Manifests, Replicas
      <3>3. RequestTypes'
        BY <2>0, <3>1, ReplyTypes, ManifestTypes
        DEF RequestTypes, SerializedAt, Replicas, Labels, Goto, Working,
            Answer
      <3> QED BY <3>2, <3>3 DEF TypeOK, RequestTypes, WorldTypes
    <2>2. OnlyMoves(r)
      BY DEF LockInv, OnlyMoves, UnderLock, TypeOK,
             Goto, Working, Keeping, Answer
    <2>3. SerializedAt(r)'
      BY <2>0
      DEF LockInv, SerializedAt, Undoing, UnderLock, TypeOK,
          Replicas, Manifests, DeleteOps, LockedOps, Ops, Goto, Working,
          Keeping, Answer
    <2>4. Serialized'
      BY <2>2, <2>3, OthersStaySerialized DEF Serialized
    <2>5. ManifestLast'
      BY <2>0 DEF LockInv, SerializedAt, Undoing, UnderLock, ManifestLast,
             Goto, Working, Keeping, Answer
    <2> QED BY <2>1, <2>4, <2>5 DEF LockInv
  <1>7. ASSUME NEW r \in Reqs, PutManifest(r) PROVE LockInv'
    <2> USE <1>7 DEF PutManifest
    <2>0. SerializedAt(r)
      BY DEF LockInv, Serialized
    <2>1. TypeOK'
      <3>1. RequestTypes /\ WorldTypes
        BY TypeParts DEF LockInv
      <3>2. WorldTypes'
        BY <2>0, <3>1
        DEF WorldTypes, RequestTypes, SerializedAt, Manifests, Replicas
      <3>3. RequestTypes'
        BY <2>0, <3>1
        DEF RequestTypes, WorldTypes, SerializedAt, Replicas, Manifests,
            Labels, Goto, Working
      <3> QED BY <3>2, <3>3 DEF TypeOK, RequestTypes, WorldTypes
    <2>2. OnlyMoves(r)
      BY DEF LockInv, OnlyMoves, UnderLock, TypeOK,
             Goto, Working, Keeping, Answer
    <2>3. SerializedAt(r)'
      BY <2>0
      DEF LockInv, SerializedAt, Undoing, UnderLock, TypeOK,
          Replicas, Manifests, DeleteOps, LockedOps, Ops, Goto, Working,
          Keeping, Answer
    <2>4. Serialized'
      BY <2>2, <2>3, OthersStaySerialized DEF Serialized
    <2>5. ManifestLast'
      BY <2>0 DEF LockInv, SerializedAt, Undoing, UnderLock, ManifestLast,
             Goto, Working, Keeping, Answer
    <2> QED BY <2>1, <2>4, <2>5 DEF LockInv
  <1>8. ASSUME NEW r \in Reqs, Rollback(r) PROVE LockInv'
    <2> USE <1>8 DEF Rollback
    <2>0. SerializedAt(r)
      BY DEF LockInv, Serialized
    <2>1. TypeOK'
      <3>1. RequestTypes /\ WorldTypes
        BY TypeParts DEF LockInv
      <3>2. WorldTypes'
        BY <2>0, <3>1
        DEF WorldTypes, RequestTypes, SerializedAt, Manifests, Replicas
      <3>3. RequestTypes'
        BY <2>0, <3>1, ReplyTypes
        DEF RequestTypes, SerializedAt, Replicas, Labels, Goto, Working,
            Keeping, Answer
      <3> QED BY <3>2, <3>3 DEF TypeOK, RequestTypes, WorldTypes
    <2>2. OnlyMoves(r)
      BY DEF LockInv, OnlyMoves, UnderLock, TypeOK,
             Goto, Working, Keeping, Answer
    <2>3. SerializedAt(r)'
      BY <2>0
      DEF LockInv, SerializedAt, Undoing, UnderLock, TypeOK,
          Replicas, Manifests, DeleteOps, LockedOps, Ops, Goto, Working,
          Keeping, Answer
    <2>4. Serialized'
      BY <2>2, <2>3, OthersStaySerialized DEF Serialized
    <2>5. ManifestLast'
      BY <2>0 DEF LockInv, SerializedAt, Undoing, UnderLock, ManifestLast,
             Goto, Working, Keeping, Answer
    <2> QED BY <2>1, <2>4, <2>5 DEF LockInv
  <1>9. ASSUME NEW r \in Reqs, RollbackDone(r) PROVE LockInv'
    <2> USE <1>9 DEF RollbackDone, Fails
    <2>0. SerializedAt(r)
      BY DEF LockInv, Serialized
    <2>1. TypeOK'
      <3>1. RequestTypes /\ WorldTypes
        BY TypeParts DEF LockInv
      <3>2. WorldTypes'
        BY <2>0, <3>1
        DEF WorldTypes, RequestTypes, SerializedAt, Manifests, Replicas
      <3>3. RequestTypes'
        BY <2>0, <3>1, ReplyTypes
        DEF RequestTypes, SerializedAt, Replicas, Labels, Goto, Working,
            Keeping, Answer
      <3> QED BY <3>2, <3>3 DEF TypeOK, RequestTypes, WorldTypes
    <2>2. OnlyMoves(r)
      BY DEF LockInv, OnlyMoves, UnderLock, TypeOK,
             Goto, Working, Keeping, Answer
    <2>3. SerializedAt(r)'
      BY <2>0
      DEF LockInv, SerializedAt, Undoing, UnderLock, TypeOK,
          Replicas, Manifests, DeleteOps, LockedOps, Ops, Goto, Working,
          Keeping, Answer
    <2>4. Serialized'
      BY <2>2, <2>3, OthersStaySerialized DEF Serialized
    <2>5. ManifestLast'
      BY <2>0 DEF LockInv, SerializedAt, Undoing, UnderLock, ManifestLast,
             Goto, Working, Keeping, Answer
    <2> QED BY <2>1, <2>4, <2>5 DEF LockInv
  <1>10. ASSUME NEW r \in Reqs, Record(r) PROVE LockInv'
    <2> USE <1>10 DEF Record, Done
    <2>0. SerializedAt(r)
      BY DEF LockInv, Serialized
    <2>1. TypeOK'
      <3>1. RequestTypes /\ WorldTypes
        BY TypeParts DEF LockInv
      <3>2. WorldTypes'
        BY <2>0, <3>1
        DEF WorldTypes, RequestTypes, SerializedAt, Manifests, Replicas
      <3>3. RequestTypes'
        BY <2>0, <3>1, ReplyTypes
        DEF RequestTypes, SerializedAt, Replicas, Labels, Goto, Working,
            Keeping, Answer
      <3> QED BY <3>2, <3>3 DEF TypeOK, RequestTypes, WorldTypes
    <2>2. OnlyMoves(r)
      BY DEF LockInv, OnlyMoves, UnderLock, TypeOK,
             Goto, Working, Keeping, Answer
    <2>3. SerializedAt(r)'
      BY <2>0
      DEF LockInv, SerializedAt, Undoing, UnderLock, TypeOK,
          Replicas, Manifests, DeleteOps, LockedOps, Ops, Goto, Working,
          Keeping, Answer
    <2>4. Serialized'
      BY <2>2, <2>3, OthersStaySerialized DEF Serialized
    <2>5. ManifestLast'
      BY <2>0 DEF LockInv, SerializedAt, Undoing, UnderLock, ManifestLast,
             Goto, Working, Keeping, Answer
    <2> QED BY <2>1, <2>4, <2>5 DEF LockInv
  <1>11. ASSUME NEW r \in Reqs, LoadManifest(r) PROVE LockInv'
    <2> USE <1>11 DEF LoadManifest, NeedsKey, Fails
    <2>0. SerializedAt(r)
      BY DEF LockInv, Serialized
    <2>1. TypeOK'
      <3>1. RequestTypes /\ WorldTypes
        BY TypeParts DEF LockInv
      <3>2. WorldTypes'
        BY <2>0, <3>1
        DEF WorldTypes, RequestTypes, SerializedAt, Manifests, Replicas
      <3>3. RequestTypes'
        BY <2>0, <3>1, ReplyTypes, ManifestTypes, SMTT(20)
        DEF RequestTypes, SerializedAt, Replicas, Labels, Goto, Working,
            Answer
      <3> QED BY <3>2, <3>3 DEF TypeOK, RequestTypes, WorldTypes
    <2>2. OnlyMoves(r)
      BY DEF LockInv, OnlyMoves, UnderLock, TypeOK,
             Goto, Working, Keeping, Answer
    <2>3. SerializedAt(r)'
      BY <2>0
      DEF LockInv, SerializedAt, Undoing, UnderLock, TypeOK,
          Replicas, Manifests, DeleteOps, LockedOps, Ops, Goto, Working,
          Keeping, Answer
    <2>4. Serialized'
      BY <2>2, <2>3, OthersStaySerialized DEF Serialized
    <2>5. ManifestLast'
      BY <2>0 DEF LockInv, SerializedAt, Undoing, UnderLock, ManifestLast,
             Goto, Working, Keeping, Answer
    <2> QED BY <2>1, <2>4, <2>5 DEF LockInv
  <1>12. ASSUME NEW r \in Reqs, Download(r) PROVE LockInv'
    <2> USE <1>12 DEF Download, Fails
    <2>0. SerializedAt(r)
      BY DEF LockInv, Serialized
    <2>1. TypeOK'
      <3>1. RequestTypes /\ WorldTypes
        BY TypeParts DEF LockInv
      <3>2. WorldTypes'
        BY <2>0, <3>1
        DEF WorldTypes, RequestTypes, SerializedAt, Manifests, Replicas
      <3>3. RequestTypes'
        BY <2>0, <3>1, ReplyTypes
        DEF RequestTypes, SerializedAt, Replicas, Labels, Goto, Working,
            Keeping, Answer
      <3> QED BY <3>2, <3>3 DEF TypeOK, RequestTypes, WorldTypes
    <2>2. OnlyMoves(r)
      BY DEF LockInv, OnlyMoves, UnderLock, TypeOK,
             Goto, Working, Keeping, Answer
    <2>3. SerializedAt(r)'
      BY <2>0
      DEF LockInv, SerializedAt, Undoing, UnderLock, TypeOK,
          Replicas, Manifests, DeleteOps, LockedOps, Ops, Goto, Working,
          Keeping, Answer
    <2>4. Serialized'
      BY <2>2, <2>3, OthersStaySerialized DEF Serialized
    <2>5. ManifestLast'
      BY <2>0 DEF LockInv, SerializedAt, Undoing, UnderLock, ManifestLast,
             Goto, Working, Keeping, Answer
    <2> QED BY <2>1, <2>4, <2>5 DEF LockInv
  <1>13. ASSUME NEW r \in Reqs, Authenticate(r) PROVE LockInv'
    <2> USE <1>13 DEF Authenticate, Raises, Done
    <2>0. SerializedAt(r)
      BY DEF LockInv, Serialized
    <2>1. TypeOK'
      <3>1. RequestTypes /\ WorldTypes
        BY TypeParts DEF LockInv
      <3>2. WorldTypes'
        BY <2>0, <3>1
        DEF WorldTypes, RequestTypes, SerializedAt, Manifests, Replicas
      <3>3. RequestTypes'
        BY <2>0, <3>1, ReplyTypes, SMTT(20)
        DEF RequestTypes, SerializedAt, Replicas, Labels, Goto, Working,
            Keeping, Answer
      <3> QED BY <3>2, <3>3 DEF TypeOK, RequestTypes, WorldTypes
    <2>2. OnlyMoves(r)
      BY DEF LockInv, OnlyMoves, UnderLock, TypeOK,
             Goto, Working, Keeping, Answer
    <2>3. SerializedAt(r)'
      BY <2>0
      DEF LockInv, SerializedAt, Undoing, UnderLock, TypeOK,
          Replicas, Manifests, DeleteOps, LockedOps, Ops, Goto, Working,
          Keeping, Answer
    <2>4. Serialized'
      BY <2>2, <2>3, OthersStaySerialized DEF Serialized
    <2>5. ManifestLast'
      BY <2>0 DEF LockInv, SerializedAt, Undoing, UnderLock, ManifestLast,
             Goto, Working, Keeping, Answer
    <2> QED BY <2>1, <2>4, <2>5 DEF LockInv
  <1>14. ASSUME NEW r \in Reqs, Swap(r) PROVE LockInv'
    <2> USE <1>14 DEF Swap, Fails, Raises
    <2>0. SerializedAt(r)
      BY DEF LockInv, Serialized
    <2>1. TypeOK'
      <3>1. RequestTypes /\ WorldTypes
        BY TypeParts DEF LockInv
      <3>2. WorldTypes'
        BY <3>1, DirTypes DEF WorldTypes
      <3>3. RequestTypes'
        BY <2>0, <3>1, ReplyTypes
        DEF RequestTypes, SerializedAt, Replicas, Labels, Goto, Working,
            Keeping, Answer
      <3> QED BY <3>2, <3>3 DEF TypeOK, RequestTypes, WorldTypes
    <2>2. OnlyMoves(r)
      BY DEF LockInv, OnlyMoves, UnderLock, TypeOK,
             Goto, Working, Keeping, Answer
    <2>3. SerializedAt(r)'
      BY <2>0
      DEF LockInv, SerializedAt, Undoing, UnderLock, TypeOK,
          Replicas, Manifests, DeleteOps, LockedOps, Ops, Goto, Working,
          Keeping, Answer
    <2>4. Serialized'
      BY <2>2, <2>3, OthersStaySerialized DEF Serialized
    <2>5. ManifestLast'
      BY <2>0 DEF LockInv, SerializedAt, Undoing, UnderLock, ManifestLast,
             Goto, Working, Keeping, Answer
    <2> QED BY <2>1, <2>4, <2>5 DEF LockInv
  <1>15. ASSUME NEW r \in Reqs, Install(r) PROVE LockInv'
    <2> USE <1>15 DEF Install, Raises
    <2>0. SerializedAt(r)
      BY DEF LockInv, Serialized
    <2>1. TypeOK'
      <3>1. RequestTypes /\ WorldTypes
        BY TypeParts DEF LockInv
      <3>2. WorldTypes'
        BY <2>0, <3>1, DirTypes
        DEF WorldTypes, SerializedAt, Manifests
      <3>3. RequestTypes'
        BY <2>0, <3>1, ReplyTypes
        DEF RequestTypes, SerializedAt, Replicas, Labels, Goto, Working,
            Keeping, Answer
      <3> QED BY <3>2, <3>3 DEF TypeOK, RequestTypes, WorldTypes
    <2>2. OnlyMoves(r)
      BY DEF LockInv, OnlyMoves, UnderLock, TypeOK,
             Goto, Working, Keeping, Answer
    <2>3. SerializedAt(r)'
      BY <2>0
      DEF LockInv, SerializedAt, Undoing, UnderLock, TypeOK,
          Replicas, Manifests, DeleteOps, LockedOps, Ops, Goto, Working,
          Keeping, Answer
    <2>4. Serialized'
      BY <2>2, <2>3, OthersStaySerialized DEF Serialized
    <2>5. ManifestLast'
      BY <2>0 DEF LockInv, SerializedAt, Undoing, UnderLock, ManifestLast,
             Goto, Working, Keeping, Answer
    <2> QED BY <2>1, <2>4, <2>5 DEF LockInv
  <1>16. ASSUME NEW r \in Reqs, DropBackup(r) PROVE LockInv'
    <2> USE <1>16 DEF DropBackup, Raises
    <2>0. SerializedAt(r)
      BY DEF LockInv, Serialized
    <2>1. TypeOK'
      <3>1. RequestTypes /\ WorldTypes
        BY TypeParts DEF LockInv
      <3>2. WorldTypes'
        BY <3>1, RemoveFromDir, DirTypes DEF WorldTypes
      <3>3. RequestTypes'
        BY <2>0, <3>1, ReplyTypes
        DEF RequestTypes, SerializedAt, Replicas, Labels, Goto, Working,
            Keeping, Answer
      <3> QED BY <3>2, <3>3 DEF TypeOK, RequestTypes, WorldTypes
    <2>2. OnlyMoves(r)
      BY DEF LockInv, OnlyMoves, UnderLock, TypeOK,
             Goto, Working, Keeping, Answer
    <2>3. SerializedAt(r)'
      BY <2>0
      DEF LockInv, SerializedAt, Undoing, UnderLock, TypeOK,
          Replicas, Manifests, DeleteOps, LockedOps, Ops, Goto, Working,
          Keeping, Answer
    <2>4. Serialized'
      BY <2>2, <2>3, OthersStaySerialized DEF Serialized
    <2>5. ManifestLast'
      BY <2>0 DEF LockInv, SerializedAt, Undoing, UnderLock, ManifestLast,
             Goto, Working, Keeping, Answer
    <2> QED BY <2>1, <2>4, <2>5 DEF LockInv
  <1>17. ASSUME NEW r \in Reqs, Mark(r) PROVE LockInv'
    <2> USE <1>17 DEF Mark, Raises, Done
    <2>0. SerializedAt(r)
      BY DEF LockInv, Serialized
    <2>1. TypeOK'
      <3>1. RequestTypes /\ WorldTypes
        BY TypeParts DEF LockInv
      <3>2. WorldTypes'
        BY <2>0, <3>1
        DEF WorldTypes, RequestTypes, SerializedAt, Manifests, Replicas
      <3>3. RequestTypes'
        BY <2>0, <3>1, ReplyTypes
        DEF RequestTypes, SerializedAt, Replicas, Labels, Goto, Working,
            Keeping, Answer
      <3> QED BY <3>2, <3>3 DEF TypeOK, RequestTypes, WorldTypes
    <2>2. OnlyMoves(r)
      BY DEF LockInv, OnlyMoves, UnderLock, TypeOK,
             Goto, Working, Keeping, Answer
    <2>3. SerializedAt(r)'
      BY <2>0
      DEF LockInv, SerializedAt, Undoing, UnderLock, TypeOK,
          Replicas, Manifests, DeleteOps, LockedOps, Ops, Goto, Working,
          Keeping, Answer
    <2>4. Serialized'
      BY <2>2, <2>3, OthersStaySerialized DEF Serialized
    <2>5. ManifestLast'
      BY <2>0 DEF LockInv, SerializedAt, Undoing, UnderLock, ManifestLast,
             Goto, Working, Keeping, Answer
    <2> QED BY <2>1, <2>4, <2>5 DEF LockInv
  <1>18. ASSUME NEW r \in Reqs, RemoveObject(r) PROVE LockInv'
    <2> USE <1>18 DEF RemoveObject
    <2>0. SerializedAt(r)
      BY DEF LockInv, Serialized
    <2>1. TypeOK'
      <3>1. RequestTypes /\ WorldTypes
        BY TypeParts DEF LockInv
      <3>2. WorldTypes'
        BY <2>0, <3>1
        DEF WorldTypes, RequestTypes, SerializedAt, Manifests, Replicas
      <3>3. RequestTypes'
        BY <2>0, <3>1, ReplyTypes
        DEF RequestTypes, SerializedAt, Replicas, Labels, Goto, Working,
            Keeping, Answer
      <3> QED BY <3>2, <3>3 DEF TypeOK, RequestTypes, WorldTypes
    <2>2. OnlyMoves(r)
      BY DEF LockInv, OnlyMoves, UnderLock, TypeOK,
             Goto, Working, Keeping, Answer
    <2>3. SerializedAt(r)'
      BY <2>0
      DEF LockInv, SerializedAt, Undoing, UnderLock, TypeOK,
          Replicas, Manifests, DeleteOps, LockedOps, Ops, Goto, Working,
          Keeping, Answer
    <2>4. Serialized'
      BY <2>2, <2>3, OthersStaySerialized DEF Serialized
    <2>5. ManifestLast'
      BY <2>0 DEF LockInv, SerializedAt, Undoing, UnderLock, ManifestLast,
             Goto, Working, Keeping, Answer
    <2> QED BY <2>1, <2>4, <2>5 DEF LockInv
  <1>19. ASSUME NEW r \in Reqs, RemoveManifest(r) PROVE LockInv'
    <2> USE <1>19 DEF RemoveManifest, Fails
    <2>0. SerializedAt(r)
      BY DEF LockInv, Serialized
    <2>1. TypeOK'
      <3>1. RequestTypes /\ WorldTypes
        BY TypeParts DEF LockInv
      <3>2. WorldTypes'
        BY <2>0, <3>1
        DEF WorldTypes, RequestTypes, SerializedAt, Manifests, Replicas
      <3>3. RequestTypes'
        BY <2>0, <3>1, ReplyTypes
        DEF RequestTypes, SerializedAt, Replicas, Labels, Goto, Working,
            Keeping, Answer
      <3> QED BY <3>2, <3>3 DEF TypeOK, RequestTypes, WorldTypes
    <2>2. OnlyMoves(r)
      BY DEF LockInv, OnlyMoves, UnderLock, TypeOK,
             Goto, Working, Keeping, Answer
    <2>3. SerializedAt(r)'
      BY <2>0
      DEF LockInv, SerializedAt, Undoing, UnderLock, TypeOK,
          Replicas, Manifests, DeleteOps, LockedOps, Ops, Goto, Working,
          Keeping, Answer
    <2>4. Serialized'
      BY <2>2, <2>3, OthersStaySerialized DEF Serialized
    <2>5. ManifestLast'
      BY <2>0 DEF LockInv, SerializedAt, Undoing, UnderLock, ManifestLast,
             Goto, Working, Keeping, Answer
    <2> QED BY <2>1, <2>4, <2>5 DEF LockInv
  <1>20. ASSUME NEW r \in Reqs, RemoveFails(r) PROVE LockInv'
    <2> USE <1>20 DEF RemoveFails, Fails
    <2>0. SerializedAt(r)
      BY DEF LockInv, Serialized
    <2>1. TypeOK'
      <3>1. RequestTypes /\ WorldTypes
        BY TypeParts DEF LockInv
      <3>2. WorldTypes'
        BY <2>0, <3>1
        DEF WorldTypes, RequestTypes, SerializedAt, Manifests, Replicas
      <3>3. RequestTypes'
        BY <2>0, <3>1, ReplyTypes
        DEF RequestTypes, SerializedAt, Replicas, Labels, Goto, Working,
            Keeping, Answer
      <3> QED BY <3>2, <3>3 DEF TypeOK, RequestTypes, WorldTypes
    <2>2. OnlyMoves(r)
      BY DEF LockInv, OnlyMoves, UnderLock, TypeOK,
             Goto, Working, Keeping, Answer
    <2>3. SerializedAt(r)'
      BY <2>0
      DEF LockInv, SerializedAt, Undoing, UnderLock, TypeOK,
          Replicas, Manifests, DeleteOps, LockedOps, Ops, Goto, Working,
          Keeping, Answer
    <2>4. Serialized'
      BY <2>2, <2>3, OthersStaySerialized DEF Serialized
    <2>5. ManifestLast'
      BY <2>0 DEF LockInv, SerializedAt, Undoing, UnderLock, ManifestLast,
             Goto, Working, Keeping, Answer
    <2> QED BY <2>1, <2>4, <2>5 DEF LockInv
  <1>21. ASSUME NEW r \in Reqs, Clear(r) PROVE LockInv'
    <2> USE <1>21 DEF Clear, Raises, Done
    <2>0. SerializedAt(r)
      BY DEF LockInv, Serialized
    <2>1. TypeOK'
      <3>1. RequestTypes /\ WorldTypes
        BY TypeParts DEF LockInv
      <3>2. WorldTypes'
        BY <2>0, <3>1
        DEF WorldTypes, RequestTypes, SerializedAt, Manifests, Replicas
      <3>3. RequestTypes'
        BY <2>0, <3>1, ReplyTypes
        DEF RequestTypes, SerializedAt, Replicas, Labels, Goto, Working,
            Keeping, Answer
      <3> QED BY <3>2, <3>3 DEF TypeOK, RequestTypes, WorldTypes
    <2>2. OnlyMoves(r)
      BY DEF LockInv, OnlyMoves, UnderLock, TypeOK,
             Goto, Working, Keeping, Answer
    <2>3. SerializedAt(r)'
      BY <2>0
      DEF LockInv, SerializedAt, Undoing, UnderLock, TypeOK,
          Replicas, Manifests, DeleteOps, LockedOps, Ops, Goto, Working,
          Keeping, Answer
    <2>4. Serialized'
      BY <2>2, <2>3, OthersStaySerialized DEF Serialized
    <2>5. ManifestLast'
      BY <2>0 DEF LockInv, SerializedAt, Undoing, UnderLock, ManifestLast,
             Goto, Working, Keeping, Answer
    <2> QED BY <2>1, <2>4, <2>5 DEF LockInv
  <1>22. ASSUME NEW r \in Reqs, ArchiveLocal(r) PROVE LockInv'
    <2> USE <1>22 DEF ArchiveLocal, Raises, Fails
    <2>0. SerializedAt(r)
      BY DEF LockInv, Serialized
    <2>1. TypeOK'
      <3>1. RequestTypes /\ WorldTypes
        BY TypeParts DEF LockInv
      <3>2. WorldTypes'
        BY <2>0, <3>1
        DEF WorldTypes, RequestTypes, SerializedAt, Manifests, Replicas
      <3>3. RequestTypes'
        BY <2>0, <3>1, ReplyTypes
        DEF RequestTypes, SerializedAt, Replicas, Labels, Goto, Working,
            Keeping, Answer
      <3> QED BY <3>2, <3>3 DEF TypeOK, RequestTypes, WorldTypes
    <2>2. OnlyMoves(r)
      BY DEF LockInv, OnlyMoves, UnderLock, TypeOK,
             Goto, Working, Keeping, Answer
    <2>3. SerializedAt(r)'
      BY <2>0
      DEF LockInv, SerializedAt, Undoing, UnderLock, TypeOK,
          Replicas, Manifests, DeleteOps, LockedOps, Ops, Goto, Working,
          Keeping, Answer
    <2>4. Serialized'
      BY <2>2, <2>3, OthersStaySerialized DEF Serialized
    <2>5. ManifestLast'
      BY <2>0 DEF LockInv, SerializedAt, Undoing, UnderLock, ManifestLast,
             Goto, Working, Keeping, Answer
    <2> QED BY <2>1, <2>4, <2>5 DEF LockInv
  <1>23. ASSUME NEW r \in Reqs, DeleteCase(r) PROVE LockInv'
    <2> USE <1>23 DEF DeleteCase, Fails
    <2>0. SerializedAt(r)
      BY DEF LockInv, Serialized
    <2>1. TypeOK'
      <3>1. RequestTypes /\ WorldTypes
        BY TypeParts DEF LockInv
      <3>2. WorldTypes'
        BY <2>0, <3>1
        DEF WorldTypes, RequestTypes, SerializedAt, Manifests, Replicas
      <3>3. RequestTypes'
        BY <2>0, <3>1, ReplyTypes
        DEF RequestTypes, SerializedAt, Replicas, Labels, Goto, Working,
            Keeping, Answer
      <3> QED BY <3>2, <3>3 DEF TypeOK, RequestTypes, WorldTypes
    <2>2. OnlyMoves(r)
      BY DEF LockInv, OnlyMoves, UnderLock, TypeOK,
             Goto, Working, Keeping, Answer
    <2>3. SerializedAt(r)'
      BY <2>0
      DEF LockInv, SerializedAt, Undoing, UnderLock, TypeOK,
          Replicas, Manifests, DeleteOps, LockedOps, Ops, Goto, Working,
          Keeping, Answer
    <2>4. Serialized'
      BY <2>2, <2>3, OthersStaySerialized DEF Serialized
    <2>5. ManifestLast'
      BY <2>0 DEF LockInv, SerializedAt, Undoing, UnderLock, ManifestLast,
             Goto, Working, Keeping, Answer
    <2> QED BY <2>1, <2>4, <2>5 DEF LockInv
  <1>24. ASSUME NEW r \in Reqs, RemoveFile(r) PROVE LockInv'
    <2> USE <1>24 DEF RemoveFile
    <2>0. SerializedAt(r)
      BY DEF LockInv, Serialized
    <2>1. TypeOK'
      <3>1. RequestTypes /\ WorldTypes
        BY TypeParts DEF LockInv
      <3>2. WorldTypes'
        BY <3>1, RemoveFromDir, DirTypes DEF WorldTypes
      <3>3. RequestTypes'
        BY <2>0, <3>1, ReplyTypes
        DEF RequestTypes, SerializedAt, Replicas, Labels, Goto, Working,
            Keeping, Answer
      <3> QED BY <3>2, <3>3 DEF TypeOK, RequestTypes, WorldTypes
    <2>2. OnlyMoves(r)
      BY DEF LockInv, OnlyMoves, UnderLock, TypeOK,
             Goto, Working, Keeping, Answer
    <2>3. SerializedAt(r)'
      BY <2>0
      DEF LockInv, SerializedAt, Undoing, UnderLock, TypeOK,
          Replicas, Manifests, DeleteOps, LockedOps, Ops, Goto, Working,
          Keeping, Answer
    <2>4. Serialized'
      BY <2>2, <2>3, OthersStaySerialized DEF Serialized
    <2>5. ManifestLast'
      BY <2>0 DEF LockInv, SerializedAt, Undoing, UnderLock, ManifestLast,
             Goto, Working, Keeping, Answer
    <2> QED BY <2>1, <2>4, <2>5 DEF LockInv
  <1>25. ASSUME NEW r \in Reqs, RemoveDir(r) PROVE LockInv'
    <2> USE <1>25 DEF RemoveDir, Done
    <2>0. SerializedAt(r)
      BY DEF LockInv, Serialized
    <2>1. TypeOK'
      <3>1. RequestTypes /\ WorldTypes
        BY TypeParts DEF LockInv
      <3>2. WorldTypes'
        BY <3>1, DirTypes DEF WorldTypes
      <3>3. RequestTypes'
        BY <2>0, <3>1, ReplyTypes
        DEF RequestTypes, SerializedAt, Replicas, Labels, Goto, Working,
            Keeping, Answer
      <3> QED BY <3>2, <3>3 DEF TypeOK, RequestTypes, WorldTypes
    <2>2. OnlyMoves(r)
      BY DEF LockInv, OnlyMoves, UnderLock, TypeOK,
             Goto, Working, Keeping, Answer
    <2>3. SerializedAt(r)'
      BY <2>0
      DEF LockInv, SerializedAt, Undoing, UnderLock, TypeOK,
          Replicas, Manifests, DeleteOps, LockedOps, Ops, Goto, Working,
          Keeping, Answer
    <2>4. Serialized'
      BY <2>2, <2>3, OthersStaySerialized DEF Serialized
    <2>5. ManifestLast'
      BY <2>0 DEF LockInv, SerializedAt, Undoing, UnderLock, ManifestLast,
             Goto, Working, Keeping, Answer
    <2> QED BY <2>1, <2>4, <2>5 DEF LockInv
  <1>26. ASSUME NEW r \in Reqs, RemoveDirFails(r) PROVE LockInv'
    <2> USE <1>26 DEF RemoveDirFails, Fails
    <2>0. SerializedAt(r)
      BY DEF LockInv, Serialized
    <2>1. TypeOK'
      <3>1. RequestTypes /\ WorldTypes
        BY TypeParts DEF LockInv
      <3>2. WorldTypes'
        BY <2>0, <3>1
        DEF WorldTypes, RequestTypes, SerializedAt, Manifests, Replicas
      <3>3. RequestTypes'
        BY <2>0, <3>1, ReplyTypes
        DEF RequestTypes, SerializedAt, Replicas, Labels, Goto, Working,
            Keeping, Answer
      <3> QED BY <3>2, <3>3 DEF TypeOK, RequestTypes, WorldTypes
    <2>2. OnlyMoves(r)
      BY DEF LockInv, OnlyMoves, UnderLock, TypeOK,
             Goto, Working, Keeping, Answer
    <2>3. SerializedAt(r)'
      BY <2>0
      DEF LockInv, SerializedAt, Undoing, UnderLock, TypeOK,
          Replicas, Manifests, DeleteOps, LockedOps, Ops, Goto, Working,
          Keeping, Answer
    <2>4. Serialized'
      BY <2>2, <2>3, OthersStaySerialized DEF Serialized
    <2>5. ManifestLast'
      BY <2>0 DEF LockInv, SerializedAt, Undoing, UnderLock, ManifestLast,
             Goto, Working, Keeping, Answer
    <2> QED BY <2>1, <2>4, <2>5 DEF LockInv
  <1>27. ASSUME NEW r \in Reqs, DropRow(r) PROVE LockInv'
    <2> USE <1>27 DEF DropRow, Done, Raises
    <2>0. SerializedAt(r)
      BY DEF LockInv, Serialized
    <2>1. TypeOK'
      <3>1. RequestTypes /\ WorldTypes
        BY TypeParts DEF LockInv
      <3>2. WorldTypes'
        BY <2>0, <3>1
        DEF WorldTypes, RequestTypes, SerializedAt, Manifests, Replicas
      <3>3. RequestTypes'
        BY <2>0, <3>1, ReplyTypes
        DEF RequestTypes, SerializedAt, Replicas, Labels, Goto, Working,
            Keeping, Answer
      <3> QED BY <3>2, <3>3 DEF TypeOK, RequestTypes, WorldTypes
    <2>2. OnlyMoves(r)
      BY DEF LockInv, OnlyMoves, UnderLock, TypeOK,
             Goto, Working, Keeping, Answer
    <2>3. SerializedAt(r)'
      BY <2>0
      DEF LockInv, SerializedAt, Undoing, UnderLock, TypeOK,
          Replicas, Manifests, DeleteOps, LockedOps, Ops, Goto, Working,
          Keeping, Answer
    <2>4. Serialized'
      BY <2>2, <2>3, OthersStaySerialized DEF Serialized
    <2>5. ManifestLast'
      BY <2>0 DEF LockInv, SerializedAt, Undoing, UnderLock, ManifestLast,
             Goto, Working, Keeping, Answer
    <2> QED BY <2>1, <2>4, <2>5 DEF LockInv
  <1>28. CASE Tick
    BY <1>28
    DEF Tick, LockInv, TypeOK, Serialized, SerializedAt, ManifestLast,
        Undoing
  <1>29. CASE Restart
    BY <1>29
    DEF Restart, LockInv, ManifestLast, Serialized, SerializedAt, UnderLock,
        TypeOK, Manifests, Replicas, Dirs, Keys, Labels, Replies, NoReply,
        NoDir, Ops, LockedOps, DeleteOps
  <1>30. CASE UNCHANGED vars
    BY <1>30
    DEF vars, LockInv, TypeOK, Serialized, SerializedAt, ManifestLast,
        Undoing
  <1> QED
    BY <1>1, <1>2, <1>3, <1>4, <1>5, <1>6, <1>7, <1>8, <1>9,
       <1>10, <1>11, <1>12, <1>13, <1>14, <1>15, <1>16, <1>17, <1>18,
       <1>19, <1>20, <1>21, <1>22, <1>23, <1>24, <1>25, <1>26, <1>27,
       <1>28, <1>29, <1>30
    DEF Next, Progress

\* The types, and one holder of the lock of a case at a time.
THEOREM LockInvariant == Spec => []LockInv
  BY InitInv, NextInv, PTL DEF Spec

\* delete_replica removes the manifest last, on every path through
\* replicate, delete and their failures: metadata whose manifest is gone
\* describes no object that is still in the bucket.
THEOREM ManifestGoesLast == Spec => []ManifestLast
  <1>1. LockInv => ManifestLast
    BY DEF LockInv
  <1> QED BY <1>1, LockInvariant, PTL

-----------------------------------------------------------------------------
(* What a request knows of the replica and the directory: no copy is lost,   *)
(* and an endpoint that answers success tells the truth.                     *)


\* What a step of r leaves alone: the tables of the other requests, the row
\* unless the index lock is free, and the directories unless r restores or deletes.
StaysInLane(r) ==
    /\ OnlyMoves(r)
    /\ idxLock' = idxLock \/ idxLock \in {r, NoReq}
    /\ recorded' = recorded \/ idxLock = NoReq
    /\ \/ UNCHANGED <<local, backup>>
       \/ pc[r] \in Restoring
       \/ pc[r] = "rmtree" /\ backup' = backup /\ (local' = NoDir \/ local' \subseteq local)

\* Such a step leaves the other requests with what they know.
LEMMA OthersStayWorking ==
  ASSUME LockInv, WorkInv, NEW r \in Reqs, StaysInLane(r)
  PROVE  \A s \in Reqs \ {r} : WorkingAt(s)'
  <1> SUFFICES ASSUME NEW s \in Reqs \ {r} PROVE WorkingAt(s)'
    OBVIOUS
  <1>1. SerializedAt(s) /\ SerializedAt(r) /\ WorkingAt(s) /\ WorkingAt(r) /\ op[r] \in Ops
        /\ s # NoReq /\ r # NoReq
    BY ConstantsAssumption DEF LockInv, Serialized, WorkInv, TypeOK
  <1>2. /\ pc'[s] = pc[s] /\ op'[s] = op[s] /\ snap'[s] = snap[s] /\ todo'[s] = todo[s]
        /\ caseLock = s => caseLock' = s
        /\ idxLock = s => idxLock' = s /\ recorded' = recorded
    BY <1>1 DEF StaysInLane, OnlyMoves
  <1>3. CASE pc[s] \in UnderLock \/ (pc[s] = "rmtree" /\ op[s] = "archive")
    <2>1. caseLock = s
      BY <1>1, <1>3 DEF SerializedAt, WorkingAt, Verified
    <2>2. pc[r] \notin UnderLock /\ pc[r] \notin Restoring /\ ~(pc[r] = "rmtree" /\ op[r] = "archive")
      BY <1>1, <2>1 DEF SerializedAt, WorkingAt, Verified, UnderLock, Restoring
    <2>3. UNCHANGED <<recorded, manifest, objects>>
      BY <2>2 DEF StaysInLane, OnlyMoves
    <2>4. \/ UNCHANGED <<local, backup>>
          \/ /\ recorded = NoReplica
             /\ backup' = backup
             /\ local' = NoDir \/ local' \subseteq local
      BY <1>1, <2>2 DEF StaysInLane, WorkingAt, DeleteOps
    <2>5. \A m : Within(local, m) => Within(local', m)
      BY <2>4 DEF Within, NoDir
    <2>6. snap[s] \in Manifests => snap[s] # NoReplica
      BY ConstantsAssumption DEF Manifests
    <2>7. CASE UNCHANGED <<local, backup>>
      BY <1>1, <1>2, <2>1, <2>3, <2>7 DEF WorkingAt, Verified, NeedsKey, Within
    <2>8. CASE /\ recorded = NoReplica
               /\ pc[s] \in {"get_case", "list", "upload", "rollback", "record", "load", "remove"}
      <3>1. pc[s] \notin {"download", "archive", "clear", "rmtree", "delete_case", "drop_row"} \cup Restoring
        BY <2>8 DEF Restoring
      <3> QED BY <1>1, <1>2, <2>3, <2>5, <3>1 DEF WorkingAt, Verified, Restoring
    <2> QED
      BY <1>1, <1>3, <2>4, <2>6, <2>7, <2>8
      DEF WorkingAt, Verified, SerializedAt, UnderLock, Restoring
  <1>4. CASE pc[s] \notin UnderLock /\ ~(pc[s] = "rmtree" /\ op[s] = "archive")
    <2>1. CASE pc[s] \in {"rmtree", "drop_row"}
      <3>1. idxLock = s /\ recorded = NoReplica /\ op[s] \in DeleteOps
        BY <1>1, <1>4, <2>1 DEF WorkingAt, Verified, DeleteOps
      <3>2. pc[r] \notin Restoring /\ pc[r] # "rmtree"
        <4>1. \A m \in Manifests : m # NoReplica
          BY ConstantsAssumption DEF Manifests
        <4>2. pc[r] \in Restoring => recorded \in Manifests
          BY <1>1 DEF WorkingAt, Verified
        <4>3. pc[r] = "rmtree" => idxLock = r
          BY <1>1 DEF WorkingAt, Verified
        <4> QED BY <3>1, <4>1, <4>2, <4>3
      <3>3. UNCHANGED <<local, backup>> /\ recorded' = NoReplica /\ idxLock' = s
        BY <1>2, <3>1, <3>2 DEF StaysInLane
      <3> QED
        BY <1>1, <1>2, <1>4, <2>1, <3>1, <3>3
        DEF WorkingAt, Verified, Restoring, UnderLock, DeleteOps
    <2>2. CASE pc[s] \notin {"rmtree", "drop_row"}
      BY <1>1, <1>2, <1>4, <2>2 DEF WorkingAt, Verified, Restoring, UnderLock
    <2> QED BY <2>1, <2>2
  <1> QED BY <1>3, <1>4

\* Every step of a request stays in its lane, and what it knows remains true.
LEMMA RequestWorks ==
  ASSUME LockInv, WorkInv, NEW r \in Reqs, Submit(r) \/ Progress(r)
  PROVE  /\ StaysInLane(r) /\ WorkingAt(r)'
         /\ recorded' # NoReplica => Within(local', recorded')
  <1> DEFINE Known == recorded' # NoReplica => Within(local', recorded')
  <1> USE ConstantsAssumption
  <1> USE DEF rowVars, diskVars, bucketVars, envVars
  <1>0. /\ SerializedAt(r) /\ WorkingAt(r) /\ (recorded # NoReplica => Within(local, recorded))
        /\ op[r] \in Ops /\ pc \in [Reqs -> Labels] /\ op \in [Reqs -> Ops]
        /\ snap \in [Reqs -> Replicas] /\ todo \in [Reqs -> SUBSET Files]
        /\ recorded \in Replicas /\ local \in Dirs /\ r # NoReq
    BY DEF LockInv, Serialized, WorkInv, TypeOK
  <1>1. CASE Submit(r)
    <2> USE <1>1 DEF Submit
    <2>1. StaysInLane(r)
      BY <1>0 DEF StaysInLane, OnlyMoves, UnderLock, Restoring, Goto, Working, Keeping, Answer
    <2>2. WorkingAt(r)'
      BY <1>0
      DEF WorkingAt, Verified, SerializedAt, UnderLock, Restoring, NeedsKey, Undoing, Within,
                  DeleteOps, LockedOps, Ops, Manifests, Goto, Working, Keeping, Answer
    <2>3. Known
      BY <1>0
      DEF WorkingAt, Verified, SerializedAt, Within, Restoring, Goto, Working, Keeping, Answer
    <2> QED BY <2>1, <2>2, <2>3
  <1>2. CASE Lock(r)
    <2> USE <1>2 DEF Lock
    <2>1. StaysInLane(r)
      BY <1>0 DEF StaysInLane, OnlyMoves, UnderLock, Restoring, Goto, Working, Keeping, Answer
    <2>2. WorkingAt(r)'
      BY <1>0
      DEF WorkingAt, Verified, SerializedAt, UnderLock, Restoring, NeedsKey, Undoing, Within,
                  DeleteOps, LockedOps, Ops, Manifests, Goto, Working, Keeping, Answer
    <2>3. Known
      BY <1>0
      DEF WorkingAt, Verified, SerializedAt, Within, Restoring, Goto, Working, Keeping, Answer
    <2> QED BY <2>1, <2>2, <2>3
  <1>3. CASE GetCase(r)
    <2> USE <1>3 DEF GetCase, IndexFree, Missing, Conflict
    <2>1. StaysInLane(r)
      BY <1>0 DEF StaysInLane, OnlyMoves, UnderLock, Restoring, Goto, Working, Keeping, Answer
    <2>2. WorkingAt(r)'
      <3>1. CASE pc'[r] = "idle"
        BY <1>0, <3>1 DEF WorkingAt, Verified, Restoring, Goto, Working, Answer
      <3>2. CASE pc'[r] # "idle"
        <4>1. /\ pc'[r] = FirstStep(op[r]) /\ op' = op /\ snap'[r] = recorded /\ op[r] \in LockedOps
              /\ op[r] # "replicate" => recorded # NoReplica
          BY <1>0, <3>2 DEF SerializedAt, LockedOps, UnderLock, Goto, Working, Answer
        <4>2. pc'[r] \in {"list", "clear", "load"}
              /\ (pc'[r] = "clear" => op[r] = "forget") /\ (pc'[r] = "load" => op[r] # "forget")
          BY <4>1 DEF FirstStep
        <4> QED BY <1>0, <4>1, <4>2 DEF WorkingAt, Verified, FirstStep, Restoring, Replicas
      <3> QED BY <3>1, <3>2
    <2>3. Known
      BY <1>0
      DEF WorkingAt, Verified, SerializedAt, Within, Restoring, Goto, Working, Keeping, Answer
    <2> QED BY <2>1, <2>2, <2>3
  <1>4. CASE List(r)
    <2> USE <1>4 DEF List, Fails, Raises
    <2>1. StaysInLane(r)
      BY <1>0 DEF StaysInLane, OnlyMoves, UnderLock, Restoring, Goto, Working, Keeping, Answer
    <2>2. WorkingAt(r)'
      BY <1>0
      DEF WorkingAt, Verified, SerializedAt, UnderLock, Restoring, NeedsKey, Undoing, Within,
                  DeleteOps, LockedOps, Ops, Manifests, Goto, Working, Keeping, Answer
    <2>3. Known
      BY <1>0
      DEF WorkingAt, Verified, SerializedAt, Within, Restoring, Goto, Working, Keeping, Answer
    <2> QED BY <2>1, <2>2, <2>3
  <1>5. CASE Upload(r)
    <2> USE <1>5 DEF Upload
    <2>1. StaysInLane(r)
      BY <1>0 DEF StaysInLane, OnlyMoves, UnderLock, Restoring, Goto, Working, Keeping, Answer
    <2>2. WorkingAt(r)'
      BY <1>0
      DEF WorkingAt, Verified, SerializedAt, UnderLock, Restoring, NeedsKey, Undoing, Within,
                  DeleteOps, LockedOps, Ops, Manifests, Goto, Working, Keeping, Answer
    <2>3. Known
      BY <1>0
      DEF WorkingAt, Verified, SerializedAt, Within, Restoring, Goto, Working, Keeping, Answer
    <2> QED BY <2>1, <2>2, <2>3
  <1>6. CASE UploadFails(r)
    <2> USE <1>6 DEF UploadFails
    <2>1. StaysInLane(r)
      BY <1>0 DEF StaysInLane, OnlyMoves, UnderLock, Restoring, Goto, Working, Keeping, Answer
    <2>2. WorkingAt(r)'
      BY <1>0
      DEF WorkingAt, Verified, SerializedAt, UnderLock, Restoring, NeedsKey, Undoing, Within,
                  DeleteOps, LockedOps, Ops, Manifests, Goto, Working, Keeping, Answer
    <2>3. Known
      BY <1>0
      DEF WorkingAt, Verified, SerializedAt, Within, Restoring, Goto, Working, Keeping, Answer
    <2> QED BY <2>1, <2>2, <2>3
  <1>7. CASE PutManifest(r)
    <2> USE <1>7 DEF PutManifest
    <2>1. StaysInLane(r)
      BY <1>0 DEF StaysInLane, OnlyMoves, UnderLock, Restoring, Goto, Working, Keeping, Answer
    <2>2. WorkingAt(r)'
      BY <1>0
      DEF WorkingAt, Verified, SerializedAt, UnderLock, Restoring, NeedsKey, Undoing, Within,
                  DeleteOps, LockedOps, Ops, Manifests, Goto, Working, Keeping, Answer
    <2>3. Known
      BY <1>0
      DEF WorkingAt, Verified, SerializedAt, Within, Restoring, Goto, Working, Keeping, Answer
    <2> QED BY <2>1, <2>2, <2>3
  <1>8. CASE Rollback(r)
    <2> USE <1>8 DEF Rollback
    <2>1. StaysInLane(r)
      BY <1>0 DEF StaysInLane, OnlyMoves, UnderLock, Restoring, Goto, Working, Keeping, Answer
    <2>2. WorkingAt(r)'
      BY <1>0
      DEF WorkingAt, Verified, SerializedAt, UnderLock, Restoring, NeedsKey, Undoing, Within,
                  DeleteOps, LockedOps, Ops, Manifests, Goto, Working, Keeping, Answer
    <2>3. Known
      BY <1>0
      DEF WorkingAt, Verified, SerializedAt, Within, Restoring, Goto, Working, Keeping, Answer
    <2> QED BY <2>1, <2>2, <2>3
  <1>9. CASE RollbackDone(r)
    <2> USE <1>9 DEF RollbackDone, Fails
    <2>1. StaysInLane(r)
      BY <1>0 DEF StaysInLane, OnlyMoves, UnderLock, Restoring, Goto, Working, Keeping, Answer
    <2>2. WorkingAt(r)'
      BY <1>0
      DEF WorkingAt, Verified, SerializedAt, UnderLock, Restoring, NeedsKey, Undoing, Within,
                  DeleteOps, LockedOps, Ops, Manifests, Goto, Working, Keeping, Answer
    <2>3. Known
      BY <1>0
      DEF WorkingAt, Verified, SerializedAt, Within, Restoring, Goto, Working, Keeping, Answer
    <2> QED BY <2>1, <2>2, <2>3
  <1>10. CASE Record(r)
    <2> USE <1>10 DEF Record, IndexFree, Done
    <2>1. StaysInLane(r)
      BY <1>0 DEF StaysInLane, OnlyMoves, UnderLock, Restoring, Goto, Working, Keeping, Answer
    <2>2. WorkingAt(r)'
      BY <1>0
      DEF WorkingAt, Verified, SerializedAt, UnderLock, Restoring, NeedsKey, Undoing, Within,
                  DeleteOps, LockedOps, Ops, Manifests, Goto, Working, Keeping, Answer
    <2>3. Known
      BY <1>0
      DEF WorkingAt, Verified, SerializedAt, Within, Restoring, Goto, Working, Keeping, Answer
    <2> QED BY <2>1, <2>2, <2>3
  <1>11. CASE LoadManifest(r)
    <2> USE <1>11 DEF LoadManifest, Fails
    <2>1. StaysInLane(r)
      BY <1>0 DEF StaysInLane, OnlyMoves, UnderLock, Restoring, Goto, Working, Keeping, Answer
    <2>2. WorkingAt(r)'
      BY <1>0
      DEF WorkingAt, Verified, SerializedAt, UnderLock, Restoring, NeedsKey, Undoing, Within,
                  DeleteOps, LockedOps, Ops, Manifests, Goto, Working, Keeping, Answer
    <2>3. Known
      BY <1>0
      DEF WorkingAt, Verified, SerializedAt, Within, Restoring, Goto, Working, Keeping, Answer
    <2> QED BY <2>1, <2>2, <2>3
  <1>12. CASE Download(r)
    <2> USE <1>12 DEF Download, Fails
    <2>1. StaysInLane(r)
      BY <1>0 DEF StaysInLane, OnlyMoves, UnderLock, Restoring, Goto, Working, Keeping, Answer
    <2>2. WorkingAt(r)'
      BY <1>0
      DEF WorkingAt, Verified, SerializedAt, UnderLock, Restoring, NeedsKey, Undoing, Within,
                  DeleteOps, LockedOps, Ops, Manifests, Goto, Working, Keeping, Answer
    <2>3. Known
      BY <1>0
      DEF WorkingAt, Verified, SerializedAt, Within, Restoring, Goto, Working, Keeping, Answer
    <2> QED BY <2>1, <2>2, <2>3
  <1>13. CASE Authenticate(r)
    <2> USE <1>13 DEF Authenticate, Raises, Done
    <2>1. StaysInLane(r)
      BY <1>0 DEF StaysInLane, OnlyMoves, UnderLock, Restoring, Goto, Working, Keeping, Answer
    <2>2. WorkingAt(r)'
      <3>1. CASE pc'[r] = "idle"
        BY <1>0, <3>1 DEF WorkingAt, Verified, Restoring, Goto, Working, Keeping, Answer
      <3>2. CASE pc'[r] # "idle"
        <4>1. /\ pc'[r] = (IF op[r] = "archive" THEN "archive" ELSE "swap") /\ op[r] # "verify"
              /\ NeedsKey(r) /\ recorded = snap[r] /\ manifest = snap[r] /\ snap[r] \in Manifests
              /\ caseLock = r /\ snap[r].files \ todo[r] \subseteq objects /\ todo[r] = {}
              /\ UNCHANGED <<caseLock, op, snap, todo>>
          BY <1>0, <3>2 DEF WorkingAt, Verified, Goto, Keeping, Answer
        <4> QED BY <4>1 DEF WorkingAt, Verified, NeedsKey, Restoring
      <3> QED BY <3>1, <3>2
    <2>3. Known
      BY <1>0
      DEF WorkingAt, Verified, SerializedAt, Within, Restoring, Goto, Working, Keeping, Answer
    <2> QED BY <2>1, <2>2, <2>3
  <1>14. CASE Swap(r)
    <2> USE <1>14 DEF Swap, Fails, Raises
    <2>1. StaysInLane(r)
      BY <1>0 DEF StaysInLane, OnlyMoves, UnderLock, Restoring, Goto, Working, Keeping, Answer
    <2>2. WorkingAt(r)'
      <3>1. CASE pc'[r] = "idle"
        BY <1>0, <3>1 DEF WorkingAt, Verified, Restoring, Goto, Working, Keeping, Answer
      <3>2. CASE pc'[r] # "idle"
        <4>1. /\ pc'[r] \in {"install", "reinstall"} /\ local' = NoDir
              /\ pc'[r] = "reinstall" => backup' = local /\ local # NoDir
              /\ NeedsKey(r) /\ recorded = snap[r] /\ manifest = snap[r] /\ snap[r] \in Manifests
              /\ caseLock = r /\ snap[r].files \ todo[r] \subseteq objects /\ todo[r] = {}
              /\ op[r] \in {"restore", "overwrite"} /\ UNCHANGED <<caseLock, op, snap, todo>>
          BY <1>0, <3>2 DEF WorkingAt, Verified, Restoring, Goto, Keeping, Answer, Nonempty
        <4>2. local # NoDir => local \subseteq snap[r].files
          BY <1>0, <4>1 DEF Within, Manifests
        <4> QED BY <4>1, <4>2 DEF WorkingAt, Verified, NeedsKey, Restoring
      <3> QED BY <3>1, <3>2
    <2>3. Known
      BY <1>0
      DEF WorkingAt, Verified, SerializedAt, Within, Restoring, Goto, Working, Keeping, Answer
    <2> QED BY <2>1, <2>2, <2>3
  <1>15. CASE Install(r)
    <2> USE <1>15 DEF Install, Raises
    <2>1. StaysInLane(r)
      BY <1>0 DEF StaysInLane, OnlyMoves, UnderLock, Restoring, Goto, Working, Keeping, Answer
    <2>2. WorkingAt(r)'
      BY <1>0
      DEF WorkingAt, Verified, SerializedAt, UnderLock, Restoring, NeedsKey, Undoing, Within,
                  DeleteOps, LockedOps, Ops, Manifests, Goto, Working, Keeping, Answer
    <2>3. Known
      <3>1. recorded = snap[r] /\ snap[r] \in Manifests /\ (pc[r] = "reinstall" => backup \subseteq snap[r].files)
        BY <1>0 DEF WorkingAt, Verified, Restoring
      <3>2. local' \in {snap[r].files, local} \/ (pc[r] = "reinstall" /\ local' = backup)
        OBVIOUS
      <3> QED BY <1>0, <3>1, <3>2 DEF Within
    <2> QED BY <2>1, <2>2, <2>3
  <1>16. CASE DropBackup(r)
    <2> USE <1>16 DEF DropBackup, Raises
    <2>1. StaysInLane(r)
      BY <1>0 DEF StaysInLane, OnlyMoves, UnderLock, Restoring, Goto, Working, Keeping, Answer
    <2>2. WorkingAt(r)'
      BY <1>0
      DEF WorkingAt, Verified, SerializedAt, UnderLock, Restoring, NeedsKey, Undoing, Within,
                  DeleteOps, LockedOps, Ops, Manifests, Goto, Working, Keeping, Answer
    <2>3. Known
      BY <1>0
      DEF WorkingAt, Verified, SerializedAt, Within, Restoring, Goto, Working, Keeping, Answer
    <2> QED BY <2>1, <2>2, <2>3
  <1>17. CASE Mark(r)
    <2> USE <1>17 DEF Mark, IndexFree, Done, Raises
    <2>1. StaysInLane(r)
      BY <1>0 DEF StaysInLane, OnlyMoves, UnderLock, Restoring, Goto, Working, Keeping, Answer
    <2>2. WorkingAt(r)'
      BY <1>0
      DEF WorkingAt, Verified, SerializedAt, UnderLock, Restoring, NeedsKey, Undoing, Within,
                  DeleteOps, LockedOps, Ops, Manifests, Goto, Working, Keeping, Answer
    <2>3. Known
      BY <1>0
      DEF WorkingAt, Verified, SerializedAt, Within, Restoring, Goto, Working, Keeping, Answer
    <2> QED BY <2>1, <2>2, <2>3
  <1>18. CASE RemoveObject(r)
    <2> USE <1>18 DEF RemoveObject
    <2>1. StaysInLane(r)
      BY <1>0 DEF StaysInLane, OnlyMoves, UnderLock, Restoring, Goto, Working, Keeping, Answer
    <2>2. WorkingAt(r)'
      BY <1>0
      DEF WorkingAt, Verified, SerializedAt, UnderLock, Restoring, NeedsKey, Undoing, Within,
                  DeleteOps, LockedOps, Ops, Manifests, Goto, Working, Keeping, Answer
    <2>3. Known
      BY <1>0
      DEF WorkingAt, Verified, SerializedAt, Within, Restoring, Goto, Working, Keeping, Answer
    <2> QED BY <2>1, <2>2, <2>3
  <1>19. CASE RemoveManifest(r)
    <2> USE <1>19 DEF RemoveManifest, Fails
    <2>1. StaysInLane(r)
      BY <1>0 DEF StaysInLane, OnlyMoves, UnderLock, Restoring, Goto, Working, Keeping, Answer
    <2>2. WorkingAt(r)'
      BY <1>0
      DEF WorkingAt, Verified, SerializedAt, UnderLock, Restoring, NeedsKey, Undoing, Within,
                  DeleteOps, LockedOps, Ops, Manifests, Goto, Working, Keeping, Answer
    <2>3. Known
      BY <1>0
      DEF WorkingAt, Verified, SerializedAt, Within, Restoring, Goto, Working, Keeping, Answer
    <2> QED BY <2>1, <2>2, <2>3
  <1>20. CASE RemoveFails(r)
    <2> USE <1>20 DEF RemoveFails, Fails
    <2>1. StaysInLane(r)
      BY <1>0 DEF StaysInLane, OnlyMoves, UnderLock, Restoring, Goto, Working, Keeping, Answer
    <2>2. WorkingAt(r)'
      BY <1>0
      DEF WorkingAt, Verified, SerializedAt, UnderLock, Restoring, NeedsKey, Undoing, Within,
                  DeleteOps, LockedOps, Ops, Manifests, Goto, Working, Keeping, Answer
    <2>3. Known
      BY <1>0
      DEF WorkingAt, Verified, SerializedAt, Within, Restoring, Goto, Working, Keeping, Answer
    <2> QED BY <2>1, <2>2, <2>3
  <1>21. CASE Clear(r)
    <2> USE <1>21 DEF Clear, IndexFree, Done, Raises
    <2>1. StaysInLane(r)
      BY <1>0 DEF StaysInLane, OnlyMoves, UnderLock, Restoring, Goto, Working, Keeping, Answer
    <2>2. WorkingAt(r)'
      BY <1>0
      DEF WorkingAt, Verified, SerializedAt, UnderLock, Restoring, NeedsKey, Undoing, Within,
                  DeleteOps, LockedOps, Ops, Manifests, Goto, Working, Keeping, Answer
    <2>3. Known
      BY <1>0
      DEF WorkingAt, Verified, SerializedAt, Within, Restoring, Goto, Working, Keeping, Answer
    <2> QED BY <2>1, <2>2, <2>3
  <1>22. CASE ArchiveLocal(r)
    <2> USE <1>22 DEF ArchiveLocal, IndexFree, Raises, Fails
    <2>1. StaysInLane(r)
      BY <1>0 DEF StaysInLane, OnlyMoves, UnderLock, Restoring, Goto, Working, Keeping, Answer
    <2>2. WorkingAt(r)'
      <3>1. CASE pc'[r] = "idle"
        BY <1>0, <3>1 DEF WorkingAt, Verified, Restoring, Goto, Working, Keeping, Answer
      <3>2. CASE pc'[r] # "idle"
        <4>1. /\ pc'[r] = "rmtree" /\ idxLock' = r /\ op[r] = "archive"
              /\ NeedsKey(r) /\ recorded = snap[r] /\ manifest = snap[r] /\ snap[r] \in Manifests
              /\ caseLock = r /\ snap[r].files \ todo[r] \subseteq objects /\ todo[r] = {}
              /\ UNCHANGED <<caseLock, op, snap, todo>>
          BY <1>0, <3>2 DEF WorkingAt, Verified, Goto, Keeping, Answer
        <4> QED BY <4>1 DEF WorkingAt, Verified, NeedsKey, Restoring, DeleteOps
      <3> QED BY <3>1, <3>2
    <2>3. Known
      BY <1>0
      DEF WorkingAt, Verified, SerializedAt, Within, Restoring, Goto, Working, Keeping, Answer
    <2> QED BY <2>1, <2>2, <2>3
  <1>23. CASE DeleteCase(r)
    <2> USE <1>23 DEF DeleteCase, IndexFree, Fails
    <2>1. StaysInLane(r)
      BY <1>0 DEF StaysInLane, OnlyMoves, UnderLock, Restoring, Goto, Working, Keeping, Answer
    <2>2. WorkingAt(r)'
      BY <1>0
      DEF WorkingAt, Verified, SerializedAt, UnderLock, Restoring, NeedsKey, Undoing, Within,
                  DeleteOps, LockedOps, Ops, Manifests, Goto, Working, Keeping, Answer
    <2>3. Known
      BY <1>0
      DEF WorkingAt, Verified, SerializedAt, Within, Restoring, Goto, Working, Keeping, Answer
    <2> QED BY <2>1, <2>2, <2>3
  <1>24. CASE RemoveFile(r)
    <2> USE <1>24 DEF RemoveFile
    <2>1. StaysInLane(r)
      BY <1>0 DEF StaysInLane, OnlyMoves, UnderLock, Restoring, Goto, Working, Keeping, Answer
    <2>2. WorkingAt(r)'
      BY <1>0
      DEF WorkingAt, Verified, SerializedAt, UnderLock, Restoring, NeedsKey, Undoing, Within,
                  DeleteOps, LockedOps, Ops, Manifests, Goto, Working, Keeping, Answer
    <2>3. Known
      <3>1. PICK f \in local : local' = local \ {f}
        OBVIOUS
      <3>2. CASE local = NoDir
        <4>1. local' = {}
          BY <3>1, <3>2 DEF NoDir
        <4> QED BY <4>1 DEF Within
      <3>3. CASE local # NoDir
        BY <1>0, <3>1, <3>3 DEF Within
      <3> QED BY <3>2, <3>3
    <2> QED BY <2>1, <2>2, <2>3
  <1>25. CASE RemoveDir(r)
    <2> USE <1>25 DEF RemoveDir, Done
    <2>1. StaysInLane(r)
      BY <1>0
      DEF WorkingAt, Verified, StaysInLane, OnlyMoves, UnderLock, Restoring, Goto, Working,
          Keeping, Answer
    <2>2. WorkingAt(r)'
      BY <1>0
      DEF WorkingAt, Verified, SerializedAt, UnderLock, Restoring, NeedsKey, Undoing, Within,
                  DeleteOps, LockedOps, Ops, Manifests, Goto, Working, Keeping, Answer
    <2>3. Known
      BY <1>0
      DEF WorkingAt, Verified, SerializedAt, Within, Restoring, Goto, Working, Keeping, Answer
    <2> QED BY <2>1, <2>2, <2>3
  <1>26. CASE RemoveDirFails(r)
    <2> USE <1>26 DEF RemoveDirFails, Fails
    <2>1. StaysInLane(r)
      BY <1>0
      DEF WorkingAt, Verified, StaysInLane, OnlyMoves, UnderLock, Restoring, Goto, Working,
          Keeping, Answer
    <2>2. WorkingAt(r)'
      BY <1>0
      DEF WorkingAt, Verified, SerializedAt, UnderLock, Restoring, NeedsKey, Undoing, Within,
                  DeleteOps, LockedOps, Ops, Manifests, Goto, Working, Keeping, Answer
    <2>3. Known
      BY <1>0
      DEF WorkingAt, Verified, SerializedAt, Within, Restoring, Goto, Working, Keeping, Answer
    <2> QED BY <2>1, <2>2, <2>3
  <1>27. CASE DropRow(r)
    <2> USE <1>27 DEF DropRow, Done, Raises
    <2>1. StaysInLane(r)
      BY <1>0
      DEF WorkingAt, Verified, StaysInLane, OnlyMoves, UnderLock, Restoring, Goto, Working,
          Keeping, Answer
    <2>2. WorkingAt(r)'
      BY <1>0
      DEF WorkingAt, Verified, SerializedAt, UnderLock, Restoring, NeedsKey, Undoing, Within,
                  DeleteOps, LockedOps, Ops, Manifests, Goto, Working, Keeping, Answer
    <2>3. Known
      BY <1>0
      DEF WorkingAt, Verified, SerializedAt, Within, Restoring, Goto, Working, Keeping, Answer
    <2> QED BY <2>1, <2>2, <2>3
  <1> QED
    BY <1>1, <1>2, <1>3, <1>4, <1>5, <1>6, <1>7, <1>8, <1>9, <1>10, <1>11, <1>12, <1>13, <1>14,
       <1>15, <1>16, <1>17, <1>18, <1>19, <1>20, <1>21, <1>22, <1>23, <1>24, <1>25, <1>26, <1>27
    DEF Progress

\* What every request knows stays true, whatever the others do and whatever fails.
LEMMA WorkNext == LockInv /\ WorkInv /\ [Next]_vars => WorkInv'
  <1> SUFFICES ASSUME LockInv, WorkInv, [Next]_vars PROVE WorkInv'
    OBVIOUS
  <1>1. ASSUME NEW r \in Reqs, Submit(r) \/ Progress(r) PROVE WorkInv'
    BY <1>1, RequestWorks, OthersStayWorking DEF WorkInv
  <1>2. CASE Tick
    BY <1>2
    DEF Tick, WorkInv, WorkingAt, Verified, Within, NeedsKey, rowVars, diskVars, bucketVars
  <1>3. CASE Restart
    BY <1>3
    DEF Restart, WorkInv, WorkingAt, Verified, Restoring, Within, rowVars, diskVars, bucketVars
  <1>4. CASE UNCHANGED vars
    BY <1>4
    DEF vars, WorkInv, WorkingAt, Verified, Within, NeedsKey, rowVars, diskVars, bucketVars
  <1> QED BY <1>1, <1>2, <1>3, <1>4 DEF Next

\* Requests past the download hold a complete replica, and a local directory
\* under deletion belongs to a case without one, at all times.
THEOREM WorkInvariant == Spec => []WorkInv
  <1>1. Init => WorkInv
    BY DEF Init, WorkInv, WorkingAt, Verified, Restoring
  <1> QED BY <1>1, WorkNext, LockInvariant, PTL DEF Spec

\* The lock of a case serializes the requests on it, whatever fails, and each
\* of them has what its next step takes for granted.
THEOREM ArchiveInvariant == Spec => []ArchiveInv
  <1>1. LockInv /\ WorkInv => ArchiveInv
    BY DEF ArchiveInv
  <1> QED BY <1>1, LockInvariant, WorkInvariant, PTL

\* The steps that touch the files of the case on either side, and what each
\* leaves of a complete copy.
LEMMA CopyStays ==
  ASSUME LockInv, WorkInv, Files # {}, NEW r \in Reqs, Progress(r), ~RemovesOnDemand(r),
         CopySomewhere
  PROVE  CopySomewhere'
  <1> USE DEF rowVars, diskVars, bucketVars, envVars
  <1>0. /\ SerializedAt(r) /\ WorkingAt(r) /\ (recorded # NoReplica => Within(local, recorded))
        /\ NoDir # Files /\ local \in Dirs /\ backup \in Dirs
        /\ \A m \in Manifests : m # NoReplica /\ m.files \subseteq Files
    <2>1. NoDir # Files /\ \A m \in Manifests : m # NoReplica /\ m.files \subseteq Files
      BY ConstantsAssumption DEF NoDir, Manifests
    <2> QED BY <2>1 DEF LockInv, Serialized, WorkInv, TypeOK
  <1>1. CASE Upload(r)
    BY <1>1 DEF Upload, CopySomewhere, Restorable
  <1>2. CASE UploadFails(r)
    BY <1>2 DEF UploadFails, CopySomewhere, Restorable
  <1>3. CASE PutManifest(r)
    BY <1>0, <1>3 DEF PutManifest, SerializedAt, CopySomewhere, Restorable
  <1>4. CASE Rollback(r)
    BY <1>0, <1>4 DEF Rollback, SerializedAt, CopySomewhere, Restorable
  <1>5. CASE Record(r)
    BY <1>0, <1>5 DEF Record, SerializedAt, CopySomewhere, Restorable
  <1>6. CASE Swap(r)
    BY <1>0, <1>6 DEF Swap, Nonempty, CopySomewhere, Restorable
  <1>7. CASE Install(r)
    BY <1>0, <1>7 DEF Install, WorkingAt, CopySomewhere, Restorable
  <1>8. CASE DropBackup(r)
    <2>1. local = snap[r].files /\ backup \subseteq snap[r].files /\ snap[r].files \subseteq Files
      BY <1>0, <1>8 DEF DropBackup, WorkingAt, Verified, Restoring
    <2>2. backup = Files => local = Files
      BY <2>1
    <2> QED BY <1>8, <2>2 DEF DropBackup, CopySomewhere, Restorable
  <1>9. CASE RemoveObject(r)
    BY <1>0, <1>9
    DEF RemoveObject, RemovesOnDemand, WorkingAt, SerializedAt, Undoing, CopySomewhere, Restorable
  <1>10. CASE RemoveManifest(r)
    BY <1>0, <1>10
    DEF RemoveManifest, RemovesOnDemand, WorkingAt, SerializedAt, Undoing, CopySomewhere,
       Restorable
  <1>11. CASE RemoveFails(r)
    BY <1>0, <1>11
    DEF RemoveFails, RemovesOnDemand, WorkingAt, SerializedAt, Undoing, CopySomewhere, Restorable
  <1>12. CASE Clear(r)
    BY <1>0, <1>12 DEF Clear, RemovesOnDemand, WorkingAt
  <1>13. CASE RemoveFile(r)
    <2>1. op[r] = "archive" /\ pc[r] = "rmtree"
      BY <1>0, <1>13 DEF RemoveFile, RemovesOnDemand, WorkingAt, DeleteOps
    <2>2. Restorable /\ recorded.files \subseteq Files
      BY <1>0, <2>1 DEF WorkingAt, Verified, Restorable
    <2>3. local = Files => recorded.files = Files
      BY <1>0, <2>2 DEF Within, Restorable
    <2> QED BY <1>13, <2>2, <2>3 DEF RemoveFile, CopySomewhere, Restorable
  <1>14. CASE RemoveDir(r)
    BY <1>14 DEF RemoveDir, CopySomewhere, Restorable
  <1>15. CASE \/ Lock(r) \/ GetCase(r) \/ List(r) \/ RollbackDone(r) \/ LoadManifest(r) \/ Download(r)
            \/ Authenticate(r) \/ Mark(r) \/ ArchiveLocal(r) \/ DeleteCase(r) \/ RemoveDirFails(r) \/ DropRow(r)
    <2>1. UNCHANGED <<recorded, local, backup, objects, manifest>>
      BY <1>15
      DEF Lock, GetCase, List, RollbackDone, LoadManifest, Download, Authenticate, Mark,
          ArchiveLocal, DeleteCase, RemoveDirFails, DropRow
    <2> QED BY <2>1 DEF CopySomewhere, Restorable
  <1> QED
    BY <1>1, <1>2, <1>3, <1>4, <1>5, <1>6, <1>7, <1>8, <1>9, <1>10, <1>11, <1>12, <1>13, <1>14,
       <1>15
    DEF Progress

\* No failure, race or restart loses the last complete copy of a case that has
\* files, unless a deletion was asked for.
THEOREM NoCopyIsLost ==
  ASSUME Files # {}
  PROVE  Spec => KeepsACopy
  <1>1. ASSUME LockInv, WorkInv, [Next]_vars, CopySomewhere, ~(\E r \in Reqs : RemovesOnDemand(r))
        PROVE  CopySomewhere'
    <2>1. ASSUME NEW r \in Reqs, Progress(r) PROVE CopySomewhere'
      BY <1>1, <2>1, CopyStays
    <2>2. ASSUME Tick \/ Restart \/ UNCHANGED vars \/ \E r \in Reqs : Submit(r)
          PROVE  CopySomewhere'
      BY <1>1, <2>2
      DEF Tick, Restart, vars, Submit, rowVars, diskVars, bucketVars, CopySomewhere, Restorable
    <2> QED BY <1>1, <2>1, <2>2 DEF Next
  <1>2. LockInv /\ WorkInv /\ [Next]_vars
          => (CopySomewhere /\ ~(\E r \in Reqs : RemovesOnDemand(r)) => CopySomewhere')
    BY <1>1
  <1> QED BY <1>2, LockInvariant, WorkInvariant, PTL DEF Spec, KeepsACopy

\* What a step answers with success has happened.
LEMMA SuccessStep ==
  ASSUME LockInv, WorkInv, NEW r \in Reqs, Progress(r), reply'[r].status = "ok", reply'[r] # reply[r]
  PROVE  Effect(r)
  <1> USE DEF rowVars, diskVars, bucketVars, envVars
  <1>0. SerializedAt(r) /\ WorkingAt(r) /\ op[r] \in Ops
        /\ \A m \in Manifests : m # NoReplica
    <2>1. \A m \in Manifests : m # NoReplica
      BY ConstantsAssumption DEF Manifests
    <2> QED BY <2>1 DEF LockInv, Serialized, WorkInv, TypeOK
  <1>1. reply \in [Reqs -> Replies]
    BY DEF LockInv, TypeOK
  <1>2. CASE Record(r)
    BY <1>0, <1>1, <1>2
    DEF Record, Done, Answer, Goto, SerializedAt, WorkingAt, Effect, Restorable, Undoing
  <1>3. CASE Authenticate(r)
    BY <1>0, <1>1, <1>3
    DEF Authenticate, Raises, Done, Answer, Goto, WorkingAt, Effect, Restorable
  <1>4. CASE RemoveDir(r)
    BY <1>0, <1>1, <1>4 DEF RemoveDir, Done, Answer, Goto, WorkingAt, Verified, Effect, Restorable
  <1>5. CASE Mark(r)
    BY <1>0, <1>1, <1>5
    DEF Mark, Done, Raises, Answer, WorkingAt, Verified, Restoring, Effect, Restorable
  <1>6. CASE Clear(r)
    BY <1>0, <1>1, <1>6 DEF Clear, Done, Raises, Answer, WorkingAt, Effect
  <1>7. CASE DropRow(r)
    BY <1>0, <1>1, <1>7 DEF DropRow, Done, Raises, Answer, WorkingAt, DeleteOps, Effect
  <1>8. CASE \/ Lock(r) \/ Upload(r) \/ UploadFails(r) \/ PutManifest(r) \/ Rollback(r)
            \/ RemoveObject(r) \/ RemoveFile(r)
    BY <1>8 DEF Goto, Lock, Upload, UploadFails, PutManifest, Rollback, RemoveObject, RemoveFile
  <1>9. CASE List(r) \/ RollbackDone(r)
    BY <1>1, <1>9 DEF Fails, Raises, Answer, Goto, List, RollbackDone
  <1>10. CASE Swap(r) \/ Install(r) \/ DropBackup(r) \/ RemoveManifest(r) \/ RemoveFails(r)
    BY <1>1, <1>10
    DEF Fails, Raises, Answer, Goto, Swap, Install, DropBackup, RemoveManifest, RemoveFails
  <1>11. CASE ArchiveLocal(r) \/ DeleteCase(r) \/ RemoveDirFails(r)
    BY <1>1, <1>11 DEF Fails, Raises, Answer, Goto, ArchiveLocal, DeleteCase, RemoveDirFails
  <1>12. CASE LoadManifest(r)
    BY <1>1, <1>12 DEF Fails, Answer, Goto, LoadManifest
  <1>13. CASE GetCase(r)
    BY <1>1, <1>13 DEF Answer, Goto, GetCase
  <1>14. CASE Download(r)
    <2>1. Goto(r, "download") \/ Fails(r, "503")
      BY <1>14 DEF Download
    <2> QED BY <1>1, <2>1 DEF Fails, Answer, Goto
  <1> QED
    BY <1>2, <1>3, <1>4, <1>5, <1>6, <1>7, <1>8, <1>9, <1>10, <1>11, <1>12, <1>13, <1>14
    DEF Progress

\* An endpoint that answers success has done what it says, for any requests
\* beside it and any faults.
THEOREM EndpointsTellTheTruth == Spec => SuccessIsTrue
  <1> DEFINE Truth == \A r \in Reqs :
                         reply'[r].status = "ok" /\ reply[r] # reply'[r] => Effect(r)
  <1>1. LockInv /\ WorkInv /\ [Next]_vars => Truth
    <2> SUFFICES ASSUME LockInv, WorkInv, [Next]_vars, NEW r \in Reqs, reply'[r].status = "ok",
                        reply'[r] # reply[r]
                 PROVE  Effect(r)
      OBVIOUS
    <2>1. reply \in [Reqs -> Replies]
      BY DEF LockInv, TypeOK
    <2>2. ASSUME NEW s \in Reqs, Submit(s) \/ Progress(s), s # r
          PROVE  reply'[r] = reply[r]
      BY <2>1, <2>2 DEF Progress, Submit, Lock, IndexFree, Fails, Raises, Done, Answer, Goto,
         GetCase, List, Upload, UploadFails, PutManifest, Rollback, RollbackDone, Record, LoadManifest,
         Download, Authenticate, Swap, Install, DropBackup, Mark, RemoveObject, RemoveManifest,
         RemoveFails, Clear, ArchiveLocal, DeleteCase, RemoveFile, RemoveDir, RemoveDirFails, DropRow
    <2>3. Submit(r) \/ Restart => reply'[r].status = "none"
      BY <2>1 DEF Submit, Restart, NoReply
    <2>4. Tick \/ UNCHANGED vars => reply'[r] = reply[r]
      BY DEF Tick, vars
    <2> QED BY <2>2, <2>3, <2>4, SuccessStep DEF Next
  <1> QED BY <1>1, LockInvariant, WorkInvariant, PTL DEF Spec, SuccessIsTrue

-----------------------------------------------------------------------------
(* Nothing is left in the bucket. *)

\* Without failures of the object store, a step of a request accounts for what
\* it puts into the bucket and what it takes away.
LEMMA RequestAccounts ==
  ASSUME LockInv, WorkInv, BucketIsAccounted, "s3" \notin Faults, "forget" \notin Requests,
         NEW r \in Reqs, Submit(r) \/ Progress(r)
  PROVE  /\ AccountedAt(r)'
         /\ ~indexed' => recorded' = NoReplica
         /\ recorded' # NoReplica => objects' \subseteq recorded'.files
                                    /\ manifest' \in {recorded', NoReplica}
         /\ recorded' = NoReplica /\ (\A s \in Reqs : ~Replicating(s)')
              => objects' = {} /\ manifest' = NoReplica
  <1> DEFINE Row == /\ ~indexed' => recorded' = NoReplica
                    /\ recorded' # NoReplica => /\ objects' \subseteq recorded'.files
                                               /\ manifest' \in {recorded', NoReplica}
             Empty == objects = {} /\ manifest = NoReplica
             Left  == recorded' = NoReplica /\ ~Replicating(r)' => Empty'
  <1> USE DEF rowVars, diskVars, bucketVars, envVars
  <1>0. /\ SerializedAt(r) /\ WorkingAt(r) /\ AccountedAt(r)
        /\ pc \in [Reqs -> Labels] /\ op \in [Reqs -> Ops]
        /\ snap \in [Reqs -> Replicas] /\ todo \in [Reqs -> SUBSET Files]
        /\ ~indexed => recorded = NoReplica
        /\ recorded # NoReplica => objects \subseteq recorded.files /\ manifest \in {recorded, NoReplica}
        /\ \A m \in Manifests : m # NoReplica
    <2>1. \A m \in Manifests : m # NoReplica
      BY ConstantsAssumption DEF Manifests
    <2> QED BY <2>1 DEF LockInv, Serialized, WorkInv, BucketIsAccounted, TypeOK
  <1>1. CASE pc[r] \notin UnderLock
    <2>1. UNCHANGED <<recorded, objects, manifest>> /\ OnlyMoves(r)
      BY <1>1, RequestWorks DEF StaysInLane, OnlyMoves
    <2>2. pc'[r] \in {"lock", "get_case", "idle", "rmtree", "drop_row", "delete_case"} /\ op'[r] # "forget"
      BY <1>0, <1>1
      DEF Submit, Progress, UnderLock, Lock, GetCase, List, Upload, UploadFails, PutManifest,
         Rollback,
          RollbackDone, Record, LoadManifest, Download, Authenticate, Swap, Install, DropBackup, Mark,
          RemoveObject, RemoveManifest, RemoveFails, Clear, ArchiveLocal, DeleteCase, RemoveFile,
          RemoveDir, RemoveDirFails, DropRow, Goto, Done, Fails, Raises, Answer, AccountedAt
    <2>3. ~indexed' => recorded = NoReplica
      BY <1>0, <1>1
      DEF Submit, Progress, UnderLock, Lock, GetCase, List, Upload, UploadFails, PutManifest,
         Rollback,
          RollbackDone, Record, LoadManifest, Download, Authenticate, Swap, Install, DropBackup, Mark,
          RemoveObject, RemoveManifest, RemoveFails, Clear, ArchiveLocal, DeleteCase, RemoveFile,
          RemoveDir, RemoveDirFails, DropRow, WorkingAt
    <2>4. ASSUME recorded = NoReplica, \A s \in Reqs : ~Replicating(s)'
          PROVE  Empty
      <3>1. \A s \in Reqs : ~Replicating(s)
        BY <1>1, <2>1, <2>4 DEF OnlyMoves, Replicating, Undoing, UnderLock
      <3> QED BY <2>4, <3>1 DEF BucketIsAccounted
    <2>5. AccountedAt(r)'
      BY <2>2 DEF AccountedAt
    <2> QED BY <1>0, <2>1, <2>3, <2>4, <2>5
  <1>2. CASE pc[r] \in UnderLock
    <2>1. \A s \in Reqs \ {r} : ~Replicating(s)
      BY <1>0, <1>2 DEF LockInv, Serialized, SerializedAt, Replicating, UnderLock
    <2>2. recorded = NoReplica /\ ~Replicating(r) => Empty
      BY <2>1 DEF BucketIsAccounted
    <2>3. AccountedAt(r)' /\ Row /\ Left
      <3>1. CASE GetCase(r)
        BY <1>0, <2>2, <3>1
        DEF GetCase, IndexFree, Missing, Conflict, AccountedAt, SerializedAt, WorkingAt,
           Replicating, Undoing, UnderLock,
            Goto, Working, Keeping, Answer, FirstStep, Replicas
      <3>2. CASE List(r)
        BY <1>0, <2>2, <3>2
        DEF List, Raises, Fails, AccountedAt, SerializedAt, WorkingAt, Replicating, Undoing,
           UnderLock,
            Goto, Working, Keeping, Answer
      <3>3. CASE Upload(r)
        BY <1>0, <2>2, <3>3
        DEF Upload, AccountedAt, SerializedAt, WorkingAt, Replicating, Undoing, UnderLock,
            Goto, Working, Keeping, Answer
      <3>4. CASE UploadFails(r)
        BY <1>0, <2>2, <3>4
        DEF UploadFails, AccountedAt, SerializedAt, WorkingAt, Replicating, Undoing, UnderLock,
            Goto, Working, Keeping, Answer
      <3>5. CASE PutManifest(r)
        <4> DEFINE m == [snap[r] EXCEPT !.at = clock]
        <4>1. /\ pc[r] = "upload" /\ todo[r] = {} /\ manifest' = m /\ pc'[r] = "record"
              /\ snap'[r] = m /\ op' = op /\ UNCHANGED <<indexed, recorded, objects>>
          BY <1>0, <3>5 DEF PutManifest, Goto, Working
        <4>2. m.files = snap[r].files
          BY <1>0, <4>1 DEF SerializedAt, Manifests
        <4>3. Undoing(r) /\ recorded = NoReplica /\ objects \subseteq snap[r].files
          BY <1>0, <4>1 DEF SerializedAt, AccountedAt
        <4> HIDE DEF m
        <4> QED BY <1>0, <4>1, <4>2, <4>3 DEF AccountedAt, Replicating, Undoing
      <3>6. CASE Rollback(r)
        BY <1>0, <2>2, <3>6
        DEF Rollback, AccountedAt, SerializedAt, WorkingAt, Replicating, Undoing, UnderLock,
            Goto, Working, Keeping, Answer
      <3>7. CASE RollbackDone(r)
        BY <1>0, <2>2, <3>7
        DEF RollbackDone, Fails, AccountedAt, SerializedAt, WorkingAt, Replicating, Undoing,
           UnderLock,
            Goto, Working, Keeping, Answer
      <3>8. CASE Record(r)
        BY <1>0, <2>2, <3>8
        DEF Record, IndexFree, Done, AccountedAt, SerializedAt, WorkingAt, Replicating, Undoing,
           UnderLock,
            Goto, Working, Keeping, Answer
      <3>9. CASE LoadManifest(r)
        BY <1>0, <2>2, <3>9
        DEF LoadManifest, Fails, NeedsKey, AccountedAt, SerializedAt, WorkingAt, Replicating,
           Undoing, UnderLock,
            Goto, Working, Keeping, Answer
      <3>10. CASE RemoveObject(r)
        BY <1>0, <2>2, <3>10
        DEF RemoveObject, AccountedAt, SerializedAt, WorkingAt, Replicating, Undoing, UnderLock,
            Goto, Working, Keeping, Answer
      <3>11. CASE RemoveManifest(r)
        BY <1>0, <2>2, <3>11
        DEF RemoveManifest, Fails, AccountedAt, SerializedAt, WorkingAt, Replicating, Undoing,
           UnderLock,
            Goto, Working, Keeping, Answer
      <3>12. CASE RemoveFails(r)
        BY <1>0, <2>2, <3>12
        DEF RemoveFails, AccountedAt, SerializedAt, WorkingAt, Replicating, Undoing, UnderLock,
            Goto, Working, Keeping, Answer
      <3>13. CASE Clear(r)
        BY <1>0, <2>2, <3>13
        DEF Clear, IndexFree, Done, Raises, AccountedAt, SerializedAt, WorkingAt, Replicating,
           Undoing, UnderLock,
            Goto, Working, Keeping, Answer
      <3>14. CASE \/ Download(r) \/ Authenticate(r) \/ Swap(r) \/ Install(r) \/ DropBackup(r)
                \/ Mark(r) \/ ArchiveLocal(r) \/ RemoveFile(r) \/ RemoveDir(r) \/ RemoveDirFails(r)
        <4>1. /\ UNCHANGED <<recorded, indexed, objects, manifest>> /\ op' = op
              /\ pc[r] \in {"download", "archive", "rmtree"} \cup Restoring
              /\ pc'[r] \in {"idle", "download", "archive", "rmtree", "drop_row"} \cup Restoring
          BY <1>0, <3>14
          DEF Restoring, Goto, Done, Fails, Raises, Answer, Download, Authenticate, Swap, Install,
              DropBackup, Mark, ArchiveLocal, RemoveFile, RemoveDir, RemoveDirFails
        <4> QED BY <1>0, <2>2, <4>1 DEF AccountedAt, Replicating, Restoring, Undoing
      <3>15. ~Submit(r) /\ ~Lock(r) /\ ~DeleteCase(r) /\ ~DropRow(r)
        BY <1>2 DEF Submit, Lock, DeleteCase, DropRow, UnderLock
      <3> QED
        BY <3>1, <3>2, <3>3, <3>4, <3>5, <3>6, <3>7, <3>8, <3>9, <3>10, <3>11, <3>12, <3>13,
           <3>14, <3>15
        DEF Progress
    <2> QED BY <2>3
  <1> QED BY <1>1, <1>2

\* A case that has left the index leaves nothing in the bucket, as long as the
\* object store answers, no server dies and nobody asks to forget a replica.
THEOREM NothingIsOrphaned ==
  ASSUME "s3" \notin Faults, "restart" \notin Faults, "forget" \notin Requests
  PROVE  Spec => []NoOrphans
  <1>1. Init => BucketIsAccounted
    BY DEF Init, BucketIsAccounted, AccountedAt
  <1>2. ASSUME LockInv, WorkInv, BucketIsAccounted, [Next]_vars
        PROVE  BucketIsAccounted'
    <2>1. ASSUME NEW r \in Reqs, Submit(r) \/ Progress(r)
          PROVE  BucketIsAccounted'
      <3>1. \A s \in Reqs \ {r} : AccountedAt(s)'
        <4> SUFFICES ASSUME NEW s \in Reqs \ {r} PROVE AccountedAt(s)'
          OBVIOUS
        <4>1. OnlyMoves(r) /\ AccountedAt(s) /\ SerializedAt(s) /\ SerializedAt(r)
          BY <1>2, <2>1, RequestWorks DEF StaysInLane, BucketIsAccounted, LockInv, Serialized
        <4>2. pc[s] \in UnderLock => UNCHANGED <<objects, manifest>>
          BY <4>1 DEF OnlyMoves, SerializedAt
        <4> QED BY <4>1, <4>2 DEF OnlyMoves, AccountedAt, Undoing, UnderLock
      <3> QED BY <1>2, <2>1, <3>1, RequestAccounts DEF BucketIsAccounted
    <2>2. ASSUME Tick \/ UNCHANGED vars
          PROVE  BucketIsAccounted'
      BY <1>2, <2>2
      DEF Tick, vars, rowVars, diskVars, bucketVars, BucketIsAccounted, AccountedAt, Replicating,
         Undoing
    <2> QED BY <1>2, <2>1, <2>2 DEF Next, Restart
  <1>3. LockInv /\ WorkInv /\ BucketIsAccounted /\ [Next]_vars => BucketIsAccounted'
    BY <1>2
  <1>4. BucketIsAccounted => NoOrphans
    BY DEF BucketIsAccounted, NoOrphans, Replicating
  <1> QED BY <1>1, <1>3, <1>4, LockInvariant, WorkInvariant, PTL DEF Spec
=============================================================================
