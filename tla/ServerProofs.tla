----------------------------- MODULE ServerProofs -----------------------------
(***************************************************************************)
(* Two small parts of the server: the case locks and the worker pool, for  *)
(* any number of requests, cases and workers, and encrypt_tree, for any    *)
(* set of files, any failing file operations and any number of process     *)
(* deaths.                                                                 *)
(***************************************************************************)
EXTENDS CaseLockPool, ArtifactEncryption, FiniteSetTheorems, TLAPS

-----------------------------------------------------------------------------
(* The worker pool.                                                        *)

\* A server without requests satisfies the invariant.
LEMMA InitInv == Init => PoolInv
  BY PoolAssumption
  DEF Init, PoolInv, TypeOK, WorkersMatch, LocksMatch, Queued, OnLoop,
      OnWorker, UnderLock

\* What giving the oldest waiter a worker does to the queue.
LEMMA TailQueue ==
  ASSUME NEW q \in Seq(Requests), q # <<>>,
         \A i, j \in 1..Len(q) : q[i] = q[j] => i = j
  PROVE  /\ Tail(q) \in Seq(Requests)
         /\ Head(q) \in Requests
         /\ \A i, j \in 1..Len(Tail(q)) : Tail(q)[i] = Tail(q)[j] => i = j
         /\ \A r \in Requests :
               (\E i \in 1..Len(q) : q[i] = r)
                 <=> (r = Head(q) \/ \E i \in 1..Len(Tail(q)) : Tail(q)[i] = r)
         /\ ~ \E i \in 1..Len(Tail(q)) : Tail(q)[i] = Head(q)
  <1>1. Tail(q) \in Seq(Requests) /\ Head(q) \in Requests
        /\ Len(q) \in Nat /\ Len(q) > 0 /\ Head(q) = q[1]
    OBVIOUS
  <1>2. Len(Tail(q)) = Len(q) - 1
        /\ \A i \in 1..Len(Tail(q)) : Tail(q)[i] = q[i + 1]
    OBVIOUS
  <1>3. \A i, j \in 1..Len(Tail(q)) : Tail(q)[i] = Tail(q)[j] => i = j
    BY <1>1, <1>2
  <1>4. ASSUME NEW r \in Requests, NEW i \in 1..Len(q), q[i] = r
        PROVE  r = Head(q) \/ \E k \in 1..Len(Tail(q)) : Tail(q)[k] = r
    <2>1. CASE i = 1
      BY <1>1, <1>4, <2>1
    <2>2. CASE i # 1
      <3>1. i - 1 \in 1..Len(Tail(q)) /\ Tail(q)[i - 1] = r
        BY <1>1, <1>2, <1>4, <2>2
      <3> QED BY <3>1
    <2> QED BY <2>1, <2>2
  <1>5. ASSUME NEW r \in Requests, NEW i \in 1..Len(Tail(q)), Tail(q)[i] = r
        PROVE  \E k \in 1..Len(q) : q[k] = r
    <2>1. i + 1 \in 1..Len(q) /\ q[i + 1] = r
      BY <1>1, <1>2, <1>5
    <2> QED BY <2>1
  <1>6. \E k \in 1..Len(q) : q[k] = Head(q)
    <2>1. 1 \in 1..Len(q) /\ q[1] = Head(q)
      BY <1>1
    <2> QED BY <2>1
  <1>7. ~ \E i \in 1..Len(Tail(q)) : Tail(q)[i] = Head(q)
    <2>1. ASSUME NEW i \in 1..Len(Tail(q)), Tail(q)[i] = Head(q)
          PROVE  FALSE
      <3>1. i + 1 \in 1..Len(q) /\ 1 \in 1..Len(q) /\ q[i + 1] = q[1]
        BY <1>1, <1>2, <2>1
      <3> QED BY <3>1
    <2> QED BY <2>1
  <1> QED BY <1>1, <1>3, <1>4, <1>5, <1>6, <1>7

\* What queueing a request that does not wait yet does to the queue.
LEMMA AppendQueue ==
  ASSUME NEW q \in Seq(Requests), NEW n \in Requests,
         \A i, j \in 1..Len(q) : q[i] = q[j] => i = j,
         ~ \E i \in 1..Len(q) : q[i] = n
  PROVE  /\ Append(q, n) \in Seq(Requests)
         /\ \A i, j \in 1..Len(Append(q, n)) :
               Append(q, n)[i] = Append(q, n)[j] => i = j
         /\ \A r \in Requests :
               (\E i \in 1..Len(Append(q, n)) : Append(q, n)[i] = r)
                 <=> (r = n \/ \E i \in 1..Len(q) : q[i] = r)
  <1>1. Append(q, n) \in Seq(Requests) /\ Len(q) \in Nat
    OBVIOUS
  <1>2. /\ Len(Append(q, n)) = Len(q) + 1
        /\ Append(q, n)[Len(q) + 1] = n
        /\ \A i \in 1..Len(q) : Append(q, n)[i] = q[i]
    OBVIOUS
  <1>3. \A i \in 1..Len(Append(q, n)) : i \in 1..Len(q) \/ i = Len(q) + 1
    BY <1>1, <1>2
  <1>4. \A i, j \in 1..Len(Append(q, n)) :
           Append(q, n)[i] = Append(q, n)[j] => i = j
    BY <1>1, <1>2, <1>3
  <1>5. 1..Len(q) \subseteq 1..Len(Append(q, n))
        /\ Len(q) + 1 \in 1..Len(Append(q, n))
    BY <1>1, <1>2
  <1>6. ASSUME NEW r \in Requests
        PROVE  (\E i \in 1..Len(Append(q, n)) : Append(q, n)[i] = r)
                 <=> (r = n \/ \E i \in 1..Len(q) : q[i] = r)
    BY <1>2, <1>3, <1>5
  <1> QED BY <1>1, <1>4, <1>6

\* Every step of the endpoints and of the pool keeps the two tables in step
\* with the requests.
LEMMA NextInv == PoolInv /\ [Next]_vars => PoolInv'
  <1> SUFFICES ASSUME PoolInv, [Next]_vars PROVE PoolInv'
    OBVIOUS
  <1> USE PoolAssumption
  <1>0. /\ queue \in Seq(Requests) /\ Len(queue) \in Nat
        /\ pc \in [Requests -> {"idle"} \cup OnLoop \cup OnWorker]
        /\ workers \subseteq Requests
        /\ lock \in [Cases -> Requests \cup {NoOne}]
        /\ \A i, j \in 1..Len(queue) : queue[i] = queue[j] => i = j
    BY DEF PoolInv, TypeOK, WorkersMatch
  \* The queue after a request has asked for a worker.
  <1>a. ASSUME NEW r \in Requests, AskForWorker(r), ~Queued(r)
        PROVE  /\ queue' \in Seq(Requests)
               /\ \A i, j \in 1..Len(queue') : queue'[i] = queue'[j] => i = j
               /\ \A s \in Requests : Queued(s)' <=> (s = r \/ Queued(s))
    BY <1>0, <1>a, AppendQueue DEF AskForWorker, Queued
  <1>1. ASSUME NEW r \in Requests, Arrive(r) PROVE PoolInv'
    <2> USE <1>1 DEF Arrive, Goto
    <2>1. ~Queued(r) /\ r \notin workers
      BY <1>0 DEF PoolInv, WorkersMatch, OnLoop, OnWorker
    <2>2. /\ queue' \in Seq(Requests)
          /\ \A i, j \in 1..Len(queue') : queue'[i] = queue'[j] => i = j
          /\ \A s \in Requests : Queued(s)' <=> (s = r \/ Queued(s))
      BY <2>1, <1>a
    <2>3. TypeOK'
      BY <1>0, <2>2 DEF TypeOK, OnLoop, OnWorker, AskForWorker
    <2>4. WorkersMatch'
      BY <1>0, <2>1, <2>2
      DEF PoolInv, WorkersMatch, OnLoop, OnWorker, AskForWorker
    <2>5. LocksMatch'
      BY <1>0 DEF PoolInv, LocksMatch, UnderLock, Plain, Lockers
    <2> QED BY <2>3, <2>4, <2>5 DEF PoolInv
  <1>2. ASSUME Grant PROVE PoolInv'
    <2> USE <1>2 DEF Grant
    <2>0. PICK h \in Requests : h = Head(queue)
      BY <1>0, TailQueue
    <2>1. /\ queue' \in Seq(Requests)
          /\ \A i, j \in 1..Len(queue') : queue'[i] = queue'[j] => i = j
          /\ \A r \in Requests : Queued(r) <=> (r = h \/ Queued(r)')
          /\ ~ \E i \in 1..Len(queue') : queue'[i] = h
      BY <1>0, <2>0, TailQueue DEF Queued
    <2>2. TypeOK'
      BY <1>0, <2>0, <2>1 DEF TypeOK
    <2>3. WorkersMatch'
      <3>1. ASSUME NEW r \in Requests
            PROVE  /\ pc[r] \in OnWorker <=> (Queued(r)' \/ r \in workers')
                   /\ ~(Queued(r)' /\ r \in workers')
                   /\ pc[r] = "work" => r \in workers'
        <4>1. ~(h \in workers) /\ (r = h => ~Queued(r)')
          BY <2>0, <2>1 DEF PoolInv, WorkersMatch, Queued
        <4> QED BY <2>0, <2>1, <4>1 DEF PoolInv, WorkersMatch
      <3> QED BY <2>1, <3>1 DEF WorkersMatch
    <2>4. LocksMatch'
      BY DEF PoolInv, LocksMatch
    <2> QED BY <2>2, <2>3, <2>4 DEF PoolInv
  <1>3. ASSUME NEW r \in Requests, Read(r) PROVE PoolInv'
    <2> USE <1>3 DEF Read, Goto, ReturnWorker
    <2>1. \A s \in Requests : Queued(s)' <=> Queued(s)
      BY DEF Queued
    <2>2. TypeOK'
      BY <1>0 DEF TypeOK, OnLoop, OnWorker
    <2>3. WorkersMatch'
      BY <1>0, <2>1 DEF PoolInv, WorkersMatch, OnLoop, OnWorker
    <2>4. LocksMatch'
      BY <1>0 DEF PoolInv, LocksMatch, UnderLock, Lockers
    <2> QED BY <2>2, <2>3, <2>4 DEF PoolInv
  <1>4. ASSUME NEW r \in Requests, Acquire(r) PROVE PoolInv'
    <2> USE <1>4 DEF Acquire, Goto, ReturnWorker
    <2>1. \A s \in Requests : Queued(s)' <=> Queued(s)
      BY DEF Queued
    <2>2. TypeOK'
      BY <1>0 DEF TypeOK, OnLoop, OnWorker
    <2>3. WorkersMatch'
      BY <1>0, <2>1 DEF PoolInv, WorkersMatch, OnLoop, OnWorker
    <2>4. LocksMatch'
      <3>1. r \in Lockers /\ CaseOf[r] \in Cases /\ r # NoOne
        BY DEF PoolInv, LocksMatch
      <3>2. \A s \in Requests : pc[s] \in UnderLock
               => s # r /\ CaseOf[s] # CaseOf[r]
        BY DEF PoolInv, LocksMatch, UnderLock
      <3>3. pc'[r] \in UnderLock /\ \A s \in Requests \ {r} : pc'[s] = pc[s]
        BY <1>0 DEF UnderLock
      <3>4. /\ lock'[CaseOf[r]] = r
            /\ \A c \in Cases \ {CaseOf[r]} : lock'[c] = lock[c]
        BY <1>0, <3>1
      <3>5. \A c \in Cases : lock'[c] # NoOne =>
               CaseOf[lock'[c]] = c /\ pc'[lock'[c]] \in UnderLock
        BY <1>0, <3>1, <3>2, <3>3, <3>4 DEF PoolInv, LocksMatch
      <3>6. \A s \in Requests : pc'[s] \in UnderLock => lock'[CaseOf[s]] = s
        BY <1>0, <3>1, <3>2, <3>3, <3>4 DEF PoolInv, LocksMatch
      <3>7. \A s \in Requests :
               pc'[s] \in UnderLock \cup {"acquire"} => s \in Lockers
        BY <3>1, <3>3 DEF PoolInv, LocksMatch
      <3> QED BY <3>5, <3>6, <3>7 DEF LocksMatch
    <2> QED BY <2>2, <2>3, <2>4 DEF PoolInv
  <1>5. ASSUME NEW r \in Requests, Work(r) PROVE PoolInv'
    <2> USE <1>5 DEF Work, Goto, ReturnWorker, Unlock
    <2>1. \A s \in Requests : Queued(s)' <=> Queued(s)
      BY DEF Queued
    <2>2. TypeOK'
      BY <1>0 DEF TypeOK, OnLoop, OnWorker
    <2>3. WorkersMatch'
      BY <1>0, <2>1 DEF PoolInv, WorkersMatch, OnLoop, OnWorker
    <2>4. LocksMatch'
      BY <1>0 DEF PoolInv, LocksMatch, UnderLock, Lockers
    <2> QED BY <2>2, <2>3, <2>4 DEF PoolInv
  <1>6. ASSUME NEW r \in Requests, Check(r) PROVE PoolInv'
    <2>1. CASE Goto(r, "idle") /\ Unlock(r) /\ UNCHANGED <<queue, workers>>
      <3> USE <1>6, <2>1 DEF Check, Goto, Unlock
      <3>1. \A s \in Requests : Queued(s)' <=> Queued(s)
        BY DEF Queued
      <3>2. TypeOK'
        BY <1>0 DEF TypeOK, OnLoop, OnWorker
      <3>3. WorkersMatch'
        BY <1>0, <3>1 DEF PoolInv, WorkersMatch, OnLoop, OnWorker
      <3>4. LocksMatch'
        BY <1>0 DEF PoolInv, LocksMatch, UnderLock, Lockers
      <3> QED BY <3>2, <3>3, <3>4 DEF PoolInv
    <2>2. CASE /\ Goto(r, "materialize") /\ AskForWorker(r)
               /\ UNCHANGED lock
      <3> USE <1>6, <2>2 DEF Check, Goto
      <3>1. ~Queued(r) /\ r \notin workers
        BY <1>0 DEF PoolInv, WorkersMatch, OnLoop, OnWorker
      <3>2. /\ queue' \in Seq(Requests)
            /\ \A i, j \in 1..Len(queue') : queue'[i] = queue'[j] => i = j
            /\ \A s \in Requests : Queued(s)' <=> (s = r \/ Queued(s))
        BY <3>1, <1>a
      <3>3. TypeOK'
        BY <1>0, <3>2 DEF TypeOK, OnLoop, OnWorker, AskForWorker
      <3>4. WorkersMatch'
        BY <1>0, <3>1, <3>2
        DEF PoolInv, WorkersMatch, OnLoop, OnWorker, AskForWorker
      <3>5. LocksMatch'
        BY <1>0 DEF PoolInv, LocksMatch, UnderLock, Lockers
      <3> QED BY <3>3, <3>4, <3>5 DEF PoolInv
    <2> QED BY <1>6, <2>1, <2>2 DEF Check
  <1>7. ASSUME NEW r \in Requests, Materialize(r) PROVE PoolInv'
    <2> USE <1>7 DEF Materialize, Goto, ReturnWorker, Unlock
    <2>1. \A s \in Requests : Queued(s)' <=> Queued(s)
      BY DEF Queued
    <2>2. TypeOK'
      BY <1>0 DEF TypeOK, OnLoop, OnWorker
    <2>3. WorkersMatch'
      BY <1>0, <2>1 DEF PoolInv, WorkersMatch, OnLoop, OnWorker
    <2>4. LocksMatch'
      BY <1>0 DEF PoolInv, LocksMatch, UnderLock, Lockers
    <2> QED BY <2>2, <2>3, <2>4 DEF PoolInv
  <1>8. ASSUME NEW r \in Requests, Analyse(r) PROVE PoolInv'
    <2> USE <1>8 DEF Analyse, Goto
    <2>1. ~Queued(r) /\ r \notin workers
      BY <1>0 DEF PoolInv, WorkersMatch, OnLoop, OnWorker
    <2>2. /\ queue' \in Seq(Requests)
          /\ \A i, j \in 1..Len(queue') : queue'[i] = queue'[j] => i = j
          /\ \A s \in Requests : Queued(s)' <=> (s = r \/ Queued(s))
      BY <2>1, <1>a
    <2>3. TypeOK'
      BY <1>0, <2>2 DEF TypeOK, OnLoop, OnWorker, AskForWorker
    <2>4. WorkersMatch'
      BY <1>0, <2>1, <2>2
      DEF PoolInv, WorkersMatch, OnLoop, OnWorker, AskForWorker
    <2>5. LocksMatch'
      BY <1>0 DEF PoolInv, LocksMatch, UnderLock, Plain, Lockers
    <2> QED BY <2>3, <2>4, <2>5 DEF PoolInv
  <1>9. ASSUME NEW r \in Requests, Cleanup(r) PROVE PoolInv'
    <2> USE <1>9 DEF Cleanup, Goto, ReturnWorker, Unlock
    <2>1. \A s \in Requests : Queued(s)' <=> Queued(s)
      BY DEF Queued
    <2>2. TypeOK'
      BY <1>0 DEF TypeOK, OnLoop, OnWorker
    <2>3. WorkersMatch'
      BY <1>0, <2>1 DEF PoolInv, WorkersMatch, OnLoop, OnWorker
    <2>4. LocksMatch'
      BY <1>0 DEF PoolInv, LocksMatch, UnderLock, Lockers
    <2> QED BY <2>2, <2>3, <2>4 DEF PoolInv
  <1>10. CASE UNCHANGED vars
    BY <1>10
    DEF vars, PoolInv, TypeOK, WorkersMatch, LocksMatch, Queued
  <1> QED
    BY <1>1, <1>2, <1>3, <1>4, <1>5, <1>6, <1>7, <1>8, <1>9, <1>10
    DEF Next, Step

\* Queue, workers and locks agree with what the requests are doing, whatever
\* the endpoints decide or raise (reanalyze_remote_case and the decorator).
THEOREM PoolInvariant == Spec => []PoolInv
  BY InitInv, NextInv, PTL DEF Spec

\* With at least as many workers as clients that use the locked endpoints, a
\* request that holds a case lock and waits for a worker finds one free, or
\* a busy one that will return: the pool cannot be full of requests waiting
\* for locks.
LEMMA EnoughWorkers ==
  ASSUME PoolInv, Cardinality(Lockers) <= Threads,
         NEW h \in Lockers, h \notin workers
  PROVE  \/ Cardinality(workers) < Threads
         \/ \E r \in workers : r \notin Lockers
  <1>1. IsFiniteSet(Lockers) /\ Cardinality(Lockers) \in Nat
    <2>1. Lockers \subseteq Requests
      BY PoolAssumption DEF Lockers
    <2> QED BY <2>1, PoolAssumption, FS_Subset, FS_CardinalityType
  <1>2. SUFFICES ASSUME workers \subseteq Lockers
                 PROVE  Cardinality(workers) < Threads
    OBVIOUS
  <1>3. workers # Lockers
    OBVIOUS
  <1>4. Cardinality(workers) < Cardinality(Lockers)
    BY <1>1, <1>2, <1>3, FS_Subset, FS_CardinalityType
  <1>5. Cardinality(workers) \in Nat
    BY <1>1, <1>2, FS_Subset, FS_CardinalityType
  <1> QED BY <1>1, <1>4, <1>5, PoolAssumption

\* With that many workers the requests never all wait for one another: the
\* bound below which run pool_exhausted shows that they do.
THEOREM EnoughWorkersNeverStuck ==
  ASSUME Cardinality(Lockers) <= Threads
  PROVE  Spec => []NobodyIsStuck
  <1>1. PoolInv => NobodyIsStuck
    <2> SUFFICES ASSUME PoolInv, NEW r \in Requests, pc[r] # "idle",
                        \A s \in Requests : ~CanStep(s)
                 PROVE  queue # <<>> /\ Cardinality(workers) < Threads
      BY DEF NobodyIsStuck
    <2> USE PoolAssumption
    \* Every worker serves a request that waits for a lock.
    <2>1. \A s \in workers : /\ s \in Lockers /\ pc[s] = "acquire"
                              /\ lock[CaseOf[s]] # NoOne
      BY DEF PoolInv, TypeOK, LocksMatch, CanStep
    \* Whoever holds a lock waits for a worker.
    <2>2. ASSUME NEW c \in Cases, lock[c] # NoOne
          PROVE  /\ lock[c] \in Lockers /\ lock[c] \notin workers
                 /\ Queued(lock[c])
      BY <2>1, <2>2
      DEF PoolInv, TypeOK, LocksMatch, WorkersMatch, CanStep, UnderLock,
          OnLoop, OnWorker
    <2>3. CASE workers = {}
      <3>1. Queued(r)
        BY <2>3 DEF PoolInv, TypeOK, WorkersMatch, CanStep
      <3>2. queue # <<>>
        BY <3>1 DEF Queued
      <3> QED BY <2>3, <3>2, FS_EmptySet
    <2>4. CASE workers # {}
      <3>1. PICK s \in workers : TRUE
        BY <2>4
      <3>2. CaseOf[s] \in Cases
        BY DEF PoolInv, TypeOK
      <3>3. /\ lock[CaseOf[s]] \in Lockers /\ lock[CaseOf[s]] \notin workers
            /\ Queued(lock[CaseOf[s]])
        BY <2>1, <2>2, <3>1, <3>2
      <3>4. queue # <<>>
        BY <3>3 DEF Queued
      <3> QED BY <2>1, <3>3, <3>4, EnoughWorkers
    <2> QED BY <2>3, <2>4
  <1> QED BY <1>1, PoolInvariant, PTL

-----------------------------------------------------------------------------
(* The encryption of a directory.                                          *)

\* The tree encrypt_tree is first called on satisfies the invariant.
LEMMA EncryptionStarts == EncryptionInit => EncryptionInv
  BY DEF EncryptionInit, EncryptionInv, EncryptionTypeOK, WithinBatch,
         Phases, Outcomes, EvidenceKept,
         OutcomeIsTrue, InEncrypt, Made, InUnlink,
         SourcesGone, InDrop

\* Every file operation, failure and crash of encrypt_tree preserves it.
LEMMA EncryptionGoesOn ==
  EncryptionInv /\ [EncryptionNext]_encryptionVars => EncryptionInv'
<1> SUFFICES ASSUME EncryptionInv, [EncryptionNext]_encryptionVars
             PROVE  EncryptionInv'
  OBVIOUS
<1> USE DEF EncryptionInv, EncryptionTypeOK, WithinBatch,
            Phases, Outcomes, EvidenceKept,
            OutcomeIsTrue, InEncrypt, Made,
            InUnlink, SourcesGone, InDrop,
            treeVars, callVars
<1>1. CASE Begin
  BY <1>1 DEF Begin
<1>2. ASSUME NEW f \in Files, Encrypt(f) PROVE EncryptionInv'
  BY <1>2 DEF Encrypt
<1>3. ASSUME NEW f \in Files, Discard(f) PROVE EncryptionInv'
  BY <1>3 DEF Discard
<1>4. ASSUME NEW f \in Files, Unlink(f) PROVE EncryptionInv'
  BY <1>4 DEF Unlink
<1>5. ASSUME NEW f \in Files, Restore(f) PROVE EncryptionInv'
  BY <1>5 DEF Restore
<1>6. ASSUME NEW f \in Files, Drop(f) PROVE EncryptionInv'
  BY <1>6 DEF Drop
<1>7. CASE EncryptFails
  BY <1>7 DEF EncryptFails
<1>8. CASE Raised
  BY <1>8 DEF Raised
<1>9. CASE AllEncrypted
  BY <1>9 DEF AllEncrypted
<1>10. CASE UnlinkFails
  BY <1>10 DEF UnlinkFails
<1>11. CASE Finish
  BY <1>11 DEF Finish
<1>12. CASE Restored
  BY <1>12 DEF Restored
<1>13. CASE RolledBack
  BY <1>13 DEF RolledBack
<1>14. CASE Crash
  BY <1>14 DEF Crash
<1>15. CASE UNCHANGED encryptionVars
  BY <1>15 DEF encryptionVars
<1> QED
  BY <1>1, <1>2, <1>3, <1>4, <1>5, <1>6, <1>7, <1>8, <1>9, <1>10, <1>11,
     <1>12, <1>13, <1>14, <1>15 DEF EncryptionNext

\* The phases of encrypt_tree keep the invariant in every behaviour.
THEOREM EncryptionInvariant == EncryptionSpec => []EncryptionInv
  BY EncryptionStarts, EncryptionGoesOn, PTL DEF EncryptionSpec

\* No artifact is ever lost: it is on disk in the clear or as a complete
\* ciphertext, whatever unlink, rename or write fails and wherever the
\* process dies.
THEOREM NoArtifactIsLost == EncryptionSpec => []EvidenceKept
<1>1. EncryptionInv => EvidenceKept
  BY DEF EncryptionInv
<1> QED
  BY <1>1, EncryptionInvariant, PTL

\* The result or the error of encrypt_tree describes the tree it left.
THEOREM ReportsAreTrue == EncryptionSpec => []OutcomeIsTrue
<1>1. EncryptionInv => OutcomeIsTrue
  BY DEF EncryptionInv
<1> QED
  BY <1>1, EncryptionInvariant, PTL
=============================================================================
