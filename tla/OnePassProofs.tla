---------------------------- MODULE OnePassProofs ----------------------------
(***************************************************************************)
(* The evaluation scripts, for any number of runs, places and faults. That *)
(* a lock is permanent and a result stays its run's own holds for any      *)
(* scripts that claim their lock first; that a result is final, sound and  *)
(* adds up is proved of any scripts whose text is careful (Careful in      *)
(* module OnePass, which TLC evaluates for the scripts there are).         *)
(***************************************************************************)
EXTENDS OnePass, FiniteSetTheorems, TLAPS

\* What the rows of a result may say.
Words == {"none", "started", "error"} \cup UNION {Line[k].words : k \in DOMAIN Line}

Statuses == {"none"} \cup {Line[k].status : k \in DOMAIN Line}

RunState ==
  [phase : {"idle", "running", "ended", "killed"}, at : DOMAIN Line, out : Outs \cup {Free},
   status : Statuses, rows : [Items -> Words], tally : [Outcomes -> Nat],
   tainted : SUBSET Things, outset : SUBSET Things, muted : BOOLEAN]

ResultFile ==
  [by : Runs \cup {Free}, status : Statuses, rows : [Items -> Words] \cup {<<>>},
   tally : [Outcomes -> Nat]]

Typed ==
  /\ script \in Scripts /\ wrong \subseteq Things
  /\ lock \in [Outs \cup {"shared"} -> Runs \cup {Free}]
  /\ result \in [Outs -> ResultFile]
  /\ run \in [Runs -> RunState]

LockInv == Typed /\ LockIsOwned

\* The steps of the script that is run.
LEMMA ScriptSteps ==
  ASSUME Typed
  PROVE  /\ Line \in Seq(Steps(script)) /\ Line # <<>> /\ DOMAIN Line = 1..Len(Line)
         /\ Len(Line) \in Nat \ {0} /\ IsFiniteSet(Items) /\ Free \notin Runs
         /\ \A k \in DOMAIN Line : Line[k] \in Steps(script)
         /\ \A r \in Runs : run[r] \in RunState /\ Step(r) \in Steps(script)
         /\ IF script.lock = "none" THEN \A k \in DOMAIN Line : Line[k].do # "claim"
            ELSE ClaimsFirst(script)
  <1>1. script.steps \in Seq(Steps(script)) /\ script.steps # <<>> /\ IsFiniteSet(script.items)
        /\ Free \notin Runs
        /\ IF script.lock = "none" THEN \A k \in DOMAIN script.steps : script.steps[k].do # "claim"
           ELSE ClaimsFirst(script)
    BY OnePassAssumption DEF Typed
  <1>2. DOMAIN Line = 1..Len(Line) /\ Len(Line) \in Nat \ {0}
        /\ \A k \in DOMAIN Line : Line[k] \in Steps(script)
    BY <1>1 DEF Line
  <1>3. ASSUME NEW r \in Runs
        PROVE  run[r] \in RunState /\ Step(r) \in Steps(script)
    <2>1. run[r] \in RunState
      BY DEF Typed
    <2>2. run[r].at \in DOMAIN Line
      BY <2>1 DEF RunState
    <2> QED BY <2>1, <2>2, <1>2 DEF Step
  <1> QED BY <1>1, <1>2, <1>3 DEF Line, Items

\* A run goes on: it keeps its place, its line is one of these steps and no
\* later than any of them, and the other runs stay as they are.
LEMMA GoesTo ==
  ASSUME Typed, NEW r \in Runs, NEW me \in RunState, NEW steps \in SUBSET DOMAIN Line,
         me.phase = "running", me.at = run[r].at, GoTo(r, me, steps), UNCHANGED script
  PROVE  /\ run' \in [Runs -> RunState]
         /\ \A q \in Runs : q # r => run'[q] = run[q]
         /\ run'[r].out = me.out /\ run'[r].phase # "idle"
         /\ \/ steps = {} /\ run'[r].at = run[r].at
            \/ run'[r].at \in steps /\ \A j \in steps : run'[r].at <= j
  <1>1. run \in [Runs -> RunState]
    BY DEF Typed
  <1>2. CASE steps = {} /\ run' = [run EXCEPT ![r] = [me EXCEPT !.phase = "ended"]]
    <2>1. [me EXCEPT !.phase = "ended"] \in RunState
      BY DEF RunState
    <2> QED BY <1>1, <1>2, <2>1 DEF RunState
  <1>3. ASSUME NEW k \in steps, \A j \in steps : k <= j,
               run' = [run EXCEPT ![r] = [me EXCEPT !.at = k]]
        PROVE  /\ run' \in [Runs -> RunState]
               /\ \A q \in Runs : q # r => run'[q] = run[q]
               /\ run'[r].out = me.out /\ run'[r].phase # "idle" /\ run'[r].at = k
    <2>1. [me EXCEPT !.at = k] \in RunState
      BY DEF RunState
    <2> QED BY <1>1, <1>3, <2>1 DEF RunState
  <1> QED BY <1>2, <1>3 DEF GoTo

\* A run stays on its side of the lock file, or passes it.
Moved(r) ==
  /\ run' \in [Runs -> RunState]
  /\ \A q \in Runs : q # r => run'[q] = run[q]
  /\ run'[r].out = run[r].out /\ run'[r].phase # "idle"
  /\ Past(r) => Past(r)'

\* The copy of a run that a step makes before it goes on.
Copy(r, me) ==
  /\ me \in RunState /\ me.phase = "running" /\ me.at = run[r].at /\ me.out = run[r].out

\* What is behind a run stays behind it as it goes on.
LEMMA Further ==
  ASSUME Typed, NEW r \in Runs, UNCHANGED script, run[r].at \in Nat, run'[r].at \in Nat,
         run'[r].at >= run[r].at, Past(r)
  PROVE  Past(r)'
  <1>1. PICK k \in DOMAIN Line : Line[k].do = "claim" /\ k < run[r].at
    BY DEF Past
  <1>2. k \in Nat
    BY <1>1, ScriptSteps
  <1>3. k < run'[r].at
    BY <1>1, <1>2
  <1> QED BY <1>1, <1>3 DEF Past, Line

\* A run that goes on with the next step passes the lock file only where it
\* makes it.
LEMMA OnwardMoves ==
  ASSUME Typed, NEW r \in Runs, NEW me, Copy(r, me), Onward(r, me), UNCHANGED script
  PROVE  Moved(r) /\ (~Does(r, "claim") /\ run[r].phase = "running" => (Past(r)' <=> Past(r)))
  <1> DEFINE later == {k \in DOMAIN Line : k > run[r].at /\ Line[k].do # "except"}
  <1>1. /\ run' \in [Runs -> RunState]
        /\ \A q \in Runs : q # r => run'[q] = run[q]
        /\ run'[r].out = run[r].out /\ run'[r].phase # "idle"
        /\ \/ later = {} /\ run'[r].at = run[r].at
           \/ run'[r].at \in later /\ \A j \in later : run'[r].at <= j
    BY GoesTo DEF Onward, Copy
  <1>2. DOMAIN Line = 1..Len(Line) /\ Len(Line) \in Nat /\ run[r].at \in DOMAIN Line
    BY ScriptSteps DEF RunState
  <1>3. run[r].at \in Nat /\ run'[r].at \in Nat /\ run'[r].at >= run[r].at
    BY <1>1, <1>2
  <1>4. ASSUME ~Does(r, "claim"), run[r].phase = "running", Past(r)'
        PROVE  Past(r)
    <2>1. PICK k \in DOMAIN Line : Line[k].do = "claim" /\ k < run'[r].at
      BY <1>4 DEF Past, Line
    <2>2. k # run[r].at
      BY <1>4, <2>1 DEF Does, Step
    <2>3. ~(k > run[r].at)
      <3>1. SUFFICES ASSUME k > run[r].at PROVE FALSE
        OBVIOUS
      <3>2. k \in later
        BY <2>1, <3>1
      <3> QED BY <1>1, <1>2, <1>3, <2>1, <3>2
    <2>4. k < run[r].at
      BY <1>2, <1>3, <2>1, <2>2, <2>3
    <2> QED BY <2>1, <2>4 DEF Past
  <1> QED BY <1>1, <1>3, <1>4, Further DEF Moved

\* An exception never takes a run past the lock file.
LEMMA RaiseMoves ==
  ASSUME Typed, NEW r \in Runs, NEW me, Copy(r, me), Raise(r, me), UNCHANGED script
  PROVE  Moved(r) /\ (Past(r)' <=> Past(r))
  <1> DEFINE handlers == {k \in DOMAIN Line :
                            k > run[r].at /\ Line[k].do = "except" /\ Line[k].of = Step(r).in}
  <1>1. /\ run' \in [Runs -> RunState]
        /\ \A q \in Runs : q # r => run'[q] = run[q]
        /\ run'[r].out = run[r].out /\ run'[r].phase # "idle"
        /\ \/ handlers = {} /\ run'[r].at = run[r].at
           \/ run'[r].at \in handlers /\ \A j \in handlers : run'[r].at <= j
    BY GoesTo DEF Raise, Copy
  <1>2. DOMAIN Line = 1..Len(Line) /\ Len(Line) \in Nat /\ run[r].at \in DOMAIN Line
    BY ScriptSteps DEF RunState
  <1>3. run[r].at \in Nat /\ run'[r].at \in Nat /\ run'[r].at >= run[r].at
    BY <1>1, <1>2
  <1>4. ASSUME Past(r)'
        PROVE  Past(r)
    <2>1. PICK k \in DOMAIN Line : Line[k].do = "claim" /\ k < run'[r].at
      BY <1>4 DEF Past, Line
    <2>2. script.lock # "none" /\ ClaimsFirst(script)
      BY <2>1, ScriptSteps
    <2>3. \A j \in DOMAIN Line : /\ j <= k => Line[j].in = "none"
                                 /\ Line[j].do = "except" => Line[j].of # "none"
      BY <2>1, <2>2 DEF ClaimsFirst, Line
    <2>4. SUFFICES ASSUME ~(k < run[r].at) PROVE FALSE
      BY <2>1 DEF Past
    <2>5. run[r].at <= k
      BY <1>2, <1>3, <2>1, <2>4
    <2>6. Step(r).in = "none"
      BY <1>2, <2>3, <2>5 DEF Step
    <2>7. handlers = {}
      BY <2>3, <2>6
    <2> QED BY <1>1, <2>1, <2>4, <2>7
  <1> QED BY <1>1, <1>3, <1>4, Further DEF Moved

\* A run that ends where it is.
LEMMA EndMoves ==
  ASSUME Typed, NEW r \in Runs, NEW me, Copy(r, me), UNCHANGED script,
         run' = [run EXCEPT ![r] = [me EXCEPT !.phase = "ended"]]
  PROVE  Moved(r) /\ (Past(r)' <=> Past(r))
  <1>1. run \in [Runs -> RunState] /\ [me EXCEPT !.phase = "ended"] \in RunState
    BY DEF Typed, Copy, RunState
  <1>2. /\ run' \in [Runs -> RunState]
        /\ \A q \in Runs : q # r => run'[q] = run[q]
        /\ run'[r].out = run[r].out /\ run'[r].phase = "ended" /\ run'[r].at = run[r].at
    BY <1>1 DEF Copy, RunState
  <1>3. Past(r)' <=> Past(r)
    BY <1>2 DEF Past, Line
  <1> QED BY <1>2, <1>3 DEF Moved

\* What a step of a run does to the lock files and to the results.
LockEffect(r) ==
  \/ UNCHANGED lock /\ (Past(r)' <=> Past(r))
  \/ lock[Key(r)] = Free /\ lock' = [lock EXCEPT ![Key(r)] = r]

ResultEffect(r) ==
  \/ UNCHANGED result
  \/ /\ Writes(Step(r))
     /\ \E f \in ResultFile : f.by = r /\ result' = [result EXCEPT ![run[r].out] = f]

Effect(r) == Moved(r) /\ UNCHANGED <<script, wrong>> /\ LockEffect(r) /\ ResultEffect(r)

\* The copies that the steps make.
LEMMA Copies ==
  ASSUME Typed, NEW r \in Runs, run[r].phase = "running"
  PROVE  /\ Copy(r, run[r])
         /\ \A s \in Words : Copy(r, Marked(r, s))
         /\ \A s \in Statuses : Copy(r, [run[r] EXCEPT !.status = s])
         /\ \A t \in SUBSET Things : Copy(r, [run[r] EXCEPT !.tainted = t])
         /\ \A b \in BOOLEAN : Copy(r, [run[r] EXCEPT !.muted = b])
         /\ \A t \in [Outcomes -> Nat] : Copy(r, [run[r] EXCEPT !.tally = t])
  <1>1. run[r] \in RunState
    BY ScriptSteps
  <1>2. ASSUME NEW s \in Words
        PROVE  Copy(r, Marked(r, s))
    <2>1. [i \in Items |-> IF i \in Step(r).items THEN s ELSE run[r].rows[i]] \in [Items -> Words]
      BY <1>1 DEF RunState
    <2> QED BY <1>1, <2>1 DEF Copy, Marked, RunState
  <1>3. \A s \in Statuses : Copy(r, [run[r] EXCEPT !.status = s])
    BY <1>1 DEF Copy, RunState
  <1>4. \A t \in SUBSET Things : Copy(r, [run[r] EXCEPT !.tainted = t])
    BY <1>1 DEF Copy, RunState
  <1>5. \A b \in BOOLEAN : Copy(r, [run[r] EXCEPT !.muted = b])
    BY <1>1 DEF Copy, RunState
  <1>6. \A t \in [Outcomes -> Nat] : Copy(r, [run[r] EXCEPT !.tally = t])
    BY <1>1 DEF Copy, RunState
  <1> QED BY <1>1, <1>2, <1>3, <1>4, <1>5, <1>6 DEF Copy

\* A counter goes up.
LEMMA Added ==
  ASSUME NEW t \in [Outcomes -> Nat], NEW s
  PROVE  [t EXCEPT ![s] = @ + 1] \in [Outcomes -> Nat]
  <1>1. CASE s \in Outcomes
    BY <1>1
  <1>2. CASE s \notin Outcomes
    BY <1>2
  <1> QED BY <1>1, <1>2

\* What a run writes is a result of its own.
LEMMA WrittenResult ==
  ASSUME Typed, NEW r \in Runs, NEW me, Copy(r, me), Written(r, me)
  PROVE  \E f \in ResultFile : f.by = r /\ result' = [result EXCEPT ![run[r].out] = f]
  <1> DEFINE f == [by |-> r, status |-> me.status, rows |-> me.rows, tally |-> me.tally]
  <1>1. f \in ResultFile /\ f.by = r
    BY DEF Copy, RunState, ResultFile
  <1>2. result' = [result EXCEPT ![run[r].out] = f]
    BY DEF Written, Copy
  <1> QED BY <1>1, <1>2

\* Every step of a run has an effect of this kind.
LEMMA StepEffect ==
  ASSUME Typed, NEW r \in Runs, RunStep(r)
  PROVE  Effect(r)
  <1>1. Line[run[r].at] \in Steps(script) /\ Step(r) \in Steps(script) /\ run[r] \in RunState
        /\ IsFiniteSet(Items)
    BY ScriptSteps DEF Step
  <1>2. run[r].phase = "running" /\ UNCHANGED <<script, wrong>>
    BY DEF RunStep, Look, Take, Check, Claim, Fresh, MakeDir, Publish, Score, Count, Tally, Save,
           Some, Agree, Expect, Plain, CatchRow, CatchRun, Does
  <1>3. ASSUME Pass(r), ~Does(r, "claim")
        PROVE  Moved(r) /\ (Past(r)' <=> Past(r))
    BY <1>2, <1>3, Copies, OnwardMoves DEF Pass
  <1>4. ASSUME Refuse(r)
        PROVE  Moved(r) /\ (Past(r)' <=> Past(r))
    BY <1>2, <1>4, Copies, RaiseMoves DEF Refuse
  <1>5. CASE Look(r) \/ Check(r) \/ Fresh(r) \/ MakeDir(r) \/ Some(r) \/ Agree(r) \/ Plain(r)
    <2>1. ~Does(r, "claim") /\ UNCHANGED <<lock, result>> /\ (Pass(r) \/ Refuse(r))
      BY <1>5 DEF Look, Check, Fresh, MakeDir, Some, Agree, Plain, Does
    <2> QED BY <1>2, <1>3, <1>4, <2>1 DEF Effect, LockEffect, ResultEffect
  <1>6. CASE Take(r)
    <2>1. (run[r].tainted \ Step(r).things) \cup (Step(r).things \cap wrong) \in SUBSET Things
      BY <1>1 DEF RunState, Steps, Things, Typed
    <2>2. Copy(r, [run[r] EXCEPT !.tainted =
                     (run[r].tainted \ Step(r).things) \cup (Step(r).things \cap wrong)])
      BY <1>2, <2>1, Copies
    <2>3. Onward(r, [run[r] EXCEPT !.tainted =
                       (run[r].tainted \ Step(r).things) \cup (Step(r).things \cap wrong)])
          /\ UNCHANGED <<lock, result>> /\ ~Does(r, "claim")
      BY <1>6 DEF Take, Does
    <2> QED BY <1>2, <2>2, <2>3, OnwardMoves DEF Effect, LockEffect, ResultEffect
  <1>7. CASE Claim(r)
    <2>1. CASE lock[Key(r)] = Free
      <3>1. lock' = [lock EXCEPT ![Key(r)] = r] /\ Onward(r, run[r]) /\ UNCHANGED result
        BY <1>7, <2>1 DEF Claim, Pass
      <3> QED BY <1>2, <2>1, <3>1, Copies, OnwardMoves DEF Effect, LockEffect, ResultEffect
    <2>2. CASE lock[Key(r)] # Free
      BY <1>2, <1>4, <1>7, <2>2 DEF Claim, Effect, LockEffect, ResultEffect
    <2> QED BY <2>1, <2>2
  <1>8. CASE Publish(r)
    <2> DEFINE me == [run[r] EXCEPT !.status = Step(r).status]
    <2>1. Copy(r, me)
      <3>1. Step(r).status \in Statuses
        BY <1>1 DEF Statuses, RunState, Step
      <3> QED BY <1>2, <3>1, Copies
    <2>2. Written(r, me) /\ Onward(r, me) /\ UNCHANGED lock /\ ~Does(r, "claim") /\ Writes(Step(r))
      BY <1>8 DEF Publish, Does, Writes
    <2> QED BY <1>2, <2>1, <2>2, OnwardMoves, WrittenResult DEF Effect, LockEffect, ResultEffect
  <1>9. CASE Score(r)
    <2>1. UNCHANGED <<lock, result>> /\ ~Does(r, "claim")
          /\ ((\E s \in Step(r).words : Onward(r, Marked(r, s))) \/ Refuse(r))
      BY <1>9 DEF Score, Does
    <2>2. ASSUME NEW s \in Step(r).words, Onward(r, Marked(r, s))
          PROVE  Moved(r) /\ (Past(r)' <=> Past(r))
      <3>1. s \in Words
        BY <1>1, <2>2 DEF Words, RunState, Step
      <3>2. Copy(r, Marked(r, s))
        BY <1>2, <3>1, Copies
      <3> QED BY <1>2, <2>1, <2>2, <3>2, OnwardMoves
    <2> QED BY <1>2, <1>4, <2>1, <2>2 DEF Effect, LockEffect, ResultEffect
  <1>10. CASE Count(r)
    <2>1. PICK i \in Step(r).items :
            Onward(r, [run[r] EXCEPT !.tally[run[r].rows[i]] = @ + 1])
      BY <1>10 DEF Count
    <2> DEFINE t == [run[r].tally EXCEPT ![run[r].rows[i]] = @ + 1]
    <2>2. t \in [Outcomes -> Nat]
      <3>1. run[r].tally \in [Outcomes -> Nat]
        BY <1>1 DEF RunState
      <3> QED BY <3>1, Added
    <2>3. Copy(r, [run[r] EXCEPT !.tally = t])
      BY <1>2, <2>2, Copies
    <2>4. [run[r] EXCEPT !.tally[run[r].rows[i]] = @ + 1] = [run[r] EXCEPT !.tally = t]
      BY <1>1 DEF RunState
    <2>5. UNCHANGED <<lock, result>> /\ ~Does(r, "claim")
      BY <1>10 DEF Count, Does
    <2> QED BY <1>2, <2>1, <2>3, <2>4, <2>5, OnwardMoves DEF Effect, LockEffect, ResultEffect
  <1>11. CASE Tally(r)
    <2> DEFINE t == [s \in Outcomes |-> Cardinality({i \in Step(r).items : run[r].rows[i] = s})]
    <2>1. t \in [Outcomes -> Nat]
      <3>1. ASSUME NEW s \in Outcomes
            PROVE  Cardinality({i \in Step(r).items : run[r].rows[i] = s}) \in Nat
        <4>1. {i \in Step(r).items : run[r].rows[i] = s} \subseteq Items
          BY <1>1 DEF Steps, Items
        <4> QED BY <1>1, <4>1, FS_Subset, FS_CardinalityType
      <3> QED BY <3>1
    <2>2. Copy(r, [run[r] EXCEPT !.tally = t])
      BY <1>2, <2>1, Copies
    <2>3. Onward(r, [run[r] EXCEPT !.tally = t]) /\ UNCHANGED <<lock, result>> /\ ~Does(r, "claim")
      BY <1>11 DEF Tally, Does
    <2> QED BY <1>2, <2>2, <2>3, OnwardMoves DEF Effect, LockEffect, ResultEffect
  <1>12. CASE Save(r)
    <2> DEFINE me == Marked(r, "started")
    <2>1. Copy(r, me)
      <3>1. "started" \in Words
        BY DEF Words
      <3> QED BY <1>2, <3>1, Copies
    <2>2. Written(r, me) /\ Onward(r, me) /\ UNCHANGED lock /\ ~Does(r, "claim") /\ Writes(Step(r))
      BY <1>12 DEF Save, Does, Writes
    <2> QED BY <1>2, <2>1, <2>2, OnwardMoves, WrittenResult DEF Effect, LockEffect, ResultEffect
  <1>13. CASE Expect(r) \/ CatchRun(r)
    <2> DEFINE me == [run[r] EXCEPT !.status = Step(r).status]
    <2>1. Copy(r, me)
      <3>1. Step(r).status \in Statuses
        BY <1>1 DEF Statuses, RunState, Step
      <3> QED BY <1>2, <3>1, Copies
    <2>2. UNCHANGED lock /\ ~Does(r, "claim") /\ Writes(Step(r))
      BY <1>13 DEF Expect, CatchRun, Does, Writes
    <2>3. \/ Pass(r) /\ UNCHANGED result
          \/ Written(r, me) /\ run' = [run EXCEPT ![r] = [me EXCEPT !.phase = "ended"]]
      BY <1>13 DEF Expect, CatchRun
    <2>4. CASE Pass(r) /\ UNCHANGED result
      BY <1>2, <1>3, <2>2, <2>4 DEF Effect, LockEffect, ResultEffect
    <2>5. CASE Written(r, me) /\ run' = [run EXCEPT ![r] = [me EXCEPT !.phase = "ended"]]
      BY <1>2, <2>1, <2>2, <2>5, EndMoves, WrittenResult DEF Effect, LockEffect, ResultEffect
    <2> QED BY <2>3, <2>4, <2>5
  <1>14. CASE CatchRow(r)
    <2> DEFINE marked == Marked(r, "error")
               me == IF "count" \in Step(r).words
                     THEN [marked EXCEPT !.tally["error"] = @ + 1] ELSE marked
    <2>1. Copy(r, me)
      <3>1. Copy(r, marked)
        <4>1. "error" \in Words
          BY DEF Words
        <4> QED BY <1>2, <4>1, Copies
      <3>2. Copy(r, [marked EXCEPT !.tally["error"] = @ + 1])
        <4>1. marked \in RunState
          BY <3>1 DEF Copy
        <4> DEFINE t == [marked.tally EXCEPT !["error"] = @ + 1]
        <4>2. t \in [Outcomes -> Nat]
          <5>1. marked.tally \in [Outcomes -> Nat]
            BY <4>1 DEF RunState
          <5> QED BY <5>1, Added
        <4> HIDE DEF marked
        <4>3. Copy(r, [marked EXCEPT !.tally = t])
          BY <3>1, <4>1, <4>2 DEF Copy, RunState
        <4> QED BY <4>3
      <3> QED BY <3>1, <3>2
    <2>2. Onward(r, me) /\ UNCHANGED lock /\ ~Does(r, "claim")
          /\ (UNCHANGED result \/ (Written(r, me) /\ Writes(Step(r))))
      BY <1>14 DEF CatchRow, Does, Writes
    <2> HIDE DEF me
    <2> QED BY <1>2, <2>1, <2>2, OnwardMoves, WrittenResult DEF Effect, LockEffect, ResultEffect
  <1> QED
    BY <1>5, <1>6, <1>7, <1>8, <1>9, <1>10, <1>11, <1>12, <1>13, <1>14 DEF RunStep

-----------------------------------------------------------------------------
\* Nothing has been claimed or written at the start.
LEMMA InitLockInv == Init => LockInv
  <1> SUFFICES ASSUME Init PROVE LockInv
    OBVIOUS
  <1>1. script \in Scripts /\ wrong \subseteq Things
    BY DEF Init
  <1>2. Free \notin Runs /\ DOMAIN Line = 1..Len(Line) /\ Len(Line) \in Nat /\ 1 \in DOMAIN Line
    BY <1>1, OnePassAssumption DEF Line
  <1>3. \A r \in Runs : run[r] \in RunState /\ run[r].phase = "idle" /\ run[r].at = 1
    <2>1. [i \in Items |-> "none"] \in [Items -> Words]
      BY DEF Words
    <2>2. Nothing \in [Outcomes -> Nat] /\ "none" \in Statuses
      BY DEF Nothing, Statuses
    <2> DEFINE row == [i \in Items |-> "none"]
               start == [phase |-> "idle", at |-> 1, out |-> Free, status |-> "none",
                         rows |-> row, tally |-> Nothing,
                         tainted |-> {}, outset |-> {}, muted |-> FALSE]
    <2>3. row \in [Items -> Words]
      BY <2>1
    <2>4. \A r \in Runs : run[r] = start
      BY DEF Init
    <2> HIDE DEF row
    <2>5. start \in RunState /\ start.phase = "idle" /\ start.at = 1
      BY <1>2, <2>2, <2>3 DEF RunState
    <2> QED BY <2>4, <2>5
  <1>4. Typed
    <2>1. NoResult \in ResultFile
      <3>1. Nothing \in [Outcomes -> Nat] /\ "none" \in Statuses
        BY DEF Nothing, Statuses
      <3> HIDE DEF Nothing
      <3> QED BY <3>1 DEF NoResult, ResultFile
    <2> QED BY <1>1, <1>3, <2>1 DEF Init, Typed
  <1>5. ASSUME NEW r \in Runs
        PROVE  ~Past(r)
    BY <1>2, <1>3 DEF Past
  <1>6. \A o \in Outs : result[o].by = Free
    BY DEF Init, NoResult
  <1> QED BY <1>3, <1>4, <1>5, <1>6 DEF LockInv, LockIsOwned

\* Steps of a run preserve the types.
LEMMA EffectTyped ==
  ASSUME Typed, NEW r \in Runs, run[r].out \in Outs, Effect(r)
  PROVE  Typed'
  <1>1. lock' \in [Outs \cup {"shared"} -> Runs \cup {Free}]
    BY DEF Typed, Effect, LockEffect
  <1>2. result' \in [Outs -> ResultFile]
    BY DEF Typed, Effect, ResultEffect
  <1>3. RunState' = RunState /\ ResultFile' = ResultFile /\ Things' = Things
    BY DEF Effect, RunState, ResultFile, Things, Items, Line, Words, Statuses
  <1> QED BY <1>1, <1>2, <1>3 DEF Typed, Effect, Moved

\* Where a run keeps its result, and what it has claimed, does not change.
LEMMA Elsewhere ==
  ASSUME NEW q \in Runs, run'[q] = run[q], UNCHANGED script
  PROVE  (Past(q)' <=> Past(q)) /\ Key(q)' = Key(q)
  BY DEF Past, Key, Line

\* A run that writes its result is past its lock file.
LEMMA WritersArePast ==
  ASSUME Typed, NEW r \in Runs, Writes(Step(r)), script.lock # "none"
  PROVE  Past(r)
  <1>1. PICK c \in DOMAIN Line : \A k \in DOMAIN Line :
          /\ Line[k].do = "claim" <=> k = c
          /\ Writes(Line[k]) \/ Line[k].do = "except" => k > c
    BY ScriptSteps DEF ClaimsFirst, Line
  <1>2. run[r].at \in DOMAIN Line
    BY ScriptSteps DEF RunState
  <1> QED BY <1>1, <1>2 DEF Past, Step

\* A run that makes its lock file keeps the others' lock files theirs.
LEMMA EffectOwned ==
  ASSUME LockInv, NEW r \in Runs, run[r].phase # "idle", Effect(r)
  PROVE  LockIsOwned'
  <1>1. run[r].out \in Outs /\ Typed /\ Free \notin Runs
    BY ScriptSteps DEF LockInv, LockIsOwned
  <1>2. /\ UNCHANGED script /\ Key(r)' = Key(r) /\ (Past(r) => Past(r)')
        /\ \A q \in Runs : q # r => (Past(q)' <=> Past(q)) /\ Key(q)' = Key(q) /\ run'[q] = run[q]
    BY Elsewhere DEF Effect, Moved, Key
  <1>3. Key(r) \in DOMAIN lock
    BY <1>1 DEF Key, Typed
  <1>4. \A q \in Runs : IF run'[q].phase = "idle" THEN run'[q].at = 1 ELSE run'[q].out \in Outs
    BY <1>1 DEF LockInv, LockIsOwned, Effect, Moved
  <1>5. ASSUME NEW q \in Runs, Past(q)'
        PROVE  lock'[Key(q)'] = q
    <2>1. CASE UNCHANGED lock /\ (Past(r)' <=> Past(r))
      BY <1>2, <1>5, <2>1 DEF LockInv, LockIsOwned
    <2>2. CASE lock[Key(r)] = Free /\ lock' = [lock EXCEPT ![Key(r)] = r]
      <3>1. CASE q = r
        BY <1>2, <1>3, <2>2, <3>1
      <3>2. CASE q # r
        <4>1. lock[Key(q)] = q
          BY <1>2, <1>5, <3>2 DEF LockInv, LockIsOwned
        <4>2. Key(q) # Key(r)
          BY <1>1, <2>2, <4>1
        <4> QED BY <1>2, <1>3, <2>2, <3>2, <4>1, <4>2
      <3> QED BY <3>1, <3>2
    <2> QED BY <2>1, <2>2 DEF Effect, LockEffect
  <1>6. ASSUME script.lock # "none", NEW o \in Outs, NEW q \in Runs, result'[o].by = q
        PROVE  Past(q)' /\ run'[q].out = o
    <2>1. CASE result'[o] = result[o]
      <3>1. result[o].by = q /\ Past(q) /\ run[q].out = o
        BY <1>1, <1>6, <2>1 DEF LockInv, LockIsOwned
      <3> QED BY <1>2, <3>1 DEF Effect, Moved
    <2>2. CASE result'[o] # result[o]
      <3>1. result' # result /\ ResultEffect(r)
        BY <2>2 DEF Effect
      <3>2. PICK f \in ResultFile : f.by = r /\ result' = [result EXCEPT ![run[r].out] = f]
        BY <3>1 DEF ResultEffect
      <3>3. Writes(Step(r)) /\ q = r /\ o = run[r].out
        BY <1>1, <1>6, <2>2, <3>1, <3>2 DEF Typed, ResultEffect
      <3> QED BY <1>1, <1>2, <1>6, <3>3, WritersArePast DEF Effect, Moved
    <2> QED BY <2>1, <2>2
  <1>7. result' \in [Outs -> ResultFile]
    BY <1>1 DEF Typed, Effect, ResultEffect
  <1>8. ASSUME script'.lock # "none", NEW o \in Outs, result'[o].by # Free
        PROVE  /\ \E k \in DOMAIN Line' : Line'[k].do = "claim" /\ k < run'[result'[o].by].at
               /\ run'[result'[o].by].out = o
    <2>1. result'[o].by \in Runs /\ script.lock # "none"
      BY <1>2, <1>7, <1>8 DEF ResultFile
    <2> QED BY <1>6, <2>1 DEF Past
  <1> QED BY <1>2, <1>4, <1>5, <1>8 DEF LockIsOwned, Past

\* Every step preserves the invariant.
LEMMA NextLockInv == LockInv /\ [Next]_vars => LockInv'
  <1> SUFFICES ASSUME LockInv, [Next]_vars PROVE LockInv'
    OBVIOUS
  <1>1. Typed /\ Free \notin Runs
    BY ScriptSteps DEF LockInv
  <1>2. ASSUME NEW r \in Runs, Effect(r), run[r].phase # "idle"
        PROVE  LockInv'
    <2>1. run[r].out \in Outs
      BY <1>2 DEF LockInv, LockIsOwned
    <2> QED BY <1>1, <1>2, <2>1, EffectTyped, EffectOwned DEF LockInv
  <1>3. ASSUME NEW r \in Runs, RunStep(r)
        PROVE  LockInv'
    <2>1. run[r].phase = "running"
      BY <1>3 DEF RunStep, Look, Take, Check, Claim, Fresh, MakeDir, Publish, Score, Count, Tally,
             Save, Some, Agree, Expect, Plain, CatchRow, CatchRun, Does
    <2> QED BY <1>1, <1>2, <1>3, <2>1, StepEffect
  <1>4. ASSUME NEW r \in Runs, Stumble(r)
        PROVE  LockInv'
    <2> DEFINE b == run[r].muted \/ Writes(Step(r))
    <2>1. b \in BOOLEAN
      BY DEF b, Writes
    <2>2. run[r].phase = "running" /\ Raise(r, [run[r] EXCEPT !.muted = b])
          /\ UNCHANGED <<script, wrong, lock, result>>
      BY <1>4 DEF Stumble
    <2>3. Copy(r, [run[r] EXCEPT !.muted = b])
      BY <1>1, <2>1, <2>2, Copies
    <2>4. Effect(r)
      BY <1>1, <2>2, <2>3, RaiseMoves DEF Effect, LockEffect, ResultEffect
    <2> QED BY <1>2, <2>2, <2>4
  <1>5. ASSUME NEW r \in Runs, Kill(r)
        PROVE  LockInv'
    <2>1. run[r] \in RunState /\ run[r].phase = "running" /\ UNCHANGED <<script, wrong, lock, result>>
          /\ run' = [run EXCEPT ![r].phase = "killed"]
      BY <1>1, <1>5, ScriptSteps DEF Kill
    <2>2. run \in [Runs -> RunState] /\ [run[r] EXCEPT !.phase = "killed"] \in RunState
      BY <1>1, <2>1 DEF Typed, RunState
    <2>3. /\ run' \in [Runs -> RunState] /\ \A q \in Runs : q # r => run'[q] = run[q]
          /\ run'[r].out = run[r].out /\ run'[r].phase = "killed" /\ run'[r].at = run[r].at
      BY <2>1, <2>2 DEF RunState
    <2>4. Past(r)' <=> Past(r)
      BY <2>1, <2>3 DEF Past, Line
    <2>5. Effect(r)
      BY <2>1, <2>3, <2>4 DEF Effect, Moved, LockEffect, ResultEffect
    <2> QED BY <1>2, <2>1, <2>5
  <1>6. ASSUME NEW r \in Runs, NEW o \in Outs, Begin(r, o)
        PROVE  LockInv'
    <2>1. run[r] \in RunState /\ run[r].phase = "idle" /\ UNCHANGED <<script, wrong, lock, result>>
          /\ run' = [run EXCEPT ![r].phase = "running", ![r].out = o, ![r].outset = wrong]
      BY <1>1, <1>6, ScriptSteps DEF Begin
    <2>2. run[r].at = 1
      BY <2>1 DEF LockInv, LockIsOwned
    <2>3. /\ run' \in [Runs -> RunState] /\ \A q \in Runs : q # r => run'[q] = run[q]
          /\ run'[r].out = o /\ run'[r].phase = "running" /\ run'[r].at = 1
      <3> DEFINE me == [run[r] EXCEPT !.phase = "running", !.out = o, !.outset = wrong]
      <3>1. me \in RunState /\ me.out = o /\ me.phase = "running" /\ me.at = 1
        BY <1>1, <2>1, <2>2 DEF RunState, Typed
      <3>2. run' = [run EXCEPT ![r] = me]
        BY <1>1, <2>1 DEF Typed, RunState
      <3> HIDE DEF me
      <3> QED BY <1>1, <3>1, <3>2 DEF Typed
    <2>4. ~Past(r) /\ ~Past(r)'
      BY <1>1, <2>1, <2>2, <2>3, ScriptSteps DEF Past, Line
    <2>5. Typed'
      <3>1. RunState' = RunState /\ ResultFile' = ResultFile /\ Things' = Things
        BY <2>1 DEF RunState, ResultFile, Things, Items, Line, Words, Statuses
      <3> QED BY <1>1, <2>1, <2>3, <3>1 DEF Typed
    <2>6. \A q \in Runs : q # r => (Past(q)' <=> Past(q)) /\ Key(q)' = Key(q)
      BY <2>1, <2>3, Elsewhere
    <2>7. ASSUME script'.lock # "none", NEW p \in Outs, result'[p].by # Free
          PROVE  /\ \E k \in DOMAIN Line' : Line'[k].do = "claim" /\ k < run'[result'[p].by].at
                 /\ run'[result'[p].by].out = p
      <3>1. PICK q \in Runs : q = result[p].by /\ Past(q) /\ run[q].out = p
        BY <1>1, <2>1, <2>7 DEF Typed, ResultFile, LockInv, LockIsOwned
      <3>2. q # r
        BY <2>4, <3>1
      <3>3. Past(q)' /\ run'[q].out = p
        BY <2>3, <2>6, <3>1, <3>2
      <3> QED BY <2>1, <3>1, <3>3 DEF Past
    <2>8. LockIsOwned'
      <3>1. \A q \in Runs : IF run'[q].phase = "idle" THEN run'[q].at = 1 ELSE run'[q].out \in Outs
        BY <2>3 DEF LockInv, LockIsOwned
      <3>2. \A q \in Runs : Past(q)' => lock'[Key(q)'] = q
        BY <2>1, <2>4, <2>6 DEF LockInv, LockIsOwned
      <3> QED BY <2>7, <3>1, <3>2 DEF LockIsOwned, Past
    <2> QED BY <2>5, <2>8 DEF LockInv
  <1>7. ASSUME NEW t \in Things, Change(t)
        PROVE  LockInv'
    <2>1. UNCHANGED <<script, lock, result>> /\ wrong' \subseteq Things
          /\ run' = [r \in Runs |-> [run[r] EXCEPT !.outset = @ \cap wrong']]
      BY <1>1, <1>7 DEF Change, Typed
    <2>2. ASSUME NEW r \in Runs
          PROVE  /\ run'[r] \in RunState /\ run'[r].phase = run[r].phase
                 /\ run'[r].at = run[r].at /\ run'[r].out = run[r].out
      <3>1. run[r] \in RunState
        BY <1>1 DEF Typed
      <3> QED BY <2>1, <3>1 DEF RunState
    <2>3. Typed'
      <3>1. RunState' = RunState /\ ResultFile' = ResultFile /\ Things' = Things
        BY <2>1 DEF RunState, ResultFile, Things, Items, Line, Words, Statuses
      <3> QED BY <1>1, <2>1, <2>2, <3>1 DEF Typed
    <2>4. \A r \in Runs : (Past(r)' <=> Past(r)) /\ Key(r)' = Key(r)
      BY <2>1, <2>2 DEF Past, Key, Line
    <2>5. LockIsOwned'
      <3>1. \A o \in Outs : result[o].by \in Runs \cup {Free}
        BY <1>1 DEF Typed, ResultFile
      <3> QED BY <2>1, <2>2, <2>4, <3>1 DEF LockInv, LockIsOwned
    <2> QED BY <2>3, <2>5 DEF LockInv
  <1>8. CASE UNCHANGED vars
    <2>1. UNCHANGED <<script, wrong, lock, result, run>>
      BY <1>8 DEF vars
    <2> QED
      BY <2>1 DEF LockInv, LockIsOwned, Typed, RunState, ResultFile, Things, Items, Line, Words,
             Statuses, Past, Key
  <1> QED BY <1>3, <1>4, <1>5, <1>6, <1>7, <1>8 DEF Next

\* No two runs of a script get past the same lock file, whatever becomes of the
\* first: the permanent lock of the evaluation scripts.
THEOREM LocksArePermanent == Spec => []OneRunPerLock
  <1>1. LockInv => OneRunPerLock
    BY DEF LockInv, LockIsOwned, OneRunPerLock
  <1> QED BY <1>1, InitLockInv, NextLockInv, PTL DEF Spec

\* What one run has written is never overwritten by another, for any script that
\* claims a lock and in any place.
THEOREM ResultsStay == Spec => ResultsAreKept
  <1> DEFINE Kept == script.lock # "none" =>
                       \A o \in Outs : result[o].by # Free /\ result'[o] # result[o] =>
                                         result'[o].by = result[o].by
  <1>1. LockInv /\ [Next]_vars => [Kept]_vars
    <2> SUFFICES ASSUME LockInv, Next, script.lock # "none",
                        NEW o \in Outs, result[o].by # Free, result'[o] # result[o]
                 PROVE  result'[o].by = result[o].by
      BY DEF vars
    <2>1. Typed
      BY DEF LockInv
    <2>2. PICK r \in Runs : RunStep(r)
      BY DEF Next, Stumble, Kill, Begin, Change
    <2>3. run[r].phase = "running"
      BY <2>2 DEF RunStep, Look, Take, Check, Claim, Fresh, MakeDir, Publish, Score, Count, Tally,
             Save, Some, Agree, Expect, Plain, CatchRow, CatchRun, Does
    <2>4. Effect(r) /\ run[r].out \in Outs
      BY <2>1, <2>2, <2>3, StepEffect DEF LockInv, LockIsOwned
    <2>5. Writes(Step(r)) /\ result'[o].by = r /\ o = run[r].out
      BY <2>1, <2>4 DEF Typed, Effect, ResultEffect
    <2>6. result[o].by \in Runs /\ Past(result[o].by) /\ run[result[o].by].out = o
      BY <2>1 DEF Typed, ResultFile, LockInv, LockIsOwned
    <2>7. Key(r) = Key(result[o].by) /\ Past(r)
      BY <2>1, <2>5, <2>6, WritersArePast DEF Key
    <2> QED BY <2>5, <2>6, <2>7 DEF LockInv, LockIsOwned
  <1> QED BY <1>1, InitLockInv, NextLockInv, PTL DEF Spec, ResultsAreKept, Kept

-----------------------------------------------------------------------------
(* How far a step takes a run, and what it leaves as it was.               *)

\* The step was the last one, or leads to the next that is no handler.
Advanced(r) ==
  \/ /\ run'[r].phase = "ended" /\ run'[r].at = run[r].at
     /\ \A k \in DOMAIN Line : k > run[r].at => Line[k].do = "except"
  \/ /\ run'[r].phase = "running" /\ run'[r].at \in DOMAIN Line /\ run'[r].at > run[r].at
     /\ Line[run'[r].at].do # "except"
     /\ \A k \in DOMAIN Line : run[r].at < k /\ k < run'[r].at => Line[k].do = "except"

Catches(r, k) == k > run[r].at /\ Line[k].do = "except" /\ Line[k].of = Step(r).in

\* No handler takes the exception, or the first that does.
Thrown(r) ==
  \/ /\ run'[r].phase = "ended" /\ run'[r].at = run[r].at
     /\ \A k \in DOMAIN Line : ~Catches(r, k)
  \/ /\ run'[r].phase = "running" /\ run'[r].at \in DOMAIN Line /\ Catches(r, run'[r].at)
     /\ \A k \in DOMAIN Line : Catches(r, k) => run'[r].at <= k

\* What the copy has is what the run has then; nothing else changes.
Carries(r, me) ==
  /\ run' \in [Runs -> RunState]
  /\ \A q \in Runs : q # r => run'[q] = run[q]
  /\ run'[r].out = me.out /\ run'[r].status = me.status /\ run'[r].rows = me.rows
  /\ run'[r].tally = me.tally /\ run'[r].tainted = me.tainted
  /\ run'[r].outset = me.outset /\ run'[r].muted = me.muted

\* What a step makes of a run is what the run has, but for its place.
LEMMA GoesWith ==
  ASSUME Typed, NEW r \in Runs, NEW me, Copy(r, me), NEW steps \in SUBSET DOMAIN Line,
         GoTo(r, me, steps)
  PROVE  /\ Carries(r, me)
         /\ \/ steps = {} /\ run'[r].phase = "ended" /\ run'[r].at = run[r].at
            \/ /\ run'[r].at \in steps /\ run'[r].phase = "running"
               /\ \A j \in steps : run'[r].at <= j
  <1>1. run \in [Runs -> RunState] /\ me \in RunState
    BY DEF Typed, Copy
  <1>2. CASE steps = {} /\ run' = [run EXCEPT ![r] = [me EXCEPT !.phase = "ended"]]
    <2> DEFINE you == [me EXCEPT !.phase = "ended"]
    <2>1. /\ you \in RunState /\ you.phase = "ended" /\ you.at = me.at
          /\ you.out = me.out /\ you.status = me.status /\ you.rows = me.rows
          /\ you.tally = me.tally /\ you.tainted = me.tainted
          /\ you.outset = me.outset /\ you.muted = me.muted
      BY <1>1 DEF RunState
    <2> HIDE DEF you
    <2>2. run' = [run EXCEPT ![r] = you]
      BY <1>2 DEF you
    <2> QED BY <1>1, <1>2, <2>1, <2>2 DEF Carries, Copy
  <1>3. ASSUME NEW k \in steps, \A j \in steps : k <= j,
               run' = [run EXCEPT ![r] = [me EXCEPT !.at = k]]
        PROVE  /\ Carries(r, me)
               /\ run'[r].at = k /\ run'[r].phase = "running"
    <2> DEFINE you == [me EXCEPT !.at = k]
    <2>1. /\ you \in RunState /\ you.phase = me.phase /\ you.at = k
          /\ you.out = me.out /\ you.status = me.status /\ you.rows = me.rows
          /\ you.tally = me.tally /\ you.tainted = me.tainted
          /\ you.outset = me.outset /\ you.muted = me.muted
      BY <1>1 DEF RunState
    <2> HIDE DEF you
    <2>2. run' = [run EXCEPT ![r] = you]
      BY <1>3 DEF you
    <2> QED BY <1>1, <2>1, <2>2 DEF Carries, Copy
  <1> QED BY <1>2, <1>3 DEF GoTo

\* A run that goes on gets to the next step that is no handler.
LEMMA OnwardGoes ==
  ASSUME Typed, NEW r \in Runs, NEW me, Copy(r, me), Onward(r, me)
  PROVE  Carries(r, me) /\ Advanced(r)
  <1> DEFINE later == {k \in DOMAIN Line : k > run[r].at /\ Line[k].do # "except"}
  <1>1. /\ Carries(r, me)
        /\ \/ later = {} /\ run'[r].phase = "ended" /\ run'[r].at = run[r].at
           \/ /\ run'[r].at \in later /\ run'[r].phase = "running"
              /\ \A j \in later : run'[r].at <= j
    BY GoesWith DEF Onward
  <1>2. DOMAIN Line = 1..Len(Line) /\ Len(Line) \in Nat /\ run[r].at \in DOMAIN Line
    BY ScriptSteps DEF RunState
  <1> QED BY <1>1, <1>2 DEF Advanced

\* An exception gets to the first handler of its try.
LEMMA RaiseGoes ==
  ASSUME Typed, NEW r \in Runs, NEW me, Copy(r, me), Raise(r, me)
  PROVE  Carries(r, me) /\ Thrown(r)
  <1> DEFINE handlers == {k \in DOMAIN Line : k > run[r].at /\ Line[k].do = "except"
                                                /\ Line[k].of = Step(r).in}
  <1>1. /\ Carries(r, me)
        /\ \/ handlers = {} /\ run'[r].phase = "ended" /\ run'[r].at = run[r].at
           \/ /\ run'[r].at \in handlers /\ run'[r].phase = "running"
              /\ \A j \in handlers : run'[r].at <= j
    BY GoesWith DEF Raise
  <1> QED BY <1>1 DEF Thrown, Catches

\* A run that ends has what the step makes of it.
LEMMA EndGoes ==
  ASSUME Typed, NEW r \in Runs, NEW me, Copy(r, me),
         run' = [run EXCEPT ![r] = [me EXCEPT !.phase = "ended"]]
  PROVE  Carries(r, me) /\ run'[r].phase = "ended" /\ run'[r].at = run[r].at
  <1>1. GoTo(r, me, {})
    BY DEF GoTo
  <1> QED BY <1>1, GoesWith

\* The result that run r writes.
Report(r) ==
  [by |-> r, status |-> run[r].status, rows |-> run[r].rows, tally |-> run[r].tally]

WritesReport(r) ==
  /\ Writes(Step(r))
  /\ result' = [result EXCEPT ![run[r].out] =
       [by |-> r, status |-> run'[r].status, rows |-> run'[r].rows, tally |-> run'[r].tally]]

Steady(r) ==
  /\ run' \in [Runs -> RunState]
  /\ \A q \in Runs : q # r => run'[q] = run[q]
  /\ run[r].phase = "running" /\ run'[r].out = run[r].out /\ run'[r].outset = run[r].outset
  /\ UNCHANGED <<script, wrong>>

\* What was to be compared is as it should be.
Agreed(r) ==
  LET step == Step(r)
  IN  /\ step.do = "look" => step.things \cap wrong = {}
      /\ step.do = "check" => step.things \cap run[r].tainted = {}
      /\ step.do = "agree" => \A i, j \in step.items : run[r].rows[i] = run[r].rows[j]
      /\ step.do = "some" => \E i \in step.items : run[r].rows[i] # "empty"

\* What a step adds to the counters.
Adds(r) ==
  LET step == Step(r)  before == run[r].tally  after == run'[r].tally
  IN  /\ step.do = "count" =>
           \E i \in step.items : after = [before EXCEPT ![run[r].rows[i]] = @ + 1]
      /\ step.do = "tally" =>
           after = [s \in Outcomes |-> Cardinality({i \in step.items : run[r].rows[i] = s})]
      /\ CountsError(step) => after = [before EXCEPT !["error"] = @ + 1]
      /\ ~Counts(step) /\ ~CountsError(step) => after = before

\* What a step makes of the rows.
Rewrites(r) ==
  LET step == Step(r)  before == run[r].rows  after == run'[r].rows
  IN  /\ ~Marks(step) => after = before
      /\ \A i \in Items \ step.items : after[i] = before[i]
      /\ CountsError(step) => \A i \in step.items : after[i] = "error"

\* Run r has done its step and goes on, ...
Ahead(r) ==
  /\ Steady(r) /\ Advanced(r) /\ ~GivesUp(Step(r)) /\ run'[r].muted = run[r].muted
  /\ run'[r].status = IF Step(r).do = "publish" THEN Step(r).status ELSE run[r].status
  /\ run'[r].tainted = IF Step(r).do = "take"
                       THEN (run[r].tainted \ Step(r).things) \cup (Step(r).things \cap wrong)
                       ELSE run[r].tainted
  /\ Agreed(r) /\ Adds(r) /\ Rewrites(r)
  /\ WritesReport(r) \/ (Step(r).do # "publish" /\ UNCHANGED result)

\* ... it has not, and goes to a handler, ...
Aside(r) ==
  /\ Steady(r) /\ Thrown(r) /\ ~Counts(Step(r))
  /\ run'[r].status = run[r].status /\ run'[r].rows = run[r].rows
  /\ run'[r].tally = run[r].tally /\ run'[r].tainted = run[r].tainted
  /\ run[r].muted \/ Writes(Step(r)) => run'[r].muted
  /\ UNCHANGED result

\* ... or it gives up.
Off(r) ==
  /\ Steady(r) /\ run'[r].phase = "ended" /\ run'[r].at = run[r].at
  /\ Step(r).do = "expect" \/ GivesUp(Step(r))
  /\ run'[r].status = Step(r).status /\ run'[r].rows = run[r].rows
  /\ run'[r].tally = run[r].tally /\ run'[r].tainted = run[r].tainted
  /\ run'[r].muted = run[r].muted
  /\ WritesReport(r)

\* Every step goes ahead, throws an exception or gives up.
LEMMA StepGoes ==
  ASSUME Typed, NEW r \in Runs, RunStep(r) \/ Stumble(r)
  PROVE  Ahead(r) \/ Aside(r) \/ Off(r)
  <1> DEFINE step == Step(r)
  <1>1. step \in Steps(script) /\ run[r] \in RunState /\ IsFiniteSet(Items)
        /\ Line[run[r].at] \in Steps(script)
    BY ScriptSteps DEF Step
  <1>2. run[r].phase = "running" /\ UNCHANGED <<script, wrong>>
    BY DEF RunStep, Look, Take, Check, Claim, Fresh, MakeDir, Publish, Score, Count, Tally, Save,
           Some, Agree, Expect, Plain, CatchRow, CatchRun, Does, Stumble
  <1>3. /\ run[r].status \in Statuses /\ run[r].rows \in [Items -> Words]
        /\ run[r].tally \in [Outcomes -> Nat] /\ run[r].muted \in BOOLEAN
        /\ DOMAIN run[r] = {"phase", "at", "out", "status", "rows", "tally", "tainted",
                            "outset", "muted"}
    BY <1>1 DEF RunState
  <1>4. ASSUME Pass(r), Agreed(r), step.do \notin {"take", "publish", "except", "score", "save",
                                                   "count", "tally"},
               UNCHANGED result
        PROVE  Ahead(r)
    <2>1. Carries(r, run[r]) /\ Advanced(r)
      BY <1>2, <1>4, Copies, OnwardGoes DEF Pass
    <2> QED
      BY <1>2, <1>4, <2>1
      DEF Ahead, Steady, Carries, GivesUp, Adds, Rewrites, Counts, CountsError,
             Marks
  <1>5. ASSUME Refuse(r), step.do \notin {"count", "tally"}, ~Writes(step), UNCHANGED result
        PROVE  Aside(r)
    <2>1. Carries(r, run[r]) /\ Thrown(r)
      BY <1>2, <1>5, Copies, RaiseGoes DEF Refuse
    <2> QED BY <1>2, <1>5, <2>1 DEF Aside, Steady, Carries, Counts
  <1>6. CASE Look(r) \/ Check(r) \/ Claim(r) \/ Fresh(r) \/ MakeDir(r) \/ Some(r) \/ Agree(r)
               \/ Plain(r)
    <2>1. /\ step.do \in {"look", "check", "claim", "fresh", "mkdir", "some", "agree", "plain"}
          /\ UNCHANGED result /\ ((Pass(r) /\ Agreed(r)) \/ Refuse(r))
      BY <1>6 DEF Look, Check, Claim, Fresh, MakeDir, Some, Agree, Plain, Does, Agreed
    <2>2. ~Writes(step)
      BY <2>1 DEF Writes
    <2> QED BY <1>4, <1>5, <2>1, <2>2
  <1>7. CASE Take(r)
    <2> DEFINE t == (run[r].tainted \ step.things) \cup (step.things \cap wrong)
               me == [run[r] EXCEPT !.tainted = t]
    <2>1. t \in SUBSET Things
      BY <1>1 DEF RunState, Steps, Things, Typed
    <2>2. Copy(r, me)
      BY <1>2, <2>1, Copies
    <2>3. Onward(r, me) /\ UNCHANGED result /\ step.do = "take"
      BY <1>7 DEF Take, Does
    <2>4. Carries(r, me) /\ Advanced(r)
      BY <2>2, <2>3, OnwardGoes
    <2>5. /\ me.out = run[r].out /\ me.status = run[r].status /\ me.rows = run[r].rows
          /\ me.tally = run[r].tally /\ me.tainted = t
          /\ me.outset = run[r].outset /\ me.muted = run[r].muted
      BY <1>3
    <2> HIDE DEF me
    <2> QED
      BY <1>2, <2>3, <2>4, <2>5
      DEF Ahead, Steady, Carries, GivesUp, Agreed, Adds, Rewrites, Counts, CountsError, Marks
  <1>8. ASSUME NEW s, Copy(r, [run[r] EXCEPT !.status = s])
        PROVE  LET me == [run[r] EXCEPT !.status = s]
               IN  /\ me.out = run[r].out /\ me.status = s /\ me.rows = run[r].rows
                   /\ me.tally = run[r].tally /\ me.tainted = run[r].tainted
                   /\ me.outset = run[r].outset /\ me.muted = run[r].muted
    BY <1>3
  <1>9. step.status \in Statuses
    BY <1>1 DEF Statuses, RunState, Step
  <1>10. CASE Publish(r)
    <2> DEFINE me == [run[r] EXCEPT !.status = step.status]
    <2>1. Copy(r, me)
      BY <1>2, <1>9, Copies
    <2>2. Written(r, me) /\ Onward(r, me) /\ step.do = "publish"
      BY <1>10 DEF Publish, Does
    <2>3. Carries(r, me) /\ Advanced(r)
      BY <2>1, <2>2, OnwardGoes
    <2>4. /\ me.out = run[r].out /\ me.status = step.status /\ me.rows = run[r].rows
          /\ me.tally = run[r].tally /\ me.tainted = run[r].tainted
          /\ me.outset = run[r].outset /\ me.muted = run[r].muted
      BY <1>8, <2>1
    <2> HIDE DEF me
    <2>5. WritesReport(r)
      BY <2>2, <2>3, <2>4 DEF WritesReport, Written, Writes, Carries
    <2> QED
      BY <1>2, <2>2, <2>3, <2>4, <2>5
      DEF Ahead, Steady, Carries, GivesUp, Agreed, Adds, Rewrites, Counts, CountsError, Marks
  <1>11. ASSUME NEW w \in Words
         PROVE  LET me == Marked(r, w)
                IN  /\ Copy(r, me)
                    /\ me.out = run[r].out /\ me.status = run[r].status
                    /\ me.tally = run[r].tally /\ me.tainted = run[r].tainted
                    /\ me.outset = run[r].outset /\ me.muted = run[r].muted
                    /\ \A i \in Items \ step.items : me.rows[i] = run[r].rows[i]
                    /\ step.items \subseteq Items /\ \A i \in step.items : me.rows[i] = w
    <2>1. Copy(r, Marked(r, w))
      BY <1>2, Copies
    <2>2. step.items \subseteq Items
      BY <1>1 DEF Steps, Items
    <2> QED BY <1>3, <2>1, <2>2 DEF Marked
  <1>12. CASE Score(r)
    <2>1. step.do = "score" /\ UNCHANGED result
          /\ ((\E s \in step.words : Onward(r, Marked(r, s))) \/ Refuse(r))
      BY <1>12 DEF Score, Does
    <2>2. ASSUME NEW s \in step.words, Onward(r, Marked(r, s))
          PROVE  Ahead(r)
      <3>1. s \in Words
        BY <1>1, <2>2 DEF Words, RunState, Step
      <3> DEFINE me == Marked(r, s)
      <3>2. /\ Copy(r, me)
            /\ me.out = run[r].out /\ me.status = run[r].status
            /\ me.tally = run[r].tally /\ me.tainted = run[r].tainted
            /\ me.outset = run[r].outset /\ me.muted = run[r].muted
            /\ \A i \in Items \ step.items : me.rows[i] = run[r].rows[i]
        BY <1>11, <3>1
      <3> HIDE DEF me
      <3>3. Carries(r, me) /\ Advanced(r)
        BY <2>2, <3>2, OnwardGoes DEF me
      <3> QED
        BY <1>2, <2>1, <3>2, <3>3
        DEF Ahead, Steady, Carries, GivesUp, Agreed, Adds, Rewrites, Counts, CountsError, Marks
    <2>3. ~Writes(step)
      BY <2>1 DEF Writes
    <2> QED BY <1>5, <2>1, <2>2, <2>3
  <1>13. ASSUME NEW t \in [Outcomes -> Nat]
         PROVE  LET me == [run[r] EXCEPT !.tally = t]
                IN  /\ Copy(r, me)
                    /\ me.out = run[r].out /\ me.status = run[r].status /\ me.rows = run[r].rows
                    /\ me.tally = t /\ me.tainted = run[r].tainted
                    /\ me.outset = run[r].outset /\ me.muted = run[r].muted
    BY <1>2, <1>3, Copies
  <1>14. CASE Count(r)
    <2>1. PICK i \in step.items :
            Onward(r, [run[r] EXCEPT !.tally[run[r].rows[i]] = @ + 1])
      BY <1>14 DEF Count
    <2> DEFINE t == [run[r].tally EXCEPT ![run[r].rows[i]] = @ + 1]
               me == [run[r] EXCEPT !.tally = t]
    <2>2. t \in [Outcomes -> Nat]
      BY <1>3, Added
    <2>3. me = [run[r] EXCEPT !.tally[run[r].rows[i]] = @ + 1]
      BY <1>1 DEF RunState
    <2>4. /\ Copy(r, me)
          /\ me.out = run[r].out /\ me.status = run[r].status /\ me.rows = run[r].rows
          /\ me.tally = t /\ me.tainted = run[r].tainted
          /\ me.outset = run[r].outset /\ me.muted = run[r].muted
      BY <1>13, <2>2
    <2>5. step.do = "count" /\ UNCHANGED result /\ Onward(r, me)
      BY <1>14, <2>1, <2>3 DEF Count, Does
    <2> HIDE DEF me
    <2>6. Carries(r, me) /\ Advanced(r)
      BY <2>4, <2>5, OnwardGoes
    <2>7. Adds(r)
      BY <2>4, <2>5, <2>6 DEF Adds, Carries, Counts, CountsError
    <2> QED
      BY <1>2, <2>4, <2>5, <2>6, <2>7
      DEF Ahead, Steady, Carries, GivesUp, Agreed, Rewrites, CountsError, Marks
  <1>15. CASE Tally(r)
    <2> DEFINE t == [s \in Outcomes |-> Cardinality({i \in step.items : run[r].rows[i] = s})]
               me == [run[r] EXCEPT !.tally = t]
    <2>1. t \in [Outcomes -> Nat]
      <3>1. ASSUME NEW s \in Outcomes
            PROVE  Cardinality({i \in step.items : run[r].rows[i] = s}) \in Nat
        <4>1. {i \in step.items : run[r].rows[i] = s} \subseteq Items
          BY <1>1 DEF Steps, Items
        <4> QED BY <1>1, <4>1, FS_Subset, FS_CardinalityType
      <3> QED BY <3>1
    <2>2. step.do = "tally" /\ UNCHANGED result /\ Onward(r, me)
      BY <1>15 DEF Tally, Does
    <2> HIDE DEF t
    <2>3. /\ Copy(r, me)
          /\ me.out = run[r].out /\ me.status = run[r].status /\ me.rows = run[r].rows
          /\ me.tally = t /\ me.tainted = run[r].tainted
          /\ me.outset = run[r].outset /\ me.muted = run[r].muted
      BY <1>13, <2>1
    <2> HIDE DEF me
    <2>4. Carries(r, me) /\ Advanced(r)
      BY <2>2, <2>3, OnwardGoes
    <2>5. Adds(r)
      BY <2>2, <2>3, <2>4 DEF Adds, Carries, Counts, CountsError, t
    <2> QED
      BY <1>2, <2>2, <2>3, <2>4, <2>5
      DEF Ahead, Steady, Carries, GivesUp, Agreed, Rewrites, CountsError, Marks
  <1>16. CASE Save(r)
    <2> DEFINE me == Marked(r, "started")
    <2>1. "started" \in Words
      BY DEF Words
    <2>2. /\ Copy(r, me)
          /\ me.out = run[r].out /\ me.status = run[r].status
          /\ me.tally = run[r].tally /\ me.tainted = run[r].tainted
          /\ me.outset = run[r].outset /\ me.muted = run[r].muted
          /\ \A i \in Items \ step.items : me.rows[i] = run[r].rows[i]
      BY <1>11, <2>1
    <2>3. Written(r, me) /\ Onward(r, me) /\ step.do = "save"
      BY <1>16 DEF Save, Does
    <2> HIDE DEF me
    <2>4. Carries(r, me) /\ Advanced(r)
      BY <2>2, <2>3, OnwardGoes
    <2>5. WritesReport(r)
      BY <2>2, <2>3, <2>4 DEF WritesReport, Written, Writes, Carries
    <2> QED
      BY <1>2, <2>2, <2>3, <2>4, <2>5
      DEF Ahead, Steady, Carries, GivesUp, Agreed, Adds, Rewrites, Counts, CountsError, Marks
  <1>17. CASE Expect(r) \/ CatchRun(r)
    <2> DEFINE me == [run[r] EXCEPT !.status = step.status]
    <2>1. Copy(r, me)
      BY <1>2, <1>9, Copies
    <2>2. /\ step.do = "expect" \/ GivesUp(step)
          /\ \/ Pass(r) /\ UNCHANGED result /\ step.do = "expect"
             \/ Written(r, me) /\ run' = [run EXCEPT ![r] = [me EXCEPT !.phase = "ended"]]
      BY <1>17 DEF Expect, CatchRun, Does, GivesUp
    <2>3. CASE Pass(r) /\ UNCHANGED result /\ step.do = "expect"
      BY <1>4, <2>3 DEF Agreed
    <2>4. CASE Written(r, me) /\ run' = [run EXCEPT ![r] = [me EXCEPT !.phase = "ended"]]
      <3>1. Carries(r, me) /\ run'[r].phase = "ended" /\ run'[r].at = run[r].at
        BY <2>1, <2>4, EndGoes
      <3>2. /\ me.out = run[r].out /\ me.status = step.status /\ me.rows = run[r].rows
            /\ me.tally = run[r].tally /\ me.tainted = run[r].tainted
            /\ me.outset = run[r].outset /\ me.muted = run[r].muted
        BY <1>8, <2>1
      <3>3. Written(r, me)
        BY <2>4
      <3> HIDE DEF me
      <3>4. WritesReport(r)
        BY <2>2, <3>1, <3>2, <3>3 DEF WritesReport, Written, Writes, GivesUp, Carries
      <3> QED BY <1>2, <2>2, <3>1, <3>2, <3>4 DEF Off, Steady, Carries
    <2> QED BY <2>2, <2>3, <2>4
  <1>18. CASE CatchRow(r)
    <2> DEFINE marked == Marked(r, "error")
               t == IF "count" \in step.words
                    THEN [run[r].tally EXCEPT !["error"] = @ + 1] ELSE run[r].tally
               me == IF "count" \in step.words
                     THEN [marked EXCEPT !.tally["error"] = @ + 1] ELSE marked
    <2>1. "error" \in Words
      BY DEF Words
    <2>2. /\ Copy(r, marked)
          /\ marked.out = run[r].out /\ marked.status = run[r].status
          /\ marked.tally = run[r].tally /\ marked.tainted = run[r].tainted
          /\ marked.outset = run[r].outset /\ marked.muted = run[r].muted
          /\ \A i \in Items \ step.items : marked.rows[i] = run[r].rows[i]
          /\ step.items \subseteq Items /\ \A i \in step.items : marked.rows[i] = "error"
      BY <1>11, <2>1
    <2>3. step.do = "except" /\ step.of = "row" /\ Onward(r, me)
          /\ (UNCHANGED result \/ (Written(r, me) /\ Writes(step)))
      BY <1>18 DEF CatchRow, Does, Writes
    <2> HIDE DEF marked
    <2>4. t \in [Outcomes -> Nat] /\ marked \in RunState
      BY <1>3, <2>2, Added DEF Copy
    <2>5. /\ Copy(r, me) /\ me.rows = marked.rows /\ me.tally = t
          /\ me.out = run[r].out /\ me.status = run[r].status
          /\ me.tainted = run[r].tainted
          /\ me.outset = run[r].outset /\ me.muted = run[r].muted
      <3>1. CASE "count" \in step.words
        <4>1. me = [marked EXCEPT !.tally = t]
          BY <2>2, <2>4, <3>1 DEF RunState
        <4> QED BY <2>2, <2>4, <4>1 DEF Copy, RunState
      <3>2. CASE "count" \notin step.words
        BY <2>2, <3>2
      <3> QED BY <3>1, <3>2
    <2> HIDE DEF me
    <2>6. Carries(r, me) /\ Advanced(r)
      BY <2>3, <2>5, OnwardGoes
    <2>7. UNCHANGED result \/ WritesReport(r)
      BY <2>3, <2>5, <2>6 DEF WritesReport, Written, Carries
    <2>8. Adds(r)
      BY <2>3, <2>5, <2>6 DEF Adds, Carries, Counts, CountsError
    <2>9. Rewrites(r)
      BY <2>2, <2>3, <2>5, <2>6 DEF Rewrites, Carries, Marks
    <2> QED
      BY <1>2, <2>2, <2>3, <2>5, <2>6, <2>7, <2>8, <2>9
      DEF Ahead, Steady, Carries, GivesUp, Agreed
  <1>19. CASE Stumble(r)
    <2> DEFINE b == run[r].muted \/ Writes(step)
               me == [run[r] EXCEPT !.muted = b]
    <2>1. b \in BOOLEAN
      BY DEF Writes
    <2>2. Copy(r, me)
      BY <1>2, <2>1, Copies
    <2>3. Raise(r, me) /\ UNCHANGED result /\ step.do \notin {"count", "tally"}
      BY <1>19 DEF Stumble
    <2>4. Carries(r, me) /\ Thrown(r)
      BY <2>2, <2>3, RaiseGoes
    <2>5. /\ me.out = run[r].out /\ me.status = run[r].status /\ me.rows = run[r].rows
          /\ me.tally = run[r].tally /\ me.tainted = run[r].tainted
          /\ me.outset = run[r].outset /\ me.muted = b
      BY <1>3
    <2> HIDE DEF me
    <2> QED BY <1>2, <2>3, <2>4, <2>5 DEF Aside, Steady, Carries, Counts
  <1> QED
    BY <1>6, <1>7, <1>10, <1>12, <1>14, <1>15, <1>16, <1>17, <1>18, <1>19 DEF RunStep

-----------------------------------------------------------------------------
(* The way of a run: what it has done by the step it is at.                *)

\* The run is under way, and not about to give up.
Clear(r) == run[r].phase = "running" /\ ~GivesUp(Step(r))

\* What the run owes to the step j it has passed.
Held(r, j) ==
  LET step == Line[j]
  IN  /\ step.do = "look" => step.things \cap run[r].outset = {}
      /\ step.do = "check" => \A t \in step.things :
           (\A m \in Takes(script, t) : m < j) => t \notin run[r].tainted
      /\ step.do = "agree" /\ Settled(script, j) =>
           \A i, k \in step.items : run[r].rows[i] = run[r].rows[k]
      /\ step.do = "some" /\ Settled(script, j) =>
           \E i \in step.items : run[r].rows[i] # "empty"

\* Errors are counted twice where the write of a counted row failed.
Exempt(r) == CountsInTry(script) /\ run[r].muted

AddsUpTo(r, S) ==
  \A w \in Outcomes : run[r].tally[w] = Cardinality({i \in S : run[r].rows[i] = w})

Idle(r) ==
  run[r].phase = "idle" =>
    /\ run[r].at = 1 /\ run[r].status = "none" /\ run[r].tainted = {}
    /\ run[r].tally = Nothing /\ ~run[r].muted /\ run[r].outset = {}

\* A result of the run says what the run knows.
Mine(r) ==
  \A o \in Outs : result[o].by = r =>
    /\ run[r].phase # "idle" /\ run[r].out = o /\ result[o].status = run[r].status
    /\ run[r].status = "completed" =>
         result[o].rows = run[r].rows /\ result[o].tally = run[r].tally

Begun(r) ==
  Clear(r) /\ (\E o \in Outs : result[o].by = r) =>
    \E k \in DOMAIN Line : k < run[r].at /\ Writes(Line[k])

Concluded(r) ==
  Clear(r) => \A p \in DOMAIN Line :
                p < run[r].at /\ Concludes(Line[p]) => run[r].status \in Final

Stopped(r) ==
  run[r].phase = "ended" /\ ~run[r].muted /\ (\E o \in Outs : result[o].by = r) =>
    \/ run[r].status \in Final
    \/ Step(r).do = "take" /\ Step(r).in = "none"

Followed(r) ==
  Clear(r) => \A j \in DOMAIN Line : Passed(script, j, run[r].at) => Held(r, j)

\* What was looked at before it was taken is not wrong all along.
Clean(r) ==
  /\ run[r].outset \subseteq wrong
  /\ \A t \in Things : (\A m \in Takes(script, t) : LookedAt(script, t, m)) =>
                          t \notin run[r].tainted \cap run[r].outset

Counted(r) == Clear(r) /\ ~Exempt(r) => AddsUpTo(r, Tallied(script, run[r].at))

Sound(r) ==
  run[r].status = "completed" =>
    /\ run[r].phase = "running" => \E p \in DOMAIN Line : p < run[r].at /\ Completes(Line[p])
    /\ run[r].tainted \cap (run[r].outset \cup script.checked) = {}
    /\ \A k \in DOMAIN Line :
         /\ Line[k].do = "agree" =>
              \A i, j \in Line[k].items : run[r].rows[i] = run[r].rows[j]
         /\ Line[k].do = "some" => \E i \in Line[k].items : run[r].rows[i] # "empty"
    /\ Exempt(r) \/ AddsUpTo(r, script.counted)

WayAt(r) ==
  /\ Idle(r) /\ Mine(r) /\ Begun(r) /\ Concluded(r) /\ Stopped(r)
  /\ Followed(r) /\ Clean(r) /\ Counted(r) /\ Sound(r)

WayInv == \A r \in Runs : WayAt(r)

\* The parts of the state that a place in the script is used with.
LEMMA Places ==
  ASSUME Typed, NEW r \in Runs
  PROVE  /\ DOMAIN Line = 1..Len(Line) /\ Len(Line) \in Nat \ {0}
         /\ run[r].at \in DOMAIN Line /\ run[r].at \in Nat
         /\ \A k \in DOMAIN Line : Line[k] \in Steps(script)
         /\ Step(r) \in Steps(script)
         /\ run[r].tainted \subseteq Things /\ run[r].rows \in [Items -> Words]
         /\ run[r].tally \in [Outcomes -> Nat] /\ run[r].muted \in BOOLEAN
         /\ IsFiniteSet(Items)
  BY ScriptSteps DEF RunState

\* A run that stays as it is, as do its results, keeps what it has.
LEMMA Bystander ==
  ASSUME Typed, NEW q \in Runs, WayAt(q), run'[q] = run[q], UNCHANGED <<script, wrong>>,
         \A o \in Outs : result'[o].by = q => result'[o] = result[o]
  PROVE  WayAt(q)'
  <1>1. Idle(q)' /\ Mine(q)' /\ Begun(q)' /\ Concluded(q)' /\ Stopped(q)'
    BY DEF WayAt, Idle, Mine, Begun, Concluded, Stopped, Clear, Step, Line
  <1>2. Followed(q)' /\ Clean(q)' /\ Counted(q)' /\ Sound(q)'
    BY DEF WayAt, Followed, Clean, Counted, Sound, Clear, Held, Exempt, AddsUpTo, Step, Line,
           Things
  <1> QED BY <1>1, <1>2 DEF WayAt

\* An exception that leads to the handler of a row was raised on the way.
LEMMA JumpOf ==
  ASSUME Typed, FailsSafely(script), NEW r \in Runs, Aside(r), Clear(r)'
  PROVE  Jumps(script, run[r].at, run'[r].at) /\ Clear(r)
  <1>1. /\ run'[r].at \in DOMAIN Line /\ Catches(r, run'[r].at) /\ UNCHANGED script
        /\ \A k \in DOMAIN Line : Catches(r, k) => run'[r].at <= k
        /\ run[r].phase = "running"
    BY DEF Aside, Steady, Thrown, Clear
  <1>2. Line[run'[r].at].of = "row" /\ Step(r).in = "row"
    BY <1>1 DEF Clear, GivesUp, Step, Line, Catches
  <1>3. ~GivesUp(Step(r))
    BY <1>2, Places DEF FailsSafely, Step, Line
  <1> QED BY <1>1, <1>2, <1>3 DEF Jumps, Catches, Step, Line, Clear

\* What a run is past at the handler of a row it was past in the try.
LEMMA PassedAside ==
  ASSUME Typed, FailsSafely(script), NEW r \in Runs, Aside(r), Clear(r)',
         NEW j \in DOMAIN Line, Passed(script, j, run'[r].at)
  PROVE  Passed(script, j, run[r].at)
  <1>1. Jumps(script, run[r].at, run'[r].at) /\ run'[r].at \in DOMAIN Line
    BY JumpOf DEF Aside, Thrown, Clear
  <1>2. DOMAIN Line = 1..Len(Line) /\ run[r].at \in DOMAIN Line /\ Len(Line) \in Nat
    BY Places
  <1>3. run'[r].at > run[r].at /\ DOMAIN Line = DOMAIN script.steps
    BY <1>1 DEF Jumps, Line
  <1>4. /\ j < run'[r].at /\ j \in Nat /\ run[r].at \in Nat /\ run'[r].at \in Nat
        /\ \A i, h \in DOMAIN Line :
             Jumps(script, i, h) /\ i <= j => h <= j \/ h > run'[r].at
    BY <1>1, <1>2, <1>3 DEF Passed
  <1>5. j < run[r].at
    <2>1. run[r].at <= j => run'[r].at <= j \/ run'[r].at > run'[r].at
      BY <1>1, <1>2, <1>4
    <2> QED BY <1>4, <2>1
  <1>6. ASSUME NEW i \in DOMAIN Line, NEW h \in DOMAIN Line, Jumps(script, i, h), i <= j
        PROVE  h <= j \/ h > run[r].at
    BY <1>2, <1>3, <1>4, <1>6
  <1> QED BY <1>3, <1>5, <1>6 DEF Passed

\* What a run is past after a step it was past before, but for the step.
LEMMA PassedAhead ==
  ASSUME Typed, NEW r \in Runs, Ahead(r), run'[r].phase = "running",
         NEW j \in DOMAIN Line, Passed(script, j, run'[r].at), Line[j].do # "except",
         j # run[r].at
  PROVE  Passed(script, j, run[r].at)
  <1>1. DOMAIN Line = 1..Len(Line) /\ run[r].at \in DOMAIN Line /\ Len(Line) \in Nat
    BY Places
  <1>2. /\ run'[r].at \in DOMAIN Line /\ run'[r].at > run[r].at
        /\ \A k \in DOMAIN Line : run[r].at < k /\ k < run'[r].at => Line[k].do = "except"
    BY DEF Ahead, Advanced
  <1>3. j < run[r].at
    BY <1>1, <1>2 DEF Passed
  <1> QED BY <1>1, <1>2, <1>3 DEF Passed, Line

\* What is held stays so behind a run.
LEMMA HeldStays ==
  ASSUME Typed, NEW r \in Runs, Ahead(r) \/ Aside(r), NEW j \in DOMAIN Line, j < run[r].at,
         Held(r, j)
  PROVE  Held(r, j)'
  <1>1. /\ UNCHANGED script /\ run'[r].outset = run[r].outset /\ Step(r) = Line[run[r].at]
        /\ run[r].at \in DOMAIN Line /\ j \in Nat /\ run[r].at \in Nat
        /\ Line[j].items \subseteq Items
    BY Places DEF Ahead, Aside, Steady, Step, Steps, Items
  <1>2. ASSUME NEW t \in Line[j].things, \A m \in Takes(script, t) : m < j,
               t \notin run[r].tainted
        PROVE  t \notin run'[r].tainted
    <2>1. run[r].at \notin Takes(script, t)
      BY <1>1, <1>2
    <2>2. Step(r).do = "take" => t \notin Step(r).things
      BY <1>1, <2>1 DEF Takes, Line
    <2> QED BY <1>2, <2>2 DEF Ahead, Aside
  <1>3. ASSUME Settled(script, j), NEW i \in Line[j].items
        PROVE  run'[r].rows[i] = run[r].rows[i]
    <2>1. Marks(Step(r)) => i \notin Step(r).items
      BY <1>1, <1>3 DEF Settled, Line
    <2> QED BY <1>1, <2>1 DEF Ahead, Aside, Rewrites
  <1> QED BY <1>1, <1>2, <1>3 DEF Held, Line

\* A step that is done holds.
LEMMA HeldNow ==
  ASSUME Typed, NEW r \in Runs, Ahead(r), run[r].outset \subseteq wrong, NEW j, j = run[r].at
  PROVE  Held(r, j)'
  <1>1. UNCHANGED script /\ run'[r].outset = run[r].outset /\ Step(r) = Line[j] /\ Agreed(r)
    BY DEF Ahead, Steady, Step
  <1>2. Step(r).do \in {"check", "agree", "some"} =>
          run'[r].tainted = run[r].tainted /\ run'[r].rows = run[r].rows
    BY DEF Ahead, Rewrites, Marks
  <1> QED BY <1>1, <1>2 DEF Held, Agreed, Line

-----------------------------------------------------------------------------
(* Each part of the way is kept by a step.                                 *)

\* Behind a completed result nothing is taken, marked or counted.
LEMMA AllIsDone ==
  ASSUME Typed, NEW r \in Runs, Sound(r), RestsOnChecks(script), Ahead(r),
         run[r].status = "completed"
  PROVE  /\ run'[r].rows = run[r].rows /\ run'[r].tally = run[r].tally
         /\ run'[r].tainted = run[r].tainted
  <1>1. PICK p \in DOMAIN Line : p < run[r].at /\ Completes(Line[p])
    BY DEF Sound, Ahead, Steady
  <1>2. Step(r).do # "take" /\ ~Counts(Step(r)) /\ ~Marks(Step(r))
    BY <1>1, Places DEF RestsOnChecks, Step, Line
  <1>3. ~CountsError(Step(r))
    BY <1>2 DEF CountsError, Marks
  <1> QED BY <1>2, <1>3 DEF Ahead, Adds, Rewrites

\* The results of a run and its state.
LEMMA MineStays ==
  ASSUME Typed, NEW r \in Runs, WayAt(r), run[r].out \in Outs, Careful(script),
         Ahead(r) \/ Aside(r) \/ Off(r)
  PROVE  Mine(r)'
  <1>1. run'[r].out = run[r].out /\ run[r].phase = "running" /\ run'[r].phase # "idle"
    BY DEF Ahead, Aside, Off, Steady, Advanced, Thrown
  <1>2. CASE WritesReport(r)
    <2>1. \A o \in Outs : o # run[r].out => result'[o] = result[o]
      BY <1>2 DEF WritesReport, Typed
    <2>2. \A o \in Outs : result[o].by = r => o = run[r].out
      BY DEF WayAt, Mine
    <2>3. /\ result'[run[r].out].status = run'[r].status
          /\ result'[run[r].out].rows = run'[r].rows /\ result'[run[r].out].tally = run'[r].tally
      BY <1>2 DEF WritesReport, Typed
    <2> QED BY <1>1, <2>1, <2>2, <2>3 DEF Mine
  <1>3. CASE ~WritesReport(r)
    <2>1. UNCHANGED result /\ run'[r].status = run[r].status
      BY <1>3 DEF Ahead, Aside, Off
    <2>2. run[r].status = "completed" =>
            run'[r].rows = run[r].rows /\ run'[r].tally = run[r].tally
      BY <1>3, AllIsDone DEF Aside, Off, WayAt, Careful
    <2> QED BY <1>1, <2>1, <2>2 DEF WayAt, Mine
  <1> QED BY <1>2, <1>3

\* A run whose result is there has passed a step that writes it, or does it now.
LEMMA HasWritten ==
  ASSUME Typed, NEW r \in Runs, WayAt(r), run[r].out \in Outs, Clear(r),
         Ahead(r) \/ Aside(r), NEW o \in Outs, result'[o].by = r
  PROVE  \E k \in DOMAIN Line : k <= run[r].at /\ Writes(Line[k])
  <1>1. CASE UNCHANGED result
    <2>1. PICK k \in DOMAIN Line : k < run[r].at /\ Writes(Line[k])
      BY <1>1 DEF WayAt, Begun
    <2>2. k \in Nat /\ run[r].at \in Nat
      BY Places
    <2> QED BY <2>1, <2>2
  <1>2. CASE WritesReport(r)
    BY <1>2, Places DEF WritesReport, Step
  <1> QED BY <1>1, <1>2 DEF Ahead, Aside

\* A run with a result is past a step that writes.
LEMMA BegunStays ==
  ASSUME Typed, NEW r \in Runs, WayAt(r), run[r].out \in Outs, Careful(script),
         Ahead(r) \/ Aside(r)
  PROVE  Begun(r)'
  <1> SUFFICES ASSUME Clear(r)', NEW o \in Outs, result'[o].by = r
               PROVE  \E k \in DOMAIN Line : k < run'[r].at /\ Writes(Line[k])
    BY DEF Begun, Line, Ahead, Aside, Steady
  <1>1. Clear(r)
    BY JumpOf DEF Ahead, Steady, Clear, Careful
  <1>2. PICK k \in DOMAIN Line : k <= run[r].at /\ Writes(Line[k])
    BY <1>1, HasWritten
  <1>3. k \in Nat /\ run[r].at \in Nat /\ run'[r].at \in Nat /\ run'[r].at > run[r].at
    BY Places DEF Ahead, Aside, Advanced, Thrown, Catches, Clear
  <1> QED BY <1>2, <1>3

\* A run past a step with which a result ends has a final status.
LEMMA ConcludedStays ==
  ASSUME Typed, NEW r \in Runs, WayAt(r), FailsSafely(script), Ahead(r) \/ Aside(r)
  PROVE  Concluded(r)'
  <1> SUFFICES ASSUME Clear(r)', NEW p \in DOMAIN Line, p < run'[r].at, Concludes(Line[p])
               PROVE  run'[r].status \in Final
    BY DEF Concluded, Line, Ahead, Aside, Steady
  <1>0. /\ p \in Nat /\ run[r].at \in Nat /\ run'[r].at \in Nat /\ run[r].at \in DOMAIN Line
        /\ run'[r].at \in DOMAIN Line
    BY Places DEF Ahead, Aside, Advanced, Thrown, Clear
  <1>1. CASE Aside(r)
    <2>1. Jumps(script, run[r].at, run'[r].at) /\ Clear(r)
      BY <1>1, JumpOf
    <2>2. p < run[r].at
      <3>1. run[r].at <= p => run'[r].at < p
        BY <1>0, <2>1 DEF FailsSafely, Line
      <3> QED BY <1>0, <3>1
    <2> QED BY <1>1, <2>1, <2>2 DEF WayAt, Concluded, Aside
  <1>2. CASE Ahead(r)
    <2>1. Clear(r)
      BY <1>2 DEF Ahead, Steady, Clear
    <2>2. Line[p].do = "publish"
      BY DEF Concludes
    <2>3. p <= run[r].at
      BY <1>0, <1>2, <2>2 DEF Ahead, Advanced, Clear
    <2>4. CASE p = run[r].at
      BY <1>2, <2>4 DEF Ahead, Concludes, Step
    <2>5. CASE p < run[r].at
      <3>1. run[r].status \in Final
        BY <2>1, <2>5 DEF WayAt, Concluded
      <3>2. Step(r).do = "publish" => Step(r).status \in Final
        BY <1>0, <2>5 DEF FailsSafely, Concludes, Step, Line
      <3> QED BY <1>2, <3>1, <3>2 DEF Ahead
    <2> QED BY <1>0, <2>3, <2>4, <2>5
  <1> QED BY <1>1, <1>2

\* A run that ends leaves a final status.
LEMMA StoppedStays ==
  ASSUME Typed, NEW r \in Runs, WayAt(r), run[r].out \in Outs, FailsSafely(script),
         Ahead(r) \/ Aside(r) \/ Off(r)
  PROVE  Stopped(r)'
  <1> SUFFICES ASSUME run'[r].phase = "ended", ~run'[r].muted,
                      NEW o \in Outs, result'[o].by = r
               PROVE  \/ run'[r].status \in Final
                      \/ Step(r).do = "take" /\ Step(r).in = "none"
    <2>1. run'[r].phase = "ended" => Step(r)' = Step(r)
      BY DEF Ahead, Aside, Off, Steady, Advanced, Thrown, Step, Line
    <2> QED BY <2>1 DEF Stopped
  <1>0. run[r].at \in Nat /\ run[r].at \in DOMAIN Line /\ DOMAIN Line \subseteq Nat
    BY Places
  <1>1. CASE Off(r)
    BY <1>0, <1>1 DEF Off, FailsSafely, Step, Line
  <1>2. CASE Aside(r) \/ Ahead(r)
    <2>1. Clear(r) /\ (Aside(r) => ~Writes(Step(r)))
      BY <1>2 DEF Aside, Ahead, Steady, Clear, GivesUp, Writes
    <2>2. \E k \in DOMAIN Line : k <= run[r].at /\ Writes(Line[k])
      BY <1>2, <2>1, HasWritten
    <2>3. \/ ~Counts(Step(r)) /\ ~Writes(Step(r)) /\ \A h \in DOMAIN Line : ~Catches(r, h)
          \/ ~GivesUp(Step(r)) /\ \A k \in DOMAIN Line : k > run[r].at => Line[k].do = "except"
      BY <1>2, <2>1 DEF Aside, Ahead, Thrown, Advanced
    <2>4. \/ Step(r).do = "take" /\ Step(r).in = "none"
          \/ \E p \in DOMAIN Line : p <= run[r].at /\ Concludes(Line[p])
      BY <1>0, <2>2, <2>3 DEF FailsSafely, Catches, Step, Line
    <2>5. ASSUME NEW p \in DOMAIN Line, p <= run[r].at, Concludes(Line[p])
          PROVE  run'[r].status \in Final
      <3>1. CASE p = run[r].at
        <4>1. Step(r).do = "publish" /\ Step(r).status \in Final /\ Writes(Step(r))
          BY <2>5, <3>1 DEF Concludes, Step, Writes
        <4> QED BY <1>2, <2>1, <4>1 DEF Ahead
      <3>2. CASE p < run[r].at
        <4>1. run[r].status \in Final
          BY <2>1, <2>5, <3>2 DEF WayAt, Concluded
        <4>2. Step(r).do = "publish" => Step(r).status \in Final
          BY <1>0, <2>5, <3>2 DEF FailsSafely, Concludes, Step, Line
        <4> QED BY <1>2, <4>1, <4>2 DEF Ahead, Aside
      <3> QED BY <1>0, <2>5, <3>1, <3>2
    <2> QED BY <2>4, <2>5
  <1> QED BY <1>1, <1>2

\* A run owes to each step it is past what that step saw.
LEMMA FollowedStays ==
  ASSUME Typed, NEW r \in Runs, WayAt(r), FailsSafely(script), Ahead(r) \/ Aside(r)
  PROVE  Followed(r)'
  <1> SUFFICES ASSUME Clear(r)', NEW j \in DOMAIN Line, Passed(script, j, run'[r].at)
               PROVE  Held(r, j)'
    BY DEF Followed, Line, Ahead, Aside, Steady
  <1>1. Clear(r)
    BY JumpOf DEF Ahead, Steady, Clear
  <1>2. ASSUME Passed(script, j, run[r].at)
        PROVE  Held(r, j)'
    BY <1>1, <1>2, HeldStays DEF WayAt, Followed, Passed
  <1>3. CASE Aside(r)
    BY <1>2, <1>3, PassedAside
  <1>4. CASE Ahead(r)
    <2>1. CASE j = run[r].at
      BY <1>4, <2>1, HeldNow DEF WayAt, Clean
    <2>2. CASE Line[j].do = "except"
      BY <1>4, <2>2 DEF Held, Line, Ahead, Steady
    <2> QED BY <1>2, <1>4, <2>1, <2>2, PassedAhead DEF Clear
  <1> QED BY <1>3, <1>4

\* What was looked at before it was taken stays clean of what is wrong all along.
LEMMA CleanStays ==
  ASSUME Typed, NEW r \in Runs, WayAt(r), Ahead(r) \/ Aside(r) \/ Off(r)
  PROVE  Clean(r)'
  <1>1. run'[r].outset = run[r].outset /\ UNCHANGED <<script, wrong>> /\ run[r].outset \subseteq wrong
    BY DEF Ahead, Aside, Off, Steady, WayAt, Clean
  <1> SUFFICES ASSUME NEW t \in Things, \A m \in Takes(script, t) : LookedAt(script, t, m),
                      t \in run'[r].tainted, t \in run[r].outset
               PROVE  FALSE
    BY <1>1 DEF Clean, Things
  <1>2. t \notin run[r].tainted
    BY DEF WayAt, Clean
  <1>3. Ahead(r) /\ Step(r).do = "take" /\ t \in Step(r).things
    BY <1>2 DEF Ahead, Aside, Off
  <1>4. run[r].at \in Takes(script, t) /\ Clear(r)
    BY <1>3, Places DEF Takes, Step, Line, Ahead, Steady, Clear
  <1>5. PICK j \in DOMAIN Line : /\ Line[j].do = "look" /\ t \in Line[j].things
                                 /\ Passed(script, j, run[r].at)
    BY <1>4 DEF LookedAt, Line
  <1>6. Held(r, j)
    BY <1>4, <1>5 DEF WayAt, Followed
  <1> QED BY <1>5, <1>6 DEF Held

-----------------------------------------------------------------------------
(* The counters.                                                           *)

\* The items with this outcome.
Having(S, rows, w) == {i \in S : rows[i] = w}

\* One more item among them, or not.
LEMMA OneMore ==
  ASSUME NEW S, IsFiniteSet(S), NEW x, x \notin S, NEW f, NEW w
  PROVE  Cardinality(Having(S \cup {x}, f, w)) =
           IF f[x] = w THEN Cardinality(Having(S, f, w)) + 1 ELSE Cardinality(Having(S, f, w))
  <1> USE DEF Having
  <1> DEFINE old == Having(S, f, w)
             new == Having(S \cup {x}, f, w)
  <1>1. IsFiniteSet(old) /\ x \notin old
    BY FS_Subset
  <1>2. CASE f[x] = w
    <2>1. new = old \cup {x}
      BY <1>2
    <2>2. Cardinality(old \cup {x}) = Cardinality(old) + 1
      BY <1>1, FS_AddElement
    <2> QED BY <1>2, <2>1, <2>2
  <1>3. CASE f[x] # w
    <2>1. new = old
      BY <1>3
    <2> QED BY <1>3, <2>1
  <1> QED BY <1>2, <1>3

\* The items counted when a run has gone on.
LEMMA CountedThen ==
  ASSUME Typed, NEW r \in Runs, Ahead(r), run'[r].phase = "running"
  PROVE  Tallied(script, run'[r].at) =
           CountedBefore(script, run[r].at)
             \cup (IF Counts(Step(r)) THEN Step(r).items ELSE {})
  <1>1. /\ run[r].at \in Nat /\ run[r].at \in DOMAIN Line /\ DOMAIN Line \subseteq Nat
        /\ DOMAIN Line = DOMAIN script.steps
    BY Places DEF Line
  <1>2. /\ run'[r].at \in DOMAIN Line /\ run'[r].at > run[r].at
        /\ Line[run'[r].at].do # "except"
        /\ \A k \in DOMAIN Line : run[r].at < k /\ k < run'[r].at => Line[k].do = "except"
    BY DEF Ahead, Advanced
  <1>3. Tallied(script, run'[r].at) = CountedBefore(script, run'[r].at)
    BY <1>2 DEF Tallied, CountsError, Line
  <1>4. \A k \in DOMAIN Line : k < run'[r].at /\ Counts(Line[k]) =>
           k < run[r].at \/ k = run[r].at
    BY <1>1, <1>2 DEF Counts
  <1>5. {j \in DOMAIN script.steps : j < run'[r].at /\ Counts(script.steps[j])} =
          {j \in DOMAIN script.steps : j < run[r].at /\ Counts(script.steps[j])}
            \cup (IF Counts(Step(r)) THEN {run[r].at} ELSE {})
    BY <1>1, <1>2, <1>4 DEF Step, Line
  <1> QED BY <1>3, <1>5 DEF CountedBefore, Step, Line

\* Only items of the script are counted.
LEMMA CountedInItems ==
  ASSUME Typed, NEW k
  PROVE  /\ CountedBefore(script, k) \subseteq Items /\ Tallied(script, k) \subseteq Items
         /\ IsFiniteSet(CountedBefore(script, k)) /\ IsFiniteSet(Tallied(script, k))
  <1>1. \A j \in DOMAIN script.steps : script.steps[j].items \subseteq Items
    BY ScriptSteps DEF Steps, Line, Items
  <1>2. CountedBefore(script, k) \subseteq Items
    BY <1>1 DEF CountedBefore
  <1>3. Tallied(script, k) \subseteq Items
    BY <1>2 DEF Tallied
  <1>4. IsFiniteSet(Items)
    BY ScriptSteps
  <1> QED BY <1>2, <1>3, <1>4, FS_Subset

\* The counters are those of the items counted so far.
LEMMA CountedStays ==
  ASSUME Typed, NEW r \in Runs, WayAt(r), Careful(script), Ahead(r) \/ Aside(r)
  PROVE  Counted(r)'
  <1> DEFINE at == run[r].at
             T == Tallied(script, run[r].at)
             before == run[r]
             after == run'[r]
  <1> SUFFICES ASSUME Clear(r)', CountsInTry(script) => ~after.muted
               PROVE  \A w \in Outcomes : after.tally[w] =
                        Cardinality({i \in Tallied(script, after.at) : after.rows[i] = w})
    BY DEF Counted, Exempt, AddsUpTo, Ahead, Aside, Steady
  <1>1. Clear(r)
    BY JumpOf DEF Ahead, Steady, Clear, Careful
  <1>2. ~Exempt(r)
    BY DEF Exempt, Ahead, Aside
  <1>3. \A w \in Outcomes : before.tally[w] = Cardinality({i \in T : before.rows[i] = w})
    BY <1>1, <1>2 DEF WayAt, Counted, AddsUpTo
  <1>4. /\ at \in DOMAIN script.steps /\ Step(r) = script.steps[at]
        /\ before.tally \in [Outcomes -> Nat] /\ before.rows \in [Items -> Words]
    BY Places DEF Line, Step
  <1>5. T \subseteq Items /\ IsFiniteSet(T) /\ Step(r).items \subseteq Items
    BY CountedInItems, Places DEF Steps, Items
  <1>6. CASE Aside(r)
    <2>1. Jumps(script, at, after.at)
      BY <1>6, JumpOf DEF Careful
    <2>2. after.at \in DOMAIN script.steps
      BY <1>6 DEF Aside, Thrown, Clear, Line
    <2>3. Tallied(script, after.at) = T
      BY <1>4, <1>6, <2>1, <2>2 DEF Careful, CountsOnce, Aside
    <2> QED BY <1>3, <1>6, <2>3 DEF Aside
  <1>7. CASE Ahead(r)
    <2>1. Tallied(script, after.at) =
            CountedBefore(script, at) \cup (IF Counts(Step(r)) THEN Step(r).items ELSE {})
      BY <1>7, CountedThen DEF Clear
    <2>2. CountsOnce(script) /\ Adds(r) /\ Rewrites(r)
      BY <1>7 DEF Careful, Ahead
    <2>3. CASE Step(r).do = "count"
      <3>1. PICK x \in Items \ T : Step(r).items = {x}
        BY <1>4, <2>2, <2>3 DEF CountsOnce, Items
      <3>2. after.rows = before.rows
            /\ after.tally = [before.tally EXCEPT ![before.rows[x]] = @ + 1]
        BY <2>2, <2>3, <3>1 DEF Adds, Rewrites, Marks
      <3>3. Tallied(script, after.at) = T \cup {x}
        BY <1>4, <2>1, <2>3, <3>1 DEF Tallied, Counts, CountsError
      <3>4. ASSUME NEW w \in Outcomes
            PROVE  after.tally[w] = Cardinality({i \in T \cup {x} : before.rows[i] = w})
        <4>1. Cardinality({i \in T \cup {x} : before.rows[i] = w}) =
                IF before.rows[x] = w THEN Cardinality({i \in T : before.rows[i] = w}) + 1
                ELSE Cardinality({i \in T : before.rows[i] = w})
          <5>1. x \notin T /\ IsFiniteSet(T)
            BY <1>5, <3>1
          <5> DEFINE V == before.rows
          <5> HIDE DEF T, V
          <5>2. Cardinality(Having(T \cup {x}, V, w)) =
                  IF V[x] = w THEN Cardinality(Having(T, V, w)) + 1
                  ELSE Cardinality(Having(T, V, w))
            BY <5>1, OneMore
          <5> QED BY <5>2 DEF V, Having
        <4>2. before.tally[w] = Cardinality({i \in T : before.rows[i] = w})
          BY <1>3
        <4> QED BY <1>4, <3>2, <4>1, <4>2
      <3> QED BY <3>2, <3>3, <3>4
    <2>4. CASE Step(r).do = "tally"
      <3>1. T \subseteq Step(r).items
        BY <1>4, <2>2, <2>4 DEF CountsOnce
      <3>2. Tallied(script, after.at) = Step(r).items
        BY <1>4, <2>1, <2>4, <3>1 DEF Tallied, Counts, CountsError
      <3>3. after.rows = before.rows
        BY <2>2, <2>4 DEF Rewrites, Marks
      <3> QED BY <2>2, <2>4, <3>2, <3>3 DEF Adds
    <2>5. CASE CountsError(Step(r))
      <3>1. PICK x \in CountedBefore(script, at) : Step(r).items = {x}
        BY <1>4, <2>2, <2>5 DEF CountsOnce
      <3>2. T = CountedBefore(script, at) \ {x}
        BY <1>4, <2>5, <3>1 DEF Tallied
      <3>3. Tallied(script, after.at) = T \cup {x}
        BY <2>1, <2>5, <3>1, <3>2 DEF Counts, CountsError
      <3>4. /\ after.rows[x] = "error" /\ \A i \in T : after.rows[i] = before.rows[i]
            /\ after.tally = [before.tally EXCEPT !["error"] = @ + 1]
        BY <1>5, <2>2, <2>5, <3>1, <3>2 DEF Adds, Rewrites
      <3>5. ASSUME NEW w \in Outcomes
            PROVE  after.tally[w] = Cardinality({i \in T \cup {x} : after.rows[i] = w})
        <4>1. Cardinality({i \in T \cup {x} : after.rows[i] = w}) =
                IF after.rows[x] = w THEN Cardinality({i \in T : after.rows[i] = w}) + 1
                ELSE Cardinality({i \in T : after.rows[i] = w})
          <5>1. x \notin T /\ IsFiniteSet(T)
            BY <1>5, <3>2
          <5> DEFINE V == after.rows
          <5> HIDE DEF T, V
          <5>2. Cardinality(Having(T \cup {x}, V, w)) =
                  IF V[x] = w THEN Cardinality(Having(T, V, w)) + 1
                  ELSE Cardinality(Having(T, V, w))
            BY <5>1, OneMore
          <5> QED BY <5>2 DEF V, Having
        <4>2. {i \in T : after.rows[i] = w} = {i \in T : before.rows[i] = w}
          BY <3>4
        <4>3. before.tally[w] = Cardinality({i \in T : before.rows[i] = w})
          BY <1>3
        <4>4. after.tally[w] = IF w = "error" THEN before.tally[w] + 1 ELSE before.tally[w]
          BY <1>4, <3>4
        <4> QED BY <3>4, <4>1, <4>2, <4>3, <4>4
      <3> QED BY <3>3, <3>5
    <2>6. CASE ~Counts(Step(r)) /\ ~CountsError(Step(r))
      <3>1. after.tally = before.tally
        BY <2>2, <2>6 DEF Adds
      <3>2. Tallied(script, after.at) = T
        BY <1>4, <2>1, <2>6 DEF Tallied
      <3>3. ASSUME NEW i \in T
            PROVE  after.rows[i] = before.rows[i]
        <4>1. Marks(Step(r)) => i \notin Step(r).items
          BY <1>4, <2>2 DEF CountsOnce
        <4> QED BY <1>5, <2>2, <4>1 DEF Rewrites
      <3>4. \A w : {i \in T : after.rows[i] = w} = {i \in T : before.rows[i] = w}
        BY <3>3
      <3> QED BY <1>3, <3>1, <3>2, <3>4
    <2> QED BY <2>3, <2>4, <2>5, <2>6 DEF Counts
  <1> QED BY <1>6, <1>7

-----------------------------------------------------------------------------
(* A completed result, and the whole of the way.                           *)

\* The step that completes a result has every reason to.
LEMMA CompletesSoundly ==
  ASSUME Typed, NEW r \in Runs, WayAt(r), Careful(script), Ahead(r), Completes(Step(r))
  PROVE  Sound(r)'
  <1> DEFINE p == run[r].at
  <1>1. /\ p \in DOMAIN Line /\ Step(r) = Line[p] /\ DOMAIN Line = DOMAIN script.steps
        /\ Line = script.steps /\ run[r].tainted \subseteq Things /\ p \in Nat
    BY Places DEF Step, Line
  <1>2. Clear(r) /\ RestsOnChecks(script) /\ CountsOnce(script) /\ UNCHANGED script
    BY DEF Ahead, Steady, Clear, Careful
  <1>3. Step(r).do = "publish"
    BY DEF Completes
  <1>4. /\ run'[r].rows = run[r].rows /\ run'[r].tally = run[r].tally
        /\ run'[r].tainted = run[r].tainted /\ run'[r].outset = run[r].outset
        /\ run'[r].muted = run[r].muted
    BY <1>3 DEF Ahead, Steady, Adds, Rewrites, Marks, Counts, CountsError
  <1>5. \A j \in DOMAIN Line : Passed(script, j, p) => Held(r, j)
    BY <1>2 DEF WayAt, Followed
  <1>6. run[r].tainted \cap (run[r].outset \cup script.checked) = {}
    <2> SUFFICES ASSUME NEW t \in run[r].tainted, t \in run[r].outset \/ t \in script.checked
                 PROVE  FALSE
      OBVIOUS
    <2>1. t \in script.things /\ t \in Things
      BY <1>1 DEF Things
    <2>2. \/ Checked(script, t, p)
          \/ /\ t \notin script.checked
             /\ LookedAt(script, t, p) \/ \A m \in Takes(script, t) : LookedAt(script, t, m)
      BY <1>1, <1>2, <2>1 DEF RestsOnChecks
    <2>3. CASE Checked(script, t, p)
      <3>1. PICK j \in DOMAIN Line : /\ Line[j].do = "check" /\ t \in Line[j].things
                                     /\ Passed(script, j, p)
                                     /\ \A m \in Takes(script, t) : m < j
        BY <1>1, <2>3 DEF Checked
      <3>2. Held(r, j)
        BY <1>5, <3>1
      <3> QED BY <3>1, <3>2 DEF Held
    <2>4. CASE LookedAt(script, t, p) /\ t \notin script.checked
      <3>1. PICK j \in DOMAIN Line : /\ Line[j].do = "look" /\ t \in Line[j].things
                                     /\ Passed(script, j, p)
        BY <1>1, <2>4 DEF LookedAt
      <3>2. Held(r, j)
        BY <1>5, <3>1
      <3> QED BY <2>4, <3>1, <3>2 DEF Held
    <2>5. CASE t \notin script.checked /\ \A m \in Takes(script, t) : LookedAt(script, t, m)
      BY <2>1, <2>5 DEF WayAt, Clean
    <2> QED BY <2>2, <2>3, <2>4, <2>5
  <1>7. ASSUME NEW k \in DOMAIN Line, Line[k].do \in {"agree", "some"}
        PROVE  \E j \in DOMAIN Line : /\ Line[j].do = Line[k].do /\ Line[j].items = Line[k].items
                                      /\ Held(r, j) /\ Settled(script, j)
    <2>1. Line[k] \in Range(script.steps)
      BY <1>1, <1>7 DEF Range
    <2>2. PICK j \in DOMAIN Line : /\ Line[j].do = Line[k].do /\ Line[j].items = Line[k].items
                                   /\ Passed(script, j, p) /\ Settled(script, j)
      BY <1>1, <1>2, <1>7, <2>1 DEF RestsOnChecks
    <2> QED BY <1>5, <2>2
  <1>8. \A k \in DOMAIN Line :
          /\ Line[k].do = "agree" =>
               \A i, j \in Line[k].items : run[r].rows[i] = run[r].rows[j]
          /\ Line[k].do = "some" => \E i \in Line[k].items : run[r].rows[i] # "empty"
    <2> SUFFICES ASSUME NEW k \in DOMAIN Line, Line[k].do \in {"agree", "some"}
                 PROVE  /\ Line[k].do = "agree" =>
                             \A i, j \in Line[k].items : run[r].rows[i] = run[r].rows[j]
                        /\ Line[k].do = "some" =>
                             \E i \in Line[k].items : run[r].rows[i] # "empty"
      OBVIOUS
    <2>1. PICK j \in DOMAIN Line : /\ Line[j].do = Line[k].do /\ Line[j].items = Line[k].items
                                   /\ Held(r, j) /\ Settled(script, j)
      BY <1>7
    <2> QED BY <2>1 DEF Held
  <1>9. Exempt(r) \/ AddsUpTo(r, script.counted)
    <2>1. Tallied(script, p) = script.counted
      BY <1>1, <1>2 DEF CountsOnce
    <2> QED BY <1>2, <2>1 DEF WayAt, Counted
  <1>10. run'[r].phase = "running" =>
           \E k \in DOMAIN Line : k < run'[r].at /\ Completes(Line[k])
    BY <1>1 DEF Ahead, Advanced
  <1> QED
    BY <1>2, <1>4, <1>6, <1>8, <1>9, <1>10 DEF Sound, Exempt, AddsUpTo, Line

\* A completed result stays sound.
LEMMA SoundStays ==
  ASSUME Typed, NEW r \in Runs, WayAt(r), Careful(script), Ahead(r) \/ Aside(r) \/ Off(r)
  PROVE  Sound(r)'
  <1> SUFFICES ASSUME run'[r].status = "completed" PROVE Sound(r)'
    BY DEF Sound
  <1>1. ~Off(r)
    BY Places DEF Off, Careful, FailsSafely, Step, Line
  <1>2. CASE Ahead(r) /\ Step(r).do = "publish"
    <2>1. Completes(Step(r))
      BY <1>2 DEF Ahead, Completes
    <2> QED BY <1>2, <2>1, CompletesSoundly
  <1>3. CASE Aside(r) \/ (Ahead(r) /\ Step(r).do # "publish")
    <2>1. run[r].status = "completed" /\ Sound(r) /\ run[r].phase = "running"
      BY <1>3 DEF Aside, Ahead, Steady, WayAt
    <2>2. /\ run'[r].rows = run[r].rows /\ run'[r].tally = run[r].tally
          /\ run'[r].tainted = run[r].tainted
      BY <1>3, <2>1, AllIsDone DEF Aside, Careful
    <2>3. /\ run'[r].outset = run[r].outset /\ UNCHANGED script
          /\ (run[r].muted => run'[r].muted)
      BY <1>3 DEF Aside, Ahead, Steady
    <2>4. PICK p \in DOMAIN Line : p < run[r].at /\ Completes(Line[p])
      BY <2>1 DEF Sound
    <2>5. run'[r].phase = "running" => p < run'[r].at
      <3>1. p \in Nat /\ run[r].at \in Nat /\ DOMAIN Line \subseteq Nat
        BY Places
      <3> QED BY <1>3, <2>4, <3>1 DEF Ahead, Advanced, Aside, Thrown, Catches
    <2> QED BY <2>1, <2>2, <2>3, <2>4, <2>5 DEF Sound, Exempt, AddsUpTo, Line
  <1> QED BY <1>1, <1>2, <1>3

\* What a step does not write stays with the runs that wrote it.
LEMMA StepKeepsWay ==
  ASSUME Typed, WayInv, Careful(script), NEW r \in Runs, run[r].out \in Outs,
         Ahead(r) \/ Aside(r) \/ Off(r)
  PROVE  WayInv'
  <1>1. UNCHANGED <<script, wrong>> /\ \A q \in Runs : q # r => run'[q] = run[q]
    BY DEF Ahead, Aside, Off, Steady
  <1>2. ASSUME NEW q \in Runs, q # r
        PROVE  WayAt(q)'
    <2>1. \A o \in Outs : result'[o].by = q => result'[o] = result[o]
      BY <1>2 DEF Ahead, Aside, Off, WritesReport, Typed
    <2> QED BY <1>1, <1>2, <2>1, Bystander DEF WayInv
  <1>3. WayAt(r)
    BY DEF WayInv
  <1>4. WayAt(r)'
    <2>1. run'[r].phase # "idle" /\ (Off(r) => run'[r].phase = "ended")
      BY DEF Ahead, Aside, Off, Advanced, Thrown
    <2>2. Mine(r)' /\ Stopped(r)' /\ Clean(r)' /\ Sound(r)'
      BY <1>3, MineStays, StoppedStays, CleanStays, SoundStays DEF Careful
    <2>3. CASE Off(r)
      BY <2>1, <2>2, <2>3 DEF WayAt, Idle, Begun, Concluded, Followed, Counted, Clear
    <2>4. CASE Ahead(r) \/ Aside(r)
      <3>1. Begun(r)' /\ Concluded(r)' /\ Followed(r)' /\ Counted(r)'
        BY <1>3, <2>4, BegunStays, ConcludedStays, FollowedStays, CountedStays DEF Careful
      <3> QED BY <2>1, <2>2, <3>1 DEF WayAt, Idle
    <2> QED BY <2>3, <2>4
  <1> QED BY <1>2, <1>4 DEF WayInv

\* A run that is killed keeps what it has.
LEMMA KillKeepsWay ==
  ASSUME Typed, WayInv, NEW r \in Runs, Kill(r)
  PROVE  WayInv'
  <1>1. run[r] \in RunState /\ run[r].phase = "running" /\ UNCHANGED <<script, wrong, result>>
        /\ run' = [run EXCEPT ![r].phase = "killed"]
    BY ScriptSteps DEF Kill
  <1>2. /\ \A q \in Runs : q # r => run'[q] = run[q]
        /\ run'[r].phase = "killed" /\ run'[r].at = run[r].at /\ run'[r].out = run[r].out
        /\ run'[r].status = run[r].status /\ run'[r].rows = run[r].rows
        /\ run'[r].tally = run[r].tally /\ run'[r].tainted = run[r].tainted
        /\ run'[r].outset = run[r].outset /\ run'[r].muted = run[r].muted
    BY <1>1 DEF Typed, RunState
  <1>3. ASSUME NEW q \in Runs, q # r
        PROVE  WayAt(q)'
    BY <1>1, <1>2, <1>3, Bystander DEF WayInv
  <1>4. WayAt(r)'
    <2>1. WayAt(r)
      BY DEF WayInv
    <2> QED
      BY <1>1, <1>2, <2>1
      DEF WayAt, Idle, Mine, Begun, Concluded, Stopped, Followed, Clean, Counted, Sound, Clear,
          Exempt, AddsUpTo, Line, Things
  <1> QED BY <1>3, <1>4 DEF WayInv

\* A run that begins has done nothing yet.
LEMMA BeginKeepsWay ==
  ASSUME Typed, WayInv, NEW r \in Runs, NEW o \in Outs, Begin(r, o)
  PROVE  WayInv'
  <1>1. run[r] \in RunState /\ run[r].phase = "idle" /\ UNCHANGED <<script, wrong, result>>
        /\ run' = [run EXCEPT ![r].phase = "running", ![r].out = o, ![r].outset = wrong]
    BY ScriptSteps DEF Begin
  <1>2. /\ \A q \in Runs : q # r => run'[q] = run[q]
        /\ run'[r].phase = "running" /\ run'[r].at = run[r].at /\ run'[r].out = o
        /\ run'[r].status = run[r].status /\ run'[r].rows = run[r].rows
        /\ run'[r].tally = run[r].tally /\ run'[r].tainted = run[r].tainted
        /\ run'[r].outset = wrong /\ run'[r].muted = run[r].muted
    BY <1>1 DEF Typed, RunState
  <1>3. ASSUME NEW q \in Runs, q # r
        PROVE  WayAt(q)'
    BY <1>1, <1>2, <1>3, Bystander DEF WayInv
  <1>4. /\ WayAt(r) /\ run[r].at = 1 /\ run[r].status = "none" /\ run[r].tainted = {}
        /\ run[r].tally = Nothing /\ \A p \in Outs : result[p].by # r
    BY <1>1 DEF WayInv, WayAt, Idle, Mine
  <1>5. DOMAIN Line = 1..Len(Line) /\ Len(Line) \in Nat
    BY Places
  <1>6. Followed(r)'
    BY <1>1, <1>2, <1>4, <1>5 DEF Followed, Passed, Line
  <1>7. Counted(r)'
    <2>1. Tallied(script, 1) = {}
      BY <1>5 DEF Tallied, CountedBefore, Line
    <2>2. \A w : {i \in {} : run[r].rows[i] = w} = {}
      OBVIOUS
    <2>3. \A w \in Outcomes : Nothing[w] = 0
      BY DEF Nothing
    <2> QED BY <1>1, <1>2, <1>4, <2>1, <2>2, <2>3, FS_EmptySet, ZenonT(40) DEF Counted, AddsUpTo
  <1>8. Mine(r)' /\ Begun(r)' /\ Stopped(r)' /\ Sound(r)' /\ Clean(r)' /\ Idle(r)'
    BY <1>1, <1>2, <1>4 DEF Mine, Begun, Stopped, Sound, Clean, Idle
  <1>9. Concluded(r)'
    <2>1. \A p \in DOMAIN Line : ~(p < 1)
      BY <1>5
    <2> QED BY <1>1, <1>2, <1>4, <2>1 DEF Concluded, Line
  <1>10. WayAt(r)'
    BY <1>6, <1>7, <1>8, <1>9 DEF WayAt
  <1> QED BY <1>3, <1>10 DEF WayInv

\* A change can only take from what was wrong from the start of a run.
LEMMA ChangeKeepsWay ==
  ASSUME Typed, WayInv, NEW t \in Things, Change(t)
  PROVE  WayInv'
  <1>1. UNCHANGED <<script, result>>
        /\ run' = [r \in Runs |-> [run[r] EXCEPT !.outset = @ \cap wrong']]
    BY DEF Change
  <1> SUFFICES ASSUME NEW r \in Runs PROVE WayAt(r)'
    BY DEF WayInv
  <1>2. run[r] \in RunState /\ WayAt(r)
    BY DEF Typed, WayInv
  <1>3. /\ run'[r].phase = run[r].phase /\ run'[r].at = run[r].at /\ run'[r].out = run[r].out
        /\ run'[r].status = run[r].status /\ run'[r].rows = run[r].rows
        /\ run'[r].tally = run[r].tally /\ run'[r].tainted = run[r].tainted
        /\ run'[r].outset = run[r].outset \cap wrong' /\ run'[r].muted = run[r].muted
    BY <1>1, <1>2 DEF RunState
  <1>4. script' = script /\ result' = result
    BY <1>1
  <1>5. Idle(r)' /\ Mine(r)' /\ Begun(r)' /\ Concluded(r)' /\ Stopped(r)'
    BY <1>1, <1>2, <1>3
    DEF WayAt, Idle, Mine, Begun, Concluded, Stopped, Clear, Step, Line
  <1>6. ASSUME NEW j \in DOMAIN Line, Held(r, j)
        PROVE  Held(r, j)'
    <2>1. run[r].outset \cap wrong' \subseteq run[r].outset
      OBVIOUS
    <2> QED BY <1>3, <1>4, <1>6, <2>1 DEF Held, Line
  <1>7. Followed(r)'
    BY <1>2, <1>3, <1>4, <1>6 DEF WayAt, Followed, Clear, Step, Line
  <1>8. Clean(r)'
    BY <1>2, <1>3, <1>4 DEF WayAt, Clean, Things
  <1>9. Counted(r)'
    BY <1>2, <1>3, <1>4 DEF WayAt, Counted, Clear, Exempt, AddsUpTo, GivesUp, Step, Line
  <1>10. Sound(r)'
    <2>1. run'[r].tainted \cap (run'[r].outset \cup script.checked)
            \subseteq run[r].tainted \cap (run[r].outset \cup script.checked)
      BY <1>3
    <2>2. Exempt(r)' = Exempt(r) /\ AddsUpTo(r, script.counted)' = AddsUpTo(r, script.counted)
      BY <1>3, <1>4 DEF Exempt, AddsUpTo
    <2> QED BY <1>2, <1>3, <1>4, <2>1, <2>2 DEF WayAt, Sound, Line
  <1> QED BY <1>5, <1>7, <1>8, <1>9, <1>10 DEF WayAt

\* At the start no run has done anything.
LEMMA InitWay == Init => WayInv
  <1> SUFFICES ASSUME Init, NEW r \in Runs PROVE WayAt(r)
    BY DEF WayInv
  <1>1. /\ run[r].phase = "idle" /\ run[r].at = 1 /\ run[r].status = "none"
        /\ run[r].tainted = {} /\ run[r].tally = Nothing /\ ~run[r].muted /\ run[r].outset = {}
    BY DEF Init
  <1>2. \A o \in Outs : result[o].by # r
    BY OnePassAssumption DEF Init, NoResult
  <1> QED
    BY <1>1, <1>2
    DEF WayAt, Idle, Mine, Begun, Concluded, Stopped, Followed, Clean, Counted, Sound, Clear

-----------------------------------------------------------------------------
(* Careful scripts.                                                        *)

Unwritten ==
  /\ made \subseteq Outs
  /\ \A o \in Outs : result[o].by = Free => result[o].status = "none"

\* The inductive invariant of careful scripts.
CarefulInv == LockInv /\ Careful(script) /\ Unwritten /\ WayInv

\* The inductive invariant holds at the start.
LEMMA InitCareful ==
  ASSUME \A s \in Scripts : Careful(s)
  PROVE  Init => CarefulInv
  <1>1. Init => Unwritten
    BY DEF Init, Unwritten, NoResult
  <1>2. Init => Careful(script)
    BY DEF Init
  <1> QED BY <1>1, <1>2, InitLockInv, InitWay DEF CarefulInv

\* A result without a run says nothing, and runs make only directories of results.
LEMMA NextUnwritten ==
  ASSUME LockInv, Unwritten, Next
  PROVE  Unwritten'
  <1>1. Typed /\ Free \notin Runs
    BY ScriptSteps DEF LockInv
  <1>2. CASE UNCHANGED <<made, result>>
    BY <1>2 DEF Unwritten
  <1>3. ASSUME NEW r \in Runs, RunStep(r)
        PROVE  Unwritten'
    <2>1. Effect(r)
      BY <1>1, <1>3, StepEffect
    <2>2. run[r].phase = "running" /\ run[r].out \in Outs
      BY <1>3 DEF RunStep, Look, Take, Check, Claim, Fresh, MakeDir, Publish, Score, Count, Tally,
             Save, Some, Agree, Expect, Plain, CatchRow, CatchRun, Does, LockInv, LockIsOwned
    <2>3. made' \subseteq made \cup {run[r].out}
      BY <1>3 DEF RunStep, Look, Take, Check, Claim, Fresh, MakeDir, Publish, Score, Count, Tally,
             Save, Some, Agree, Expect, Plain, CatchRow, CatchRun
    <2>4. \A o \in Outs : result'[o].by = Free => result'[o] = result[o]
      BY <1>1, <2>1 DEF Effect, ResultEffect, Typed
    <2> QED BY <2>2, <2>3, <2>4 DEF Unwritten
  <1> QED BY <1>2, <1>3 DEF Next, Stumble, Kill, Begin, Change

\* Every step keeps the inductive invariant.
LEMMA NextCareful == CarefulInv /\ [Next]_vars => CarefulInv'
  <1> SUFFICES ASSUME CarefulInv, [Next]_vars PROVE CarefulInv'
    OBVIOUS
  <1>1. LockInv /\ Typed /\ Careful(script) /\ Unwritten /\ WayInv
    BY DEF CarefulInv, LockInv
  <1>2. LockInv'
    BY <1>1, NextLockInv
  <1>3. CASE UNCHANGED vars
    <2>1. /\ UNCHANGED <<script, wrong, made, result, run>>
          /\ \A q \in Runs : run'[q] = run[q]
          /\ \A o \in Outs : result'[o] = result[o]
      BY <1>3 DEF vars
    <2>2. WayInv'
      BY <1>1, <2>1, Bystander DEF WayInv
    <2>3. Unwritten' /\ Careful(script)'
      BY <1>1, <2>1 DEF Unwritten
    <2> QED BY <1>2, <2>2, <2>3 DEF CarefulInv
  <1>4. CASE Next
    <2>1. Unwritten' /\ UNCHANGED script
      <3>1. UNCHANGED script
        BY <1>4, ZenonT(40) DEF Next, Stumble, Kill, Begin, Change, RunStep, Look, Take, Check, Claim, Fresh,
               MakeDir, Publish, Score, Count, Tally, Save, Some, Agree, Expect, Plain,
               CatchRow, CatchRun
      <3> QED BY <1>1, <1>4, <3>1, NextUnwritten
    <2>2. ASSUME NEW r \in Runs, RunStep(r) \/ Stumble(r)
          PROVE  WayInv'
      <3>1. run[r].phase = "running"
        BY <2>2 DEF Stumble, RunStep, Look, Take, Check, Claim, Fresh, MakeDir, Publish, Score,
               Count, Tally, Save, Some, Agree, Expect, Plain, CatchRow, CatchRun, Does
      <3>2. run[r].out \in Outs
        BY <1>1, <3>1 DEF LockInv, LockIsOwned
      <3>3. Ahead(r) \/ Aside(r) \/ Off(r)
        BY <1>1, <2>2, StepGoes
      <3> QED BY <1>1, <3>2, <3>3, StepKeepsWay
    <2>3. WayInv'
      BY <1>1, <1>4, <2>2, KillKeepsWay, BeginKeepsWay, ChangeKeepsWay DEF Next
    <2>4. Careful(script)'
      BY <1>1, <2>1
    <2> QED BY <1>2, <2>1, <2>3, <2>4 DEF CarefulInv
  <1> QED BY <1>3, <1>4

\* The run of a result that says it is completed knows what the result says.
LEMMA Author ==
  ASSUME CarefulInv, NEW o \in Outs, result[o].status # "none"
  PROVE  /\ result[o].by \in Runs /\ WayAt(result[o].by)
         /\ run[result[o].by].status = result[o].status
         /\ result[o].status = "completed" =>
              /\ result[o].rows = run[result[o].by].rows
              /\ result[o].tally = run[result[o].by].tally
  <1>1. result[o].by \in Runs
    BY DEF CarefulInv, Unwritten, LockInv, Typed, ResultFile
  <1>2. WayAt(result[o].by)
    BY <1>1 DEF CarefulInv, WayInv
  <1> QED BY <1>1, <1>2 DEF WayAt, Mine

\* The types.
LEMMA CarefulTypes ==
  ASSUME CarefulInv
  PROVE  TypeOK
  <1>1. ASSUME NEW r \in Runs
        PROVE  /\ run[r].phase \in {"idle", "running", "ended", "killed"}
               /\ run[r].at \in DOMAIN Line
               /\ run[r].outset \subseteq wrong /\ run[r].tainted \subseteq Things
    BY DEF CarefulInv, LockInv, Typed, RunState, WayInv, WayAt, Clean
  <1> QED BY <1>1 DEF TypeOK, CarefulInv, Unwritten, LockInv, Typed, ResultFile

\* A run that stopped says so.
LEMMA CarefulFails ==
  ASSUME CarefulInv
  PROVE  FailureIsRecorded
  <1> SUFFICES ASSUME NEW r \in Runs, run[r].phase = "ended", ~run[r].muted,
                      result[run[r].out].by = r
               PROVE  \/ result[run[r].out].status \in Final
                      \/ Step(r).do = "take" /\ Step(r).in = "none"
    BY DEF FailureIsRecorded
  <1>1. WayAt(r) /\ run[r].out \in Outs
    BY DEF CarefulInv, WayInv, LockInv, LockIsOwned
  <1> QED BY <1>1 DEF WayAt, Mine, Stopped

\* The lock, the statuses and the types, for any scripts whose text is careful,
\* any number of runs, places and faults: a result of a run that stopped has a
\* final status (the handlers of scripts/p2_*_one_pass.py), and no two runs get
\* past one lock file.
THEOREM OnePassInvariant ==
  ASSUME \A s \in Scripts : Careful(s)
  PROVE  Spec => []OnePassInv
  <1>1. CarefulInv => OnePassInv
    <2>1. LockInv => OneRunPerLock
      BY DEF LockInv, LockIsOwned, OneRunPerLock
    <2> QED
      BY <2>1, CarefulTypes, CarefulFails DEF OnePassInv, CarefulInv, LockInv, TextIsCareful
  <1>2. Init => CarefulInv
    BY InitCareful
  <1> QED BY <1>1, <1>2, NextCareful, PTL DEF Spec

\* A completed result of a careful script rests on what the contract pins down,
\* whatever changed, failed or was killed on the way.
THEOREM CompletedSoundly ==
  ASSUME \A s \in Scripts : Careful(s)
  PROVE  Spec => []CompletedIsSound
  <1>1. CarefulInv => CompletedIsSound
    <2> SUFFICES ASSUME CarefulInv, NEW o \in Outs, result[o].status = "completed"
                 PROVE  LET me == run[result[o].by] IN
                        /\ me.tainted \cap (me.outset \cup script.checked) = {}
                        /\ \A step \in Range(Line) :
                             /\ step.do = "agree" => \A i, j \in step.items :
                                  result[o].rows[i] = result[o].rows[j]
                             /\ step.do = "some" =>
                                  \E i \in step.items : result[o].rows[i] # "empty"
      BY DEF CompletedIsSound
    <2>1. /\ Sound(result[o].by) /\ run[result[o].by].status = "completed"
          /\ result[o].rows = run[result[o].by].rows
      BY Author DEF WayAt
    <2> QED BY <2>1 DEF Sound, Range
  <1>2. Init => CarefulInv
    BY InitCareful
  <1> QED BY <1>1, <1>2, NextCareful, PTL DEF Spec

\* The summary of a completed result of a careful script counts its rows, on
\* every way through the handlers of its rows.
THEOREM SummariesAddUp ==
  ASSUME \A s \in Scripts : Careful(s)
  PROVE  Spec => []SummaryAddsUp
  <1>1. CarefulInv => SummaryAddsUp
    <2> SUFFICES ASSUME CarefulInv, NEW o \in Outs, result[o].status = "completed"
                 PROVE  \/ CountsInTry(script) /\ run[result[o].by].muted
                        \/ \A s \in Outcomes : result[o].tally[s] =
                             Cardinality({i \in script.counted : result[o].rows[i] = s})
      BY DEF SummaryAddsUp
    <2>1. /\ Sound(result[o].by) /\ run[result[o].by].status = "completed"
          /\ result[o].rows = run[result[o].by].rows
          /\ result[o].tally = run[result[o].by].tally
      BY Author DEF WayAt
    <2> QED BY <2>1, SMTT(30) DEF Sound, Exempt, AddsUpTo
  <1>2. Init => CarefulInv
    BY InitCareful
  <1> QED BY <1>1, <1>2, NextCareful, PTL DEF Spec
=============================================================================
