------------------------------ MODULE OnePass ------------------------------
(***************************************************************************)
(* The evaluation scripts that may look at a corpus once                   *)
(* (scripts/p2_*_one_pass.py and their relatives). Each claims a permanent *)
(* lock, checks that its contract, the product and the corpus are the ones *)
(* that were registered before, scores the corpus, and keeps one result    *)
(* file up to date while it goes. A script is a program: a sequence of     *)
(* steps (module OnePassScripts writes them down); this module says what a *)
(* step does, while other runs of the script go on, files change, writes   *)
(* fail and runs are killed.                                               *)
(***************************************************************************)
EXTENDS Integers, FiniteSets, Functions, Sequences

CONSTANTS
  Scripts,   \* the programs: records [lock, steps, things, items, counted, checked]
  Runs,      \* runs of the script
  Outs,      \* places of a result that runs are given
  Free,      \* nobody: an unclaimed lock, a result that is not there
  MaxFaults  \* bound on failing calls, kills and files that are wrong or change

Steps(s) ==
  [do : STRING, things : SUBSET s.things, items : SUBSET s.items, words : SUBSET STRING,
   status : STRING, in : STRING, of : STRING]

\* The steps that write the result file.
Writes(step) ==
  \/ step.do \in {"publish", "save", "expect"}
  \/ step.do = "except" /\ (step.of = "row" => "save" \in step.words)

\* The lock file is made once, outside of any try, before the result is
\* written; an exception on the way ends the run.
ClaimsFirst(s) ==
  \E c \in DOMAIN s.steps : \A k \in DOMAIN s.steps :
    /\ s.steps[k].do = "claim" <=> k = c
    /\ Writes(s.steps[k]) \/ s.steps[k].do = "except" => k > c
    /\ s.steps[k].do = "except" => s.steps[k].of # "none"
    /\ k <= c => s.steps[k].in = "none"

ASSUME OnePassAssumption ==
  /\ Free \notin Runs /\ MaxFaults \in Nat
  /\ \A s \in Scripts :
       /\ s.steps \in Seq(Steps(s)) /\ s.steps # <<>> /\ IsFiniteSet(s.items)
       /\ IF s.lock = "none" THEN \A k \in DOMAIN s.steps : s.steps[k].do # "claim"
          ELSE ClaimsFirst(s)

VARIABLES
  script,  \* the script that is run (constant)
  wrong,   \* what differs from the contract now
  lock,    \* for each lock file: the run that made it, or Free
  made,    \* output directories that exist
  result,  \* for each place: the result file
  run,     \* for each run: its state
  faults

vars == <<script, wrong, lock, made, result, run, faults>>

Line == script.steps
Things == script.things
Items == script.items

Outcomes == {"hit", "miss", "error"}
Nothing == [s \in Outcomes |-> 0]
NoResult == [by |-> Free, status |-> "none", rows |-> <<>>, tally |-> Nothing]

Init ==
  /\ script \in Scripts
  /\ wrong \in {{}} \cup {{t} : t \in Things}
  /\ lock = [k \in Outs \cup {"shared"} |-> Free]
  /\ made = {}
  /\ result = [o \in Outs |-> NoResult]
  /\ run = [r \in Runs |-> [phase |-> "idle", at |-> 1, out |-> Free, status |-> "none",
                            rows |-> [i \in Items |-> "none"], tally |-> Nothing,
                            tainted |-> {}, outset |-> {}, muted |-> FALSE]]
  /\ faults = Cardinality(wrong)

-----------------------------------------------------------------------------
(* Steps and where they lead.                                              *)

Step(r) == Line[run[r].at]
Does(r, what) == run[r].phase = "running" /\ Step(r).do = what

Key(r) == IF script.lock = "out" THEN run[r].out ELSE "shared"

\* A run goes to the first of these steps, or ends.
GoTo(r, me, steps) ==
  \/ steps = {} /\ run' = [run EXCEPT ![r] = [me EXCEPT !.phase = "ended"]]
  \/ \E k \in steps : /\ \A j \in steps : k <= j
                      /\ run' = [run EXCEPT ![r] = [me EXCEPT !.at = k]]

\* A run passes by the handlers that it does not need.
Onward(r, me) ==
  GoTo(r, me, {k \in DOMAIN Line : k > run[r].at /\ Line[k].do # "except"})

\* An exception goes to the handler of the try that the step is in, or ends
\* the run.
Raise(r, me) ==
  GoTo(r, me, {k \in DOMAIN Line :
                 /\ k > run[r].at /\ Line[k].do = "except"
                 /\ Line[k].of = Step(r).in})

Pass(r) == Onward(r, run[r])
Refuse(r) == Raise(r, run[r])

\* The state of a run once the outcome of the items of its step is s.
Marked(r, s) == [run[r] EXCEPT !.rows = [i \in Items |->
                   IF i \in Step(r).items THEN s ELSE @[i]]]

\* The result file is replaced by what the run holds in memory.
Written(r, me) ==
  result' = [result EXCEPT ![me.out] =
    [by |-> r, status |-> me.status, rows |-> me.rows, tally |-> me.tally]]

Fault == faults < MaxFaults /\ faults' = faults + 1

-----------------------------------------------------------------------------
(* What each step does.                                                    *)

Begin(r, o) ==
  /\ run[r].phase = "idle"
  /\ run' = [run EXCEPT ![r].phase = "running", ![r].out = o, ![r].outset = wrong]
  /\ UNCHANGED <<script, wrong, lock, made, result, faults>>

\* Something is compared with the contract as it is now.
Look(r) ==
  /\ Does(r, "look")
  /\ IF Step(r).things \cap wrong = {} THEN Pass(r) ELSE Refuse(r)
  /\ UNCHANGED <<script, wrong, lock, made, result, faults>>

\* Something is read or loaded, and kept.
Take(r) ==
  /\ Does(r, "take")
  /\ LET things == Step(r).things
     IN  Onward(r, [run[r] EXCEPT !.tainted = (@ \ things) \cup (things \cap wrong)])
  /\ UNCHANGED <<script, wrong, lock, made, result, faults>>

\* What was taken is compared with the contract.
Check(r) ==
  /\ Does(r, "check")
  /\ IF Step(r).things \cap run[r].tainted = {} THEN Pass(r) ELSE Refuse(r)
  /\ UNCHANGED <<script, wrong, lock, made, result, faults>>

\* Mutant of Claim: the lock file is opened whether it exists or not.
ClaimAnyway(r) ==
  /\ Does(r, "claim")
  /\ lock' = [lock EXCEPT ![Key(r)] = r] /\ Pass(r)
  /\ UNCHANGED <<script, wrong, made, result, faults>>

\* The lock file is made unless it exists; it is never removed.
Claim(r) ==
  /\ Does(r, "claim")
  /\ IF lock[Key(r)] = Free
     THEN lock' = [lock EXCEPT ![Key(r)] = r] /\ Pass(r)
     ELSE Refuse(r) /\ UNCHANGED lock
  /\ UNCHANGED <<script, wrong, made, result, faults>>

\* The output directory is made unless it exists; an earlier look whether it
\* does only refuses sooner.
Fresh(r) ==
  /\ Does(r, "fresh")
  /\ IF run[r].out \in made THEN Refuse(r) ELSE Pass(r)
  /\ UNCHANGED <<script, wrong, lock, made, result, faults>>

MakeDir(r) ==
  /\ Does(r, "mkdir")
  /\ IF run[r].out \in made THEN Refuse(r) /\ UNCHANGED made
     ELSE Pass(r) /\ made' = made \cup {run[r].out}
  /\ UNCHANGED <<script, wrong, lock, result, faults>>

\* The status changes, and the result is written.
Publish(r) ==
  /\ Does(r, "publish")
  /\ LET me == [run[r] EXCEPT !.status = Step(r).status] IN Written(r, me) /\ Onward(r, me)
  /\ UNCHANGED <<script, wrong, lock, made, faults>>

\* An item is parsed and scored, with one of the outcomes the script has for
\* it, or it cannot be.
Score(r) ==
  /\ Does(r, "score")
  /\ (\E s \in Step(r).words : Onward(r, Marked(r, s))) \/ Refuse(r)
  /\ UNCHANGED <<script, wrong, lock, made, result, faults>>

\* The outcome of an item is added to the counters.
Count(r) ==
  /\ Does(r, "count")
  /\ \E i \in Step(r).items : Onward(r, [run[r] EXCEPT !.tally[run[r].rows[i]] = @ + 1])
  /\ UNCHANGED <<script, wrong, lock, made, result, faults>>

\* Mutant of Tally: the errors are left out.
TallyScored(r) ==
  /\ Does(r, "tally")
  /\ Onward(r, [run[r] EXCEPT !.tally = [s \in Outcomes |->
                  Cardinality({i \in Step(r).items \ {i \in Items : run[r].rows[i] = "error"} :
                                run[r].rows[i] = s})]])
  /\ UNCHANGED <<script, wrong, lock, made, result, faults>>

\* The rows of the result are counted.
Tally(r) ==
  /\ Does(r, "tally")
  /\ Onward(r, [run[r] EXCEPT !.tally = [s \in Outcomes |->
                  Cardinality({i \in Step(r).items : run[r].rows[i] = s})]])
  /\ UNCHANGED <<script, wrong, lock, made, result, faults>>

\* The row of an item is begun, or the rows are as they are: the result is
\* written.
Save(r) ==
  /\ Does(r, "save")
  /\ LET me == Marked(r, "started") IN Written(r, me) /\ Onward(r, me)
  /\ UNCHANGED <<script, wrong, lock, made, faults>>

\* Not all of the items are empty; all workers found the same.
Some(r) ==
  /\ Does(r, "some")
  /\ IF \A i \in Step(r).items : run[r].rows[i] = "empty" THEN Refuse(r) ELSE Pass(r)
  /\ UNCHANGED <<script, wrong, lock, made, result, faults>>

Agree(r) ==
  /\ Does(r, "agree")
  /\ IF \A i, j \in Step(r).items : run[r].rows[i] = run[r].rows[j] THEN Pass(r) ELSE Refuse(r)
  /\ UNCHANGED <<script, wrong, lock, made, result, faults>>

\* A measurement is as expected, or the run gives up with a status of its own.
Expect(r) ==
  /\ Does(r, "expect")
  /\ \/ Pass(r) /\ UNCHANGED result
     \/ LET me == [run[r] EXCEPT !.status = Step(r).status]
        IN  Written(r, me) /\ run' = [run EXCEPT ![r] = [me EXCEPT !.phase = "ended"]]
  /\ UNCHANGED <<script, wrong, lock, made, faults>>

\* The text of the lock file, the line on the screen: nothing depends on it,
\* but it may fail.
Plain(r) ==
  /\ Does(r, "plain") /\ Pass(r)
  /\ UNCHANGED <<script, wrong, lock, made, result, faults>>

\* The handler of a row notes the error; some write the result, some add to the
\* counters.
CatchRow(r) ==
  /\ Does(r, "except") /\ Step(r).of = "row"
  /\ LET me == IF "count" \in Step(r).words
               THEN [Marked(r, "error") EXCEPT !.tally["error"] = @ + 1] ELSE Marked(r, "error")
     IN  /\ Onward(r, me)
         /\ IF "save" \in Step(r).words THEN Written(r, me) ELSE UNCHANGED result
  /\ UNCHANGED <<script, wrong, lock, made, faults>>

\* Mutant of CatchRun: the status is changed, and not written.
CatchRunSilently(r) ==
  /\ Does(r, "except") /\ Step(r).of # "row"
  /\ run' = [run EXCEPT ![r].status = Step(r).status, ![r].phase = "ended"]
  /\ UNCHANGED <<script, wrong, lock, made, result, faults>>

\* The handler of a run publishes that it failed.
CatchRun(r) ==
  /\ Does(r, "except") /\ Step(r).of # "row"
  /\ LET me == [run[r] EXCEPT !.status = Step(r).status]
     IN  Written(r, me) /\ run' = [run EXCEPT ![r] = [me EXCEPT !.phase = "ended"]]
  /\ UNCHANGED <<script, wrong, lock, made, faults>>

\* A call fails before it has an effect.
Stumble(r) ==
  /\ run[r].phase = "running" /\ Fault
  /\ Step(r).do \notin {"check", "score", "count", "tally", "some", "agree"}
  /\ Raise(r, [run[r] EXCEPT !.muted = @ \/ Writes(Step(r))])
  /\ UNCHANGED <<script, wrong, lock, made, result>>

Kill(r) ==
  /\ run[r].phase = "running" /\ Fault
  /\ run' = [run EXCEPT ![r].phase = "killed"]
  /\ UNCHANGED <<script, wrong, lock, made, result>>

\* Something the contract pins down is changed or put right under a run.
Change(t) ==
  /\ \E r \in Runs : run[r].phase = "running"
  /\ Fault
  /\ wrong' = IF t \in wrong THEN wrong \ {t} ELSE wrong \cup {t}
  /\ run' = [r \in Runs |-> [run[r] EXCEPT !.outset = @ \cap wrong']]
  /\ UNCHANGED <<script, lock, made, result>>

RunStep(r) ==
  \/ Look(r) \/ Take(r) \/ Check(r) \/ Claim(r) \/ Fresh(r) \/ MakeDir(r) \/ Publish(r)
  \/ Score(r) \/ Count(r) \/ Tally(r) \/ Save(r) \/ Some(r) \/ Agree(r) \/ Expect(r)
  \/ Plain(r) \/ CatchRow(r) \/ CatchRun(r)

Next ==
  \/ \E r \in Runs : RunStep(r) \/ Stumble(r) \/ Kill(r) \/ \E o \in Outs : Begin(r, o)
  \/ \E t \in Things : Change(t)

Spec == Init /\ [][Next]_vars
Final == {"completed", "failed", "preflight_failed", "failed_accounting_mismatch"}

-----------------------------------------------------------------------------
(* What the text of a script must be like for its results to be sound. k,  *)
(* i, j, h and p are places in the text.                                   *)

\* The handlers of a run, the steps with which a result ends, and the steps
\* that change rows or counters.
GivesUp(step) == step.do = "except" /\ step.of # "row"
Concludes(step) == step.do = "publish" /\ step.status \in Final
Completes(step) == step.do = "publish" /\ step.status = "completed"
Marks(step) == step.do \in {"score", "save"} \/ (step.do = "except" /\ step.of = "row")
Counts(step) == step.do \in {"count", "tally"}
CountsError(step) == step.do = "except" /\ step.of = "row" /\ "count" \in step.words

\* An exception in step i goes to the handler h of a row.
Jumps(s, i, h) ==
  LET Catches(k) == /\ k > i
                    /\ s.steps[k].do = "except" /\ s.steps[k].of = s.steps[i].in
  IN  /\ Catches(h) /\ s.steps[h].of = "row"
      /\ \A k \in DOMAIN s.steps : Catches(k) => h <= k

\* Whoever gets to step k, other than to give up, has gone on from step j.
Passed(s, j, k) ==
  /\ j < k
  /\ \A i, h \in DOMAIN s.steps : Jumps(s, i, h) /\ i <= j => h <= j \/ h > k

\* From the first write on, a step that may stop the run is in a try or behind
\* the write that ends the result, which no exception of a row jumps over.
FailsSafely(s) ==
  LET L == s.steps
      Caught(i) == \E h \in DOMAIN L : h > i /\ L[h].do = "except" /\ L[h].of = L[i].in
      Stops(i) == \/ ~Counts(L[i]) /\ ~Writes(L[i]) /\ ~Caught(i)
                  \/ ~GivesUp(L[i]) /\ \A k \in DOMAIN L : k > i => L[k].do = "except"
  IN  /\ \A k \in DOMAIN L :
           /\ L[k].do = "expect" \/ GivesUp(L[k]) => L[k].status \in Final \ {"completed"}
           /\ GivesUp(L[k]) => L[k].in # "row"
      /\ \A p \in DOMAIN L : Concludes(L[p]) =>
           /\ \A i, h \in DOMAIN L : Jumps(s, i, h) /\ i <= p => h < p
           /\ \A k \in DOMAIN L : k > p /\ L[k].do = "publish" => Concludes(L[k])
      /\ \A i \in DOMAIN L : Stops(i) /\ (\E k \in DOMAIN L : k <= i /\ Writes(L[k])) =>
           \/ L[i].do = "take" /\ L[i].in = "none"
           \/ \E p \in DOMAIN L : p <= i /\ Concludes(L[p])

Takes(s, t) == {k \in DOMAIN s.steps : s.steps[k].do = "take" /\ t \in s.steps[k].things}

\* Thing t has been looked at before step k, or compared after it was taken for
\* the last time.
LookedAt(s, t, k) ==
  \E j \in DOMAIN s.steps :
    s.steps[j].do = "look" /\ t \in s.steps[j].things /\ Passed(s, j, k)
Checked(s, t, k) ==
  \E j \in DOMAIN s.steps :
    /\ s.steps[j].do = "check" /\ t \in s.steps[j].things /\ Passed(s, j, k)
    /\ \A m \in Takes(s, t) : m < j

\* Nothing changes the items of step j behind it.
Settled(s, j) ==
  \A k \in DOMAIN s.steps :
    k > j /\ Marks(s.steps[k]) => s.steps[k].items \cap s.steps[j].items = {}

\* A completed result comes after all that was taken, marked and counted;
\* everything taken was compared with the contract, and so were the rows.
RestsOnChecks(s) ==
  \A p \in DOMAIN s.steps : Completes(s.steps[p]) =>
    /\ \A k \in DOMAIN s.steps : k > p =>
         s.steps[k].do # "take" /\ ~Counts(s.steps[k]) /\ ~Marks(s.steps[k])
    /\ \A t \in s.things :
         \/ Checked(s, t, p)
         \/ /\ t \notin s.checked
            /\ LookedAt(s, t, p) \/ \A m \in Takes(s, t) : LookedAt(s, t, m)
    /\ \A step \in Range(s.steps) : step.do \in {"agree", "some"} =>
         \E j \in DOMAIN s.steps :
           /\ s.steps[j].do = step.do /\ s.steps[j].items = step.items
           /\ Passed(s, j, p) /\ Settled(s, j)

\* The items that are in the counters when a run gets to step k.
CountedBefore(s, k) ==
  UNION {s.steps[j].items : j \in {j \in DOMAIN s.steps : j < k /\ Counts(s.steps[j])}}
Tallied(s, k) ==
  CountedBefore(s, k) \ (IF CountsError(s.steps[k]) THEN s.steps[k].items ELSE {})

\* The script counts an item in the try whose handler counts an error.
CountsInTry(s) == \E step \in Range(s.steps) : step.do = "count" /\ step.in = "row"

\* An item is counted once its row is final, on every way through its try, and
\* all are when the result is completed.
CountsOnce(s) ==
  LET L == s.steps
  IN  /\ \A k \in DOMAIN L :
           /\ Marks(L[k]) => L[k].items \cap Tallied(s, k) = {}
           /\ L[k].do = "count" => \E x \in s.items \ Tallied(s, k) : L[k].items = {x}
           /\ L[k].do = "tally" => Tallied(s, k) \subseteq L[k].items
           /\ CountsError(L[k]) => \E x \in CountedBefore(s, k) : L[k].items = {x}
           /\ Completes(L[k]) => Tallied(s, k) = s.counted
      /\ \A i, h \in DOMAIN L :
           Jumps(s, i, h) /\ ~Counts(L[i]) /\ (CountsInTry(s) => ~Writes(L[i])) =>
             Tallied(s, h) = Tallied(s, i)

Careful(s) == FailsSafely(s) /\ RestsOnChecks(s) /\ CountsOnce(s)

-----------------------------------------------------------------------------
(* What must hold of the results.                                          *)

\* A run has made the lock file of its script.
Past(r) ==
  \E k \in DOMAIN Line : Line[k].do = "claim" /\ k < run[r].at

TypeOK ==
  /\ wrong \subseteq Things /\ made \subseteq Outs
  /\ \A k \in Outs \cup {"shared"} : lock[k] \in Runs \cup {Free}
  /\ \A o \in Outs : result[o].by \in Runs \cup {Free}
  /\ \A r \in Runs :
       /\ run[r].phase \in {"idle", "running", "ended", "killed"}
       /\ run[r].at \in DOMAIN Line
       /\ run[r].outset \subseteq wrong /\ run[r].tainted \subseteq Things

\* No two runs get past the same lock file, whatever becomes of the first.
OneRunPerLock ==
  \A r, q \in Runs : Past(r) /\ Past(q) /\ Key(r) = Key(q) => r = q

\* A run that wrote a result and stopped, other than by being killed, left a
\* final status there, unless a write of it failed. P2-17C and P2-21 import the
\* product outside of any try: there "started" stays.
FailureIsRecorded ==
  \A r \in Runs :
    run[r].phase = "ended" /\ ~run[r].muted /\ result[run[r].out].by = r =>
      \/ result[run[r].out].status \in Final
      \/ Step(r).do = "take" /\ Step(r).in = "none"

\* Whoever is past the lock file of its script made it, and a result was written
\* by a run that is past its lock file.
LockIsOwned ==
  /\ \A r \in Runs : IF run[r].phase = "idle" THEN run[r].at = 1 ELSE run[r].out \in Outs
  /\ \A r \in Runs : Past(r) => lock[Key(r)] = r
  /\ script.lock # "none" =>
       \A o \in Outs : result[o].by # Free =>
                         Past(result[o].by) /\ run[result[o].by].out = o

\* The text of the script is as careful as the results need it to be.
TextIsCareful == (\A r \in Runs : run[r].phase = "idle") => Careful(script)

\* The invariants of the lock and of the runs.
OnePassInv ==
  TypeOK /\ LockIsOwned /\ OneRunPerLock /\ FailureIsRecorded /\ TextIsCareful

\* A completed result rests on nothing that differed from the contract all
\* along, and on nothing at all that differed when it was taken if the script
\* compares what it took; its workers agreed and some source was not empty.
CompletedIsSound ==
  \A o \in Outs : result[o].status = "completed" =>
    LET me == run[result[o].by] IN
    /\ me.tainted \cap (me.outset \cup script.checked) = {}
    /\ \A step \in Range(Line) :
         /\ step.do = "agree" =>
              \A i, j \in step.items : result[o].rows[i] = result[o].rows[j]
         /\ step.do = "some" => \E i \in step.items : result[o].rows[i] # "empty"

\* The summary of a completed result counts the rows it is written with.
\* P2-35J and P2-35K count a row twice if the write of it failed.
SummaryAddsUp ==
  \A o \in Outs : result[o].status = "completed" =>
    \/ CountsInTry(script) /\ run[result[o].by].muted
    \/ \A s \in Outcomes :
         result[o].tally[s] = Cardinality({i \in script.counted : result[o].rows[i] = s})

\* A result that one run has written is never written by another, if the script
\* claims a lock. Some scripts are given the lock and the result by independent
\* arguments and do not compare the lock with the contract's (for instance
\* p2_17c, lines 103-105, and p2_24b, lines 135-139): here runs that may write the
\* same result are given the same lock.
ResultsAreKept ==
  [][script.lock # "none" =>
       \A o \in Outs : result[o].by # Free /\ result'[o] # result[o] =>
                         result'[o].by = result[o].by]_vars
=============================================================================
