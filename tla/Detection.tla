----------------------------- MODULE Detection -----------------------------
(***************************************************************************)
(* The events of one analysis and the rules that fire on them              *)
(* (breachscope/normalizer, analyzer and the filters of pipeline).         *)
(*                                                                         *)
(* An event is a record                                                    *)
(*   t        when it happened, NoTime when its timestamp is unreadable    *)
(*   host     the machine;  user the account, "" when the event has none   *)
(*   id       the Windows event identifier; it implies the source here     *)
(*   rec      channel and record number, "" when it is no Windows record   *)
(*   target   TargetLogonId: "" absent, "-" there but no valid session     *)
(*   alias    SessionId / session_id, with the same two special values     *)
(*   pid, ppid, image  of a process creation (4688), "" when missing       *)
(*   parent   the process name derived for it, "" when there is none       *)
(*   calls    the remote commands in its text, in order, each a record     *)
(*            [method, target, operation, service]                           *)
(*   service, file, command  service name and file of a service            *)
(*            installation, command line of a process, "" when missing       *)
(*   marks    the texts and source tokens that patterns can find in it     *)
(* Letter case, spellings of hexadecimal numbers and the nesting of the    *)
(* raw record are abstracted: equal values stand for texts the code        *)
(* considers equal.                                                        *)
(***************************************************************************)
EXTENDS Integers, Sequences, SequencesExt, FiniteSets, FiniteSetsExt

CONSTANTS
  Rules,          \* detection rules: [id, targets, parent, severity, technique]
  ParentWindow,   \* seconds a process counts as a possible parent
  ChunkSize,      \* events per unit of work of the parallel analysis
  ParallelAbove,  \* number of events above which the analysis is parallel
  MaxEvents       \* events read at most, 0 for no limit

ASSUME DetectionAssumption ==
  /\ IsFiniteSet(Rules) /\ {ParentWindow, ParallelAbove, MaxEvents} \subseteq Nat
  /\ ChunkSize \in Nat \ {0}
  /\ \A r, s \in Rules : r.id = s.id => r = s

NoTime == -1

Record ==
  [t : Nat \union {NoTime}, host : STRING, user : STRING, id : STRING, rec : STRING,
   target : STRING, alias : STRING, pid : STRING, ppid : STRING, image : STRING,
   parent : STRING, calls : Seq([method : STRING, target : STRING, operation : STRING,
   service : STRING]), service : STRING, file : STRING, command : STRING,
   marks : SUBSET STRING]
Timed(e) == e.t # NoTime

\* Two events with one key are the same observation to the correlation.
Key(e) == <<e.t, e.host, e.id, e.rec>>

-----------------------------------------------------------------------------
(* From the files to the events of the analysis.                           *)

\* The elements of a finite set, the earlier first: order holds the pairs of an
\* earlier and a later one.
InOrder(S, order) ==
  [n \in 1..Cardinality(S) |->
     CHOOSE x \in S : Cardinality({y \in S : <<y, x>> \in order}) = n - 1]

\* The events at the positions I.
Picked(events, I) ==
  LET order == InOrder(I, {p \in I \X I : p[1] < p[2]})
  IN  [n \in DOMAIN order |-> events[order[n]]]

\* A Windows record exported twice counts once; other events all stay.
Normalized(events) ==
  Picked(events, {i \in DOMAIN events :
                    events[i].rec # "" => \A j \in 1..(i - 1) : Key(events[j]) # Key(events[i])})

Collected(events) ==
  LET all == Normalized(events)
  IN  IF MaxEvents = 0 THEN all ELSE SubSeq(all, 1, Min({MaxEvents, Len(all)}))

IsProcess(e) == e.id = "4688"

\* The creations that may have started process i: the code remembers, in the
\* order of the file, the last creation of each process number of a host.
Creations(events, i) ==
  {j \in 1..(i - 1) : /\ IsProcess(events[j]) /\ Timed(events[j])
                      /\ events[j].image # ""
                      /\ events[j].host = events[i].host
                      /\ events[j].pid # "" /\ events[j].pid = events[i].ppid}

ParentOf(events, i) ==
  LET J == Creations(events, i)
      age == events[i].t - events[Max(J)].t
  IN  IF /\ IsProcess(events[i]) /\ Timed(events[i]) /\ J # {}
         /\ age \in 0..ParentWindow
      THEN events[Max(J)].image
      ELSE ""

WithParents(events) ==
  [i \in DOMAIN events |-> [events[i] EXCEPT !.parent = ParentOf(events, i)]]

-----------------------------------------------------------------------------
(* Rules.                                                                  *)

\* A rule looks for the first of its targets the event contains, and may ask
\* in addition for a parent process.
Fires(r, e) ==
  /\ \E k \in DOMAIN r.targets : r.targets[k] \in e.marks
  /\ r.parent = "" \/ r.parent = e.parent

Matched(r, e) ==
  r.targets[Min({k \in DOMAIN r.targets : r.targets[k] \in e.marks})]

Finding(r, e) ==
  [rule |-> r.id, severity |-> r.severity, technique |-> r.technique,
   event |-> e, match |-> Matched(r, e)]

FindingKey(f) == <<f.rule, Key(f.event), f.match>>

\* The findings of the events with the indices I, read in order: the first of
\* those with one key is reported, the others are repetitions.
FindingsOf(events, I) ==
  LET found(i) == {Finding(r, events[i]) : r \in {s \in Rules : Fires(s, events[i])}}
      before(i) == UNION {found(j) : j \in {k \in I : k < i}}
  IN  UNION {{f \in found(i) : \A g \in before(i) : FindingKey(g) # FindingKey(f)} :
               i \in I}

\* The analysis in one pass.
Sequential(events) == FindingsOf(WithParents(events), DOMAIN events)

\* The analysis in chunks: the parents are found first, for all the events.
Chunks(events) == 1..((Len(events) + ChunkSize - 1) \div ChunkSize)

ChunkOf(events, k) ==
  ((k - 1) * ChunkSize + 1)..Min({k * ChunkSize, Len(events)})

\* Mutant of ChunkFindings: each chunk looks for parents in itself.
ChunkFindingsAlone(events, k) ==
  LET I == ChunkOf(events, k)
      part == WithParents(SubSeq(events, Min(I), Max(I)))
  IN  FindingsOf(part, DOMAIN part)

ChunkFindings(events, k) == FindingsOf(WithParents(events), ChunkOf(events, k))

\* A chunk that is ready adds what no chunk before it has found.
Merged(found, more) ==
  found \union {f \in more : \A g \in found : FindingKey(g) # FindingKey(f)}

Rank(severity) ==
  CASE severity = "low" -> 1 [] severity = "medium" -> 2
    [] severity = "high" -> 3 [] severity = "critical" -> 4 [] OTHER -> 0

\* What the request asked to see: the least severity, "" for all, and the
\* techniques to keep and to leave out, {} for no restriction.
Filtered(findings, wanted) ==
  {f \in findings : /\ Rank(f.severity) >= Rank(wanted.severity)
                    /\ wanted.include = {} \/ f.technique \in wanted.include
                    /\ f.technique \notin wanted.exclude}

-----------------------------------------------------------------------------
\* The timeline: the events that have a time, in the order of their times and,
\* for equal times, of the files.
Timeline(events) ==
  LET timed == {i \in DOMAIN events : Timed(events[i])}
      order == InOrder(timed, {p \in timed \X timed :
                 \/ events[p[1]].t < events[p[2]].t
                 \/ events[p[1]].t = events[p[2]].t /\ p[1] < p[2]})
  IN  [p \in DOMAIN order |-> events[order[p]]]

=============================================================================
