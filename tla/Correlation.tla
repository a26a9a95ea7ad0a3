---------------------------- MODULE Correlation ----------------------------
(***************************************************************************)
(* Chains of events that belong together (breachscope/correlator.py). They *)
(* are built on the timeline; a chain holds the positions of its events    *)
(* there, the findings about them, the lifetime of a session it stands for *)
(* and the remote command it follows, if any.                              *)
(***************************************************************************)
EXTENDS RemoteExecution

CONSTANTS
  CorrelationRules,  \* [type, a, b, window, fields], one per chain type
  ActivityWindow     \* length of an activity

\* Every correlation asks for the same host (_get_default_correlation_rules).
ASSUME CorrelationAssumption ==
  /\ ActivityWindow \in Nat /\ IsFiniteSet(CorrelationRules)
  /\ \A c \in CorrelationRules :
       /\ c.window \in Nat /\ "host" \in c.fields
       /\ c.type \notin {"session", "activity", "remote"}
  /\ \A c, d \in CorrelationRules : c.type = d.type => c = d

Answers(e, patterns) == e.marks \intersect patterns # {}

\* All the fields a correlation asks for are there and equal.
InCommon(e, f, fields) ==
  /\ "host" \in fields => e.host # "" /\ e.host = f.host
  /\ "user" \in fields => e.user # "" /\ e.user = f.user

\* The numbers of a set, the smaller first.
Ascending(S) == InOrder(S, {x \in S \X S : x[1] < x[2]})

\* Mutant of BisectRight: the elements less than x.
BisectLeft(s, x) == Cardinality({k \in DOMAIN s : s[k] < x})

\* How many elements of an ascending sequence are at most x.
BisectRight(s, x) == Cardinality({k \in DOMAIN s : s[k] <= x})

\* Findings are attached to the last event with their key ...
Attached(line, findings, p) ==
  {f \in findings : /\ Key(f.event) = Key(line[p])
                    /\ \A q \in DOMAIN line : Key(line[q]) = Key(line[p]) => q <= p}

\* ... or, in sessions and activities, to all of them.
About(line, findings, P) ==
  {f \in findings : \E p \in P : Key(f.event) = Key(line[p])}

Chain(type, P, findings, instance) ==
  [type |-> type, events |-> P, findings |-> findings, instance |-> instance,
   remote |-> <<>>]

\* The chain that rule c builds on position p: the candidates lie in a sorted
\* list, two searches cut out those after p and within the window.
RuleChain(line, findings, c, p) ==
  LET b == Ascending({q \in DOMAIN line : Answers(line[q], c.b)})
      times == [k \in DOMAIN b |-> line[b[k]].t]
      start == BisectRight(b, p)
      end == BisectRight(times, line[p].t + c.window)
      hits == {b[k] : k \in {n \in (start + 1)..end : InCommon(line[p], line[b[n]], c.fields)}}
  IN  Chain(c.type, {p} \union hits,
            UNION {Attached(line, findings, q) : q \in {p} \union hits}, <<>>)

RuleChains(line, findings) ==
  {ch \in {RuleChain(line, findings, pair[1], pair[2]) :
             pair \in {x \in CorrelationRules \X DOMAIN line : Answers(line[x[2]], x[1].a)}} :
     Cardinality(ch.events) >= 2}

\* A logon session is named by the native identifier of its events when they
\* have one, valid or not, and by the alias otherwise.
ValidId(id) == IF id = "-" THEN "" ELSE id

Session(e) ==
  IF e.id \in {"4624", "4634", "4647"} /\ e.target # "" THEN ValidId(e.target)
  ELSE IF e.id \in {"4624", "4634"} THEN ValidId(e.alias)
  ELSE ""

\* The events of one session of one host, each observation once, in the order
\* of their times; at equal times logon, user logoff, logoff.
Lifeline(line, host, session) ==
  LET P == {p \in DOMAIN line : line[p].host = host /\ Session(line[p]) = session}
      once == {p \in P : \A q \in P : Key(line[q]) = Key(line[p]) => p <= q}
      rank(e) == CASE e.id = "4624" -> 0 [] e.id = "4647" -> 1 [] OTHER -> 2
      earlier(p, q) ==
        \/ line[p].t < line[q].t
        \/ line[p].t = line[q].t /\ rank(line[p]) < rank(line[q])
        \/ line[p].t = line[q].t /\ rank(line[p]) = rank(line[q]) /\ p < q
  IN  InOrder(once, {x \in once \X once : earlier(x[1], x[2])})

\* One pass over them: a logon opens a segment, a logoff closes it; segments
\* of a single event are dropped, and so is what comes before a logon.
Closing(acc) ==
  IF Cardinality(acc.open) >= 2 THEN acc.done \union {acc.open} ELSE acc.done

Living(line, acc, p) ==
  CASE line[p].id = "4624" -> [open |-> {p}, done |-> Closing(acc)]
    [] line[p].id = "4647" /\ acc.open # {} -> [acc EXCEPT !.open = @ \union {p}]
    [] line[p].id = "4634" /\ acc.open # {} ->
         [open |-> {}, done |-> acc.done \union {acc.open \union {p}}]
    [] OTHER -> acc

Segments(line, host, session) ==
  LET life == Lifeline(line, host, session)
      after[n \in 0..Len(life)] ==
        IF n = 0 THEN [open |-> {}, done |-> {}] ELSE Living(line, after[n - 1], life[n])
  IN  Closing(after[Len(life)])

\* An identifier used again names several lifetimes: each then carries a name
\* of its own.
Reused(line, host, session) ==
  \/ Cardinality(Segments(line, host, session)) > 1
  \/ Cardinality({Key(line[p]) : p \in {q \in DOMAIN line :
       line[q].id = "4624" /\ line[q].host = host /\ Session(line[q]) = session}}) > 1

SessionChains(line, findings) ==
  LET names == {<<line[p].host, Session(line[p])>> : p \in {q \in DOMAIN line : Session(line[q]) # ""}}
      chain(n, P) ==
        Chain("session", P, About(line, findings, P),
              IF Reused(line, n[1], n[2])
              THEN <<n[1], n[2], Key(line[CHOOSE p \in P : line[p].id = "4624"])>> ELSE <<>>)
  IN  UNION {{chain(n, P) : P \in Segments(line, n[1], n[2])} : n \in names}

\* What an account did on a host outside of sessions, as far as a rule fired,
\* cut into stretches measured from their first event.
Activity(line, findings, host, user) ==
  {p \in DOMAIN line :
     /\ Session(line[p]) = ""
     /\ line[p].id \notin {"4624", "4634", "4625", "4647"}
     /\ line[p].host = host /\ line[p].user = user
     /\ \E f \in findings : Key(f.event) = Key(line[p])}

Stretching(line, acc, p) ==
  IF acc.open = {} \/ line[p].t - line[Min(acc.open)].t <= ActivityWindow
  THEN [acc EXCEPT !.open = @ \union {p}]
  ELSE [open |-> {p}, done |-> acc.done \union {acc.open}]

Stretches(line, findings, host, user) ==
  LET activity == Ascending(Activity(line, findings, host, user))
      after[n \in 0..Len(activity)] ==
        IF n = 0 THEN [open |-> {}, done |-> {}] ELSE Stretching(line, after[n - 1], activity[n])
      end == after[Len(activity)]
  IN  {S \in end.done \union {end.open} : Cardinality(S) >= 2}

ActivityChains(line, findings) ==
  LET accounts == {<<line[p].host, line[p].user>> : p \in {q \in DOMAIN line : line[q].user # ""}}
  IN  UNION {{Chain("activity", P, About(line, findings, P), <<>>) :
                P \in Stretches(line, findings, a[1], a[2])} : a \in accounts}

\* One chain for each remote command of which the other host shows the effect.
RemoteChains(line, findings) ==
  {[Chain("remote", m.events, About(line, findings, m.events), <<>>)
      EXCEPT !.remote = [source |-> m.source, target |-> m.target,
                         method |-> m.method, of |-> m.of]] :
     m \in RemoteMatches(line)}

\* How sure a chain is, in hundredths. The share of the number of events is
\* left out: only chains over the same observations are compared.
Confidence(line, ch) ==
  LET span == line[Max(ch.events)].t - line[Min(ch.events)].t
      close == CASE span = 0 -> 0 [] span < 60 -> 20 [] span < 300 -> 10
                 [] span < 600 -> 5 [] OTHER -> 0
      n == Cardinality(ch.findings)
      severe == Cardinality({f \in ch.findings : Rank(f.severity) >= 3})
      medium == Cardinality({f \in ch.findings : f.severity = "medium"})
      weight == 20 * severe + 10 * medium + 5 * (n - severe - medium)
  IN  IF ch.type = "session" THEN 70
      ELSE Min({100, 30 + close + weight + Min({10, 2 * n})})

\* Chains of one type over the same observations are one chain: the surest,
\* and among equals the first.
SameChain(line, a, b) ==
  LET count(ch, k) == Cardinality({p \in ch.events : Key(line[p]) = k})
  IN  /\ a.type = b.type
      /\ \A p \in a.events \union b.events :
           count(a, Key(line[p])) = count(b, Key(line[p]))

Before(a, b) ==
  IF a.type = "remote" THEN Earlier(a.remote.of, b.remote.of)
  ELSE Min(a.events) < Min(b.events)

Deduplicated(line, chains) ==
  {a \in chains : \A b \in chains \ {a} : SameChain(line, a, b) =>
     \/ Confidence(line, a) > Confidence(line, b)
     \/ Confidence(line, a) = Confidence(line, b) /\ Before(a, b)}

Chains(events, findings) ==
  LET line == Timeline(events)
  IN  Deduplicated(line, RuleChains(line, findings) \union SessionChains(line, findings)
                           \union ActivityChains(line, findings)
                           \union RemoteChains(line, findings))

=============================================================================
