----------------------------- MODULE Scenarios -----------------------------
(***************************************************************************)
(* Which chains and findings may support one attack scenario               *)
(* (breachscope/scenario_user_scope.py), and the scenarios inferred from   *)
(* them (breachscope/scenario.py). Remote execution makes scenarios of its *)
(* own, across two hosts.                                                  *)
(***************************************************************************)
EXTENDS Correlation

CONSTANTS
  Templates,         \* [id, required, optional, patterns]
  SubTechniques,     \* pairs <<technique, one of its sub-techniques>>
  MethodTechniques,  \* the techniques that show each remote method
  EpisodeGap         \* pause that separates two remote scenarios

\* The identifiers of scenarios say which template they come from, by its id and a
\* number, or that they need none: here by names that no two templates share.
ASSUME ScenarioAssumption ==
  /\ EpisodeGap \in Nat
  /\ \A tm \in Templates : tm.id \notin {"remote", "download_exec", "encoded_exec"}
  /\ \A a, b \in Templates : a.id = b.id => a = b

\* The session identifiers of an event: the native one alone when the event
\* has the field, the alias otherwise.
Sessions(e) ==
  {ValidId(IF e.target # "" THEN e.target ELSE e.alias)} \ {""}

\* Hosts, accounts and sessions that a set of events speaks of.
ScopeOf(E) ==
  [hosts |-> {e.host : e \in E},
   users |-> {e.user : e \in E} \ {""},
   sessions |-> UNION {Sessions(e) : e \in E}]

ChainEvents(line, ch) == {line[p] : p \in ch.events}

Scope(line, ch) == ScopeOf(ChainEvents(line, ch) \union {f.event : f \in ch.findings})

Share(a, b) == a \intersect b # {}

\* Two pieces of evidence that may belong together: by a session of the same
\* host, else by account and host, else, without accounts, by host.
Related(a, b) ==
  IF a.sessions # {} /\ b.sessions # {}
  THEN Share(a.sessions, b.sessions) /\ Share(a.hosts, b.hosts)
  ELSE IF a.users # {} \/ b.users # {}
  THEN Share(a.users, b.users) /\ Share(a.hosts, b.hosts)
  ELSE Share(a.hosts, b.hosts)

\* Union-find over the related pairs: one union, and all of them.
Joined(P, a, b) ==
  {G \in P : a \notin G /\ b \notin G} \union {UNION {G \in P : a \in G \/ b \in G}}

Groups(line, chains) ==
  LET pairs == {x \in chains \X chains : Related(Scope(line, x[1]), Scope(line, x[2]))}
  IN  FoldSet(LAMBDA x, P : Joined(P, x[1], x[2]), {{ch} : ch \in chains}, pairs)

Overlap(line, a, b) ==
  LET times(ch) == {line[p].t : p \in ch.events}
  IN  Min(times(a)) <= Max(times(b)) /\ Min(times(b)) <= Max(times(a))

\* When a session identifier was used again, its lifetimes stay apart. Another
\* chain joins a lifetime when it is related to that one only and overlaps it.
Lifetimes(chains) == {ch.instance : ch \in chains} \ {<<>>}

\* Mutant of Claims: the times of the lifetimes are not compared.
ClaimsAnyTime(line, chains, ch) ==
  {life.instance : life \in {x \in chains : /\ x.instance # <<>>
                                            /\ Related(Scope(line, ch), Scope(line, x))}}

Claims(line, chains, ch) ==
  {life.instance : life \in {x \in chains : /\ x.instance # <<>>
                                            /\ Related(Scope(line, ch), Scope(line, x))
                                            /\ Overlap(line, ch, x)}}

Components(line, chains) ==
  LET plain == {ch \in chains : ch.instance = <<>>}
      joined(i) == {ch \in plain : Claims(line, chains, ch) = {i}}
      lifetime(i) == {ch \in chains : ch.instance = i} \union joined(i)
      unresolved == plain \ UNION {joined(i) : i \in Lifetimes(chains)}
  IN  {lifetime(i) : i \in Lifetimes(chains)} \union Groups(line, unresolved)

\* The findings that may strengthen a component. In a lifetime only those of
\* its own events count.
Supporting(line, findings, K) ==
  LET scope == ScopeOf(UNION {ChainEvents(line, ch) \union {f.event : f \in ch.findings} : ch \in K})
      keys == {Key(e) : e \in UNION {ChainEvents(line, ch) : ch \in K}}
  IN  {f \in findings : IF Lifetimes(K) # {} THEN Key(f.event) \in keys
                        ELSE Related(ScopeOf({f.event}), scope)}

\* A technique is met by itself or, as the function that asks for a requirement
\* and an observation is given them the other way round, by the general technique
\* it belongs to.
Meets(observed, required) == observed = required \/ <<observed, required>> \in SubTechniques

FromTemplates(findings, K) ==
  LET matching(tm) == {ch \in K : tm.patterns = {} \/ ch.type \in tm.patterns}
      seen(tm) == {f.technique : f \in findings} \intersect (tm.required \union tm.optional)
      met(tm) == /\ tm.required # {} /\ matching(tm) # {}
                 /\ \A r \in tm.required : \E s \in seen(tm) : Meets(s, r)
  IN  {[name |-> tm.id, component |-> K, chains |-> matching(tm), techniques |-> seen(tm)] :
         tm \in {x \in Templates : met(x)}}

\* Two chain types are scenarios by themselves.
FromChains(findings, K) ==
  LET techniques == {f.technique : f \in findings} \ {""}
      scenario(type, T) ==
        [name |-> type, component |-> K, chains |-> {ch \in K : ch.type = type}, techniques |-> T]
      has(type) == \E ch \in K : ch.type = type
  IN  {s \in {scenario("download_exec", IF techniques = {} THEN {"T1105"} ELSE techniques)} :
         has("download_exec")}
      \union {s \in {scenario("encoded_exec", techniques \union {"T1059.001"})} :
                has("encoded_exec")}

\* A remote chain counts when each end shows, by a severe finding, a technique
\* of the method; it counts by the techniques that both show.
SharedTechniques(ch) ==
  LET shown(host) == {f.technique : f \in {g \in ch.findings : /\ Rank(g.severity) >= 3
                                                              /\ g.event.host = host}}
  IN  shown(ch.remote.source) \intersect shown(ch.remote.target)
        \intersect MethodTechniques[ch.remote.method]

\* Chains between the same ends with the same techniques are read in the order
\* of their starts. An episode begins with the first, and with each after a long
\* enough pause since the end of the one before.
EpisodesOf(line, chains) ==
  LET start(ch) == line[Min(ch.events)].t
      end(ch) == line[Max(ch.events)].t
      row == InOrder(chains, {x \in chains \X chains :
               \/ start(x[1]) < start(x[2])
               \/ start(x[1]) = start(x[2]) /\ Earlier(x[1].remote.of, x[2].remote.of)})
      begins == {n \in DOMAIN row : n > 1 => start(row[n]) - end(row[n - 1]) > EpisodeGap}
      episode(b) == {row[n] : n \in {m \in b..Len(row) : (b + 1)..m \intersect begins = {}}}
  IN  {episode(b) : b \in begins}

RemoteScenarios(line, chains) ==
  LET counted == {ch \in chains : ch.type = "remote" /\ SharedTechniques(ch) # {}}
      kind(ch) == <<ch.remote.source, ch.remote.target, SharedTechniques(ch)>>
      like(ch) == {x \in counted : kind(x) = kind(ch)}
  IN  UNION {{[name |-> "remote", component |-> E, chains |-> E,
               techniques |-> SharedTechniques(ch)] : E \in EpisodesOf(line, like(ch))} :
               ch \in counted}

InferScenarios(events, findings, chains) ==
  LET line == Timeline(events)
      local == {ch \in chains : ch.type # "remote"}
  IN  RemoteScenarios(line, chains) \union
      UNION {LET own == Supporting(line, findings, K)
             IN  FromTemplates(own, K) \union FromChains(own, K) :
               K \in Components(line, local)}

=============================================================================
