-------------------------- MODULE RemoteExecution --------------------------
(***************************************************************************)
(* Commands that one host gives another, with what the other host shows of *)
(* them (breachscope/remote_execution.py): PowerShell remoting, PsExec and *)
(* the service control manager. A command names its target in short or in  *)
(* full. The user of a network logon is the account that logs on.          *)
(***************************************************************************)
EXTENDS Detection

CONSTANTS
  ShortName,     \* the first label of each host name
  RemoteWindow,  \* how long after the command its effect may show
  RemoteSkew,    \* by how much the clocks of two hosts may differ
  Lookback       \* how long before its start a service may be defined

ASSUME RemoteAssumption == {RemoteWindow, RemoteSkew, Lookback} \subseteq Nat

\* A name that two hosts answer to is nobody's.
Resolves(line, name) ==
  {h \in {line[p].host : p \in DOMAIN line} : name \in {h, ShortName[h]}}

Calls(line) ==
  UNION {{<<p, k>> : k \in DOMAIN line[p].calls} :
           p \in {q \in DOMAIN line : line[q].id \in {"1", "4104", "4688"}}}

Call(line, x) == line[x[1]].calls[x[2]]
Kind(call) == <<call.method, call.operation, call.service>>

\* Events of a host between two times, by bisection of its sorted timeline.
Within(line, host, from, to) ==
  {q \in DOMAIN line : line[q].host = host /\ line[q].t \in from..to}

\* The first and the last of them, as sets of at most one.
Earliest(Q) == IF Q = {} THEN {} ELSE {Min(Q)}
Latest(Q) == IF Q = {} THEN {} ELSE {Max(Q)}

IsNetworkLogon(e, source) ==
  /\ e.id = "4624" /\ "network logon" \in e.marks
  /\ source.user = "" \/ e.user = "" \/ source.user = e.user

IsService(e) == e.id \in {"7045", "4697"}
RunsProcess(e) == e.id \in {"1", "4688"}

\* What the target shows of call x, {} when it shows too little.
Evidence(line, x, target) ==
  LET source == line[x[1]]
      call == Call(line, x)
      window == Within(line, target, source.t - RemoteSkew, source.t + RemoteWindow)
      logon == Earliest({q \in window : IsNetworkLogon(line[q], source)})
      marked(q) == "psexesvc" \in line[q].marks
      shells == Earliest({q \in window : RunsProcess(line[q]) /\ "wsmprovhost" \in line[q].marks})
      installed == Earliest({q \in window : IsService(line[q]) /\ marked(q)})
      running == Earliest({q \in window : RunsProcess(line[q]) /\ marked(q)})
      defines(q) == IsService(line[q]) /\ call.service # "" /\ line[q].service = call.service
      definition ==
        Latest({q \in Within(line, target, source.t - Lookback, source.t + RemoteSkew) :
                defines(q) /\ line[q].file # ""})
      started == Earliest({q \in window : /\ RunsProcess(line[q])
                                       /\ \E d \in definition : line[q].command = line[d].file})
  IN  CASE call.method = "powershell" ->
             IF logon # {} /\ shells # {} THEN logon \union shells ELSE {}
        [] call.method = "psexec" ->
             IF logon # {} /\ installed \union running # {}
             THEN logon \union installed \union running ELSE {}
        [] call.method = "scm" /\ call.operation = "create" -> Earliest({q \in window : defines(q)})
        [] call.method = "scm" /\ call.operation = "start" -> started
        [] OTHER -> {}

Earlier(x, y) == x[1] < y[1] \/ (x[1] = y[1] /\ x[2] < y[2])

\* A call counts once per observation of it, and what several calls explain
\* belongs to the first of them.
RemoteMatches(line) ==
  LET target(x) == Resolves(line, Call(line, x).target)
      crossing == {x \in Calls(line) : /\ Cardinality(target(x)) = 1
                                       /\ line[x[1]].host \notin target(x)}
      marker(x) == <<Key(line[x[1]]), target(x), Kind(Call(line, x))>>
      calls == {x \in crossing : \A y \in crossing : marker(y) = marker(x) => ~Earlier(y, x)}
      evidence(x) == Evidence(line, x, CHOOSE h \in target(x) : TRUE)
      operation(x) == <<line[x[1]].host, target(x), Kind(Call(line, x)),
                        {Key(line[q]) : q \in evidence(x)}>>
      effective == {x \in calls : evidence(x) # {}}
      first == {x \in effective : \A y \in effective : operation(y) = operation(x) => ~Earlier(y, x)}
  IN  {[source |-> line[x[1]].host, target |-> CHOOSE h \in target(x) : TRUE,
        method |-> Call(line, x).method, of |-> x, events |-> {x[1]} \union evidence(x)] :
          x \in first}

=============================================================================
