-------------------------- MODULE AnalysisServiceMC --------------------------
(* Instances of AnalysisService for TLC. In one a request analyses every    *)
(* order of five events out of four small families: processes and their     *)
(* parents, logon sessions, downloads by two accounts, and sessions with    *)
(* downloads; or six events out of two families of remote commands and      *)
(* their effects. In the other, two requests with little to analyse share   *)
(* the server in every combination of what they may share.                  *)
EXTENDS AnalysisService, TLC

CONSTANTS r1, r2

TheRules ==
  {[id |-> "fetch", targets |-> <<"download", "encoded">>, parent |-> "",
    severity |-> "medium", technique |-> "T1105"],
   [id |-> "office", targets |-> <<"process">>, parent |-> "word",
    severity |-> "high", technique |-> "T1059.001"],
   [id |-> "noise", targets |-> <<"encoded", "process">>, parent |-> "",
    severity |-> "low", technique |-> "T1059"],
   [id |-> "remoting", targets |-> <<"remoting", "wsmprovhost">>, parent |-> "",
    severity |-> "high", technique |-> "T1021.006"],
   [id |-> "logon", targets |-> <<"network logon">>, parent |-> "",
    severity |-> "medium", technique |-> "T1021.006"],
   [id |-> "psexec", targets |-> <<"psexec", "psexesvc">>, parent |-> "",
    severity |-> "critical", technique |-> "T1569.002"]}

TheCorrelations ==
  {[type |-> "download_exec", a |-> {"download"}, b |-> {"process"}, window |-> 2,
    fields |-> {"host"}],
   [type |-> "encoded_exec", a |-> {"encoded"}, b |-> {"process"}, window |-> 1,
    fields |-> {"host", "user"}]}

TheTemplates ==
  {[id |-> "intrusion", required |-> {"T1059.001"}, optional |-> {"T1105", "T1059"},
    patterns |-> {}],
   [id |-> "execution", required |-> {"T1059", "T1105"}, optional |-> {"T1059.001"},
    patterns |-> {}],
   [id |-> "misuse", required |-> {"T1105"}, optional |-> {}, patterns |-> {"session"}]}

SubsOf == {<<"T1059", "T1059.001">>}

Methods == [powershell |-> {"T1021.006"}, psexec |-> {"T1569.002"}, scm |-> {}]

\* Two hosts have the same short name.
Short == [h |-> "h", g |-> "g", b1 |-> "b", b2 |-> "b"]

Event(t, user, id) ==
  [t |-> t, host |-> "h", user |-> user, id |-> id, rec |-> "", target |-> "",
   alias |-> "", pid |-> "", ppid |-> "", image |-> "", parent |-> "", calls |-> <<>>,
   service |-> "", file |-> "", command |-> "", marks |-> {}]

Process(t, user, pid, ppid, image) ==
  [Event(t, user, "4688") EXCEPT !.pid = pid, !.ppid = ppid, !.image = image,
                                 !.marks = {"process"}]
Logon(t, user, id, session) == [Event(t, user, id) EXCEPT !.target = session]
Mark(t, user, mark) == [Event(t, user, "1") EXCEPT !.marks = {mark}]

Processes ==
  {Process(0, "u", "1", "", "word"), Process(1, "u", "2", "1", "cmd"),
   Process(2, "u", "3", "1", "cmd"), Process(1, "v", "1", "2", "shell"),
   [Process(2, "u", "3", "1", "cmd") EXCEPT !.host = "g"],
   [Process(0, "u", "1", "", "word") EXCEPT !.rec = "7"],
   [Process(0, "w", "1", "", "word") EXCEPT !.rec = "7"]}

Logons ==
  {Logon(0, "u", "4624", "s"), Logon(1, "u", "4634", "s"), Logon(1, "u", "4647", "s"),
   Logon(2, "v", "4624", "s"), Logon(3, "v", "4634", "s"),
   [Logon(1, "u", "4634", "-") EXCEPT !.alias = "s"],
   [Mark(1, "u", "download") EXCEPT !.alias = "s"]}

Downloads ==
  {Mark(0, "u", "download"), Mark(2, "v", "download"), Mark(1, "u", "encoded"),
   Mark(NoTime, "u", "download"), [Process(2, "u", "9", "", "cmd") EXCEPT !.rec = "8"],
   [Process(3, "v", "9", "", "cmd") EXCEPT !.rec = "9"], Mark(3, "", "download")}

Mixed ==
  {Logon(0, "u", "4624", "s"), Logon(1, "u", "4634", "s"), Logon(1, "v", "4624", "s"),
   Logon(3, "v", "4634", "s"), [Mark(1, "u", "download") EXCEPT !.alias = "s"],
   Mark(2, "v", "download"), [Process(3, "v", "9", "", "cmd") EXCEPT !.target = "s"]}

Command(method, target, operation, service) ==
  [method |-> method, target |-> target, operation |-> operation, service |-> service]

Calling(t, rec, mark, calls) ==
  [Mark(t, "u", mark) EXCEPT !.rec = rec, !.id = "4104", !.calls = calls]
On(host, e) == [e EXCEPT !.host = host]
NetworkLogon(t, user) == On("b1", [Event(t, user, "4624") EXCEPT !.marks = {"network logon"}])
Running(t, mark, command) ==
  On("b1", [Event(t, "u", "4688") EXCEPT !.marks = {mark}, !.command = command])
Service(t, mark, service, file) ==
  On("b1", [Event(t, "", "7045") EXCEPT !.marks = {mark}, !.service = service, !.file = file])

Remoting ==
  {Calling(1, "1", "remoting", <<Command("powershell", "b", "", "")>>),
   Calling(4, "2", "remoting", <<Command("powershell", "b1", "", "")>>),
   Calling(4, "3", "", <<Command("powershell", "b1", "", ""), Command("powershell", "b", "", "")>>),
   NetworkLogon(0, "u"), NetworkLogon(2, "v"), NetworkLogon(3, "u"), NetworkLogon(4, ""),
   Running(2, "wsmprovhost", ""), Running(5, "wsmprovhost", ""), On("b2", NetworkLogon(1, "u"))}

Services ==
  {Calling(1, "1", "psexec", <<Command("psexec", "b1", "", "")>>),
   Calling(1, "2", "", <<Command("scm", "b", "create", "s"), Command("scm", "b", "start", "s")>>),
   Calling(3, "3", "", <<Command("scm", "b1", "start", "s"), Command("psexec", "b1", "", "")>>),
   NetworkLogon(0, "u"), NetworkLogon(2, "v"), Service(3, "psexesvc", "p", "p.exe"),
   Running(3, "psexesvc", ""), Running(4, "psexesvc", ""),
   Service(0, "", "s", "old"), Service(1, "", "s", "new"),
   Running(2, "", "new"), Running(4, "", "old")}

\* The elements of a set in some order: remote commands are sorted by their
\* times anyway.
Listed(E) == FoldSet(LAMBDA e, s : Append(s, e), <<>>, E)
Orders(E) == {s \in [1..5 -> E] : IsInjective(s)}

Everything == [severity |-> "", include |-> {}, exclude |-> {}]
Medium == [severity |-> "medium", include |-> {}, exclude |-> {"T1059"}]

One(events, wanted) ==
  [encrypt |-> FALSE, cleanup |-> FALSE, convert |-> FALSE, dir |-> r1 :> "own",
   again |-> r1 :> FALSE,
   uploads |-> r1 :> <<[name |-> 1, evtx |-> FALSE, events |-> events]>>, wanted |-> r1 :> wanted]

File == [name |-> 1, evtx |-> FALSE, events |-> <<Mark(0, "u", "download")>>]
Other == [name |-> 2, evtx |-> FALSE, events |-> <<Mark(1, "u", "encoded"), Mark(2, "u", "encoded")>>]
Log == [File EXCEPT !.name = 3, !.evtx = TRUE]

Two(encrypt, cleanup, where, again, first) ==
  [encrypt |-> encrypt, cleanup |-> cleanup, convert |-> Len(first) > 2, dir |-> where,
   again |-> r1 :> again @@ r2 :> FALSE,
   uploads |-> r1 :> first @@ r2 :> <<[File EXCEPT !.events = <<Mark(0, "v", "download")>>]>>,
   wanted |-> r1 :> Everything @@ r2 :> Medium]

\* One request with much to analyse.
TheAnalyses ==
  {One(s, Everything) : s \in UNION {Orders(E) : E \in {Processes, Logons, Downloads, Mixed}}}
  \union {One(s, Medium) : s \in Orders(Processes)}
  \union {One(Listed(E), Everything) : E \in kSubset(6, Remoting) \union kSubset(6, Services)}

\* Two requests with little to analyse.
ThePairs ==
  {Two(e, c, r1 :> "own" @@ r2 :> d, a, <<File, File>>) :
     e \in BOOLEAN, c \in BOOLEAN, a \in BOOLEAN, d \in {"own", "shared"}}
  \union {Two(e, FALSE, r1 :> "shared" @@ r2 :> "shared", FALSE, u) :
            e \in BOOLEAN, u \in {<<File, File>>, <<File, Other>>, <<File, Log, Log>>}}

TheWorkloads == TheAnalyses \union ThePairs
==============================================================================
