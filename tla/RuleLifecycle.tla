--------------------------- MODULE RuleLifecycle ---------------------------
(***************************************************************************)
(* Custom detection rules of one organization, from a draft to a run:      *)
(* api/services/rule_authoring.py keeps the drafts and the published rule  *)
(* files, api/services/rule_activation.py the manifest of the rules in     *)
(* force, api/routers/rules.py the endpoints of both, and                  *)
(* breachscope/pipeline.py puts the active rules beside the canonical ones.*)
(*                                                                         *)
(* Several servers may share the stores.  Each store has a lock of its own *)
(* (rule_tuning_concurrency.py) held over a whole read-change-write, so an *)
(* operation is one step, with two exceptions: publish writes the rule     *)
(* file and then the drafts, and a process may die in between; activate    *)
(* checks the publication before it takes the lock of the manifest.  A     *)
(* user works on what they last read, which may be stale.                  *)
(***************************************************************************)
EXTENDS Integers, FiniteSets

CONSTANTS
    Drafts,         \* identifiers of drafts
    Users,
    NoUser,
    RolesOf,        \* roles the identity provider may give a user over time
    RuleIds,
    Fold,           \* str.casefold on rule identifiers
    Rules,          \* rules _normalize_rule accepts
    Loadable,       \* those breachscope.rules loads
    RulepackIds,    \* identifiers in the rulepack of the release
    NewIds,         \* identifiers a later release may add to it
    NoFile,
    Tampered,       \* what an outsider may leave in place of a rule file
    None,
    HistoryLimit,   \* MAX_HISTORY
    MaxVersion,     \* bound on the versions of each draft
    MaxActivation,  \* bound on the versions of the manifest
    MaxDamage       \* bound on the files an outsider changes

Roles == {"admin", "author", "reviewer", "operator"}

ASSUME RuleAssumption ==
    /\ NoUser \notin Users
    /\ RolesOf \in [Users -> SUBSET Roles]
    /\ Fold \in [RuleIds -> RuleIds]
    /\ Rules \subseteq [id : RuleIds, body : STRING]
    /\ Loadable \subseteq Rules
    /\ RulepackIds \subseteq RuleIds
    /\ NewIds \subseteq RuleIds
    /\ NoFile \notin Rules
    /\ Tampered \subseteq Rules \cup {NoFile}
    /\ HistoryLimit \in Nat \ {0}
    /\ MaxVersion \in [Drafts -> Nat]
    /\ MaxActivation \in Nat
    /\ MaxDamage \in Nat

VARIABLES
    drafts,     \* drafts.json
    files,      \* published/<draft>/v<version>.yml
    manifest,   \* rule_activation.json
    canonical,  \* identifiers of the installed rulepack
    seen,       \* the version of a draft each user last read
    viewed,     \* the state of the manifest each user last read
    writer,     \* who is between the two writes of publish, with the lock
    pending,    \* the publication each user's activate has checked
    damaged,    \* publications whose file an outsider changed
    reviewed,   \* history: what each approval was given for
    late        \* history: identifiers published before they were canonical

draftVars == <<drafts, files, writer, reviewed>>
activeVars == <<manifest, pending>>
userVars == <<seen, viewed>>
worldVars == <<canonical, damaged, late>>
vars == <<draftVars, activeVars, userVars, worldVars>>

Versions    == UNION {1..MaxVersion[d] : d \in Drafts}
Activations == 0..MaxActivation
Statuses    == {"draft", "validated", "approved", "published"}

\* A publication, as drafts.json lists it under its draft; the SHA-256 is
\* that of the rule's bytes and stands for the rule.
Publication == [version : Versions, rule : Rules]
Entry       == [draft : Drafts, version : Versions, rule : Rules]
Approval    == [version : {0} \cup Versions, by : Users \cup {NoUser}]

Draft == [version : Versions, status : Statuses, by : Users, rule : Rules,
          validated : {0} \cup Versions, approval : Approval,
          publications : SUBSET Publication]
Seen  == [draft : Drafts, version : Versions, rule : Rules, by : Users]
View  == [version : Activations, active : SUBSET Entry]
ReviewRecord ==
    [draft : Drafts, rule : Rules, author : Users, by : Users,
     role : Roles]

ASSUME NoneAssumption == None \notin Draft \cup Seen \cup Entry

\* The versions of the manifest that its history keeps.
Kept(v) == {a \in 0..v : a > v - HistoryLimit}

TypeOK ==
    /\ drafts \in [Drafts -> Draft \cup {None}]
    /\ files \in [Drafts \X Versions -> Rules \cup {NoFile}]
    /\ manifest.version \in Activations
    /\ manifest.active \subseteq Entry
    /\ manifest.history \in [Kept(manifest.version) -> SUBSET Entry]
    /\ canonical \subseteq RuleIds
    /\ seen \in [Users -> Seen \cup {None}]
    /\ viewed \in [Users -> View]
    /\ writer \in Users \cup {NoUser}
    /\ pending \in [Users -> Entry \cup {None}]
    /\ damaged \subseteq Drafts \X Versions
    /\ reviewed \subseteq ReviewRecord
    /\ late \subseteq RuleIds

NoApproval == [version |-> 0, by |-> NoUser]
EmptyView  == [version |-> 0, active |-> {}]

Init ==
    /\ drafts = [d \in Drafts |-> None]
    /\ files = [f \in Drafts \X Versions |-> NoFile]
    /\ manifest = [version |-> 0, active |-> {}, history |-> [a \in {0} |-> {}]]
    /\ canonical = RulepackIds
    /\ seen = [u \in Users |-> None]
    /\ viewed = [u \in Users |-> EmptyView]
    /\ writer = NoUser
    /\ pending = [u \in Users |-> None]
    /\ damaged = {}
    /\ reviewed = {}
    /\ late = {}

-----------------------------------------------------------------------------
(* Authoring.                                                              *)

\* require_roles: the role the user's session has now.
Allowed(u, role) == RolesOf[u] \cap {role, "admin"}

Written(d, draft) ==
    /\ drafts' = [drafts EXCEPT ![d] = draft]
    /\ UNCHANGED <<activeVars, userVars, worldVars>>

ReadDraft(u, d) ==
    /\ writer = NoUser
    /\ drafts[d] # None
    /\ seen' = [seen EXCEPT ![u] = [draft |-> d, version |-> drafts[d].version,
                                    rule |-> drafts[d].rule,
                                    by |-> drafts[d].by]]
    /\ UNCHANGED <<draftVars, activeVars, viewed, worldVars>>

\* _find and _assert_version under the lock of the drafts: the user acts on
\* draft d in the version they read.
Current(u, d) ==
    /\ writer = NoUser
    /\ seen[u] # None /\ seen[u].draft = d
    /\ drafts[d] # None /\ drafts[d].version = seen[u].version

CreateDraft(u, d, rule) ==
    /\ Allowed(u, "author") # {}
    /\ writer = NoUser
    /\ drafts[d] = None
    /\ MaxVersion[d] > 0
    /\ Written(d, [version |-> 1, status |-> "draft", by |-> u, rule |-> rule,
                   validated |-> 0, approval |-> NoApproval,
                   publications |-> {}])
    /\ UNCHANGED <<files, writer, reviewed>>

\* Mutant of UpdateDraft: the version is left as it was.
UpdateInPlace(u, d, rule) ==
    /\ Allowed(u, "author") # {}
    /\ Current(u, d)
    /\ Written(d, [drafts[d] EXCEPT !.status = "draft", !.by = u,
                                    !.rule = rule, !.validated = 0,
                                    !.approval = NoApproval])
    /\ UNCHANGED <<files, writer, reviewed>>

UpdateDraft(u, d, rule) ==
    /\ Allowed(u, "author") # {}
    /\ Current(u, d)
    /\ drafts[d].version < MaxVersion[d]
    /\ Written(d, [drafts[d] EXCEPT !.version = @ + 1, !.status = "draft",
                                    !.by = u, !.rule = rule, !.validated = 0,
                                    !.approval = NoApproval])
    /\ UNCHANGED <<files, writer, reviewed>>

\* _runtime_validate
RuntimeValid(rule) ==
    /\ Fold[rule.id] \notin {Fold[i] : i \in canonical}
    /\ rule \in Loadable

ValidateDraft(u, d) ==
    /\ Allowed(u, "author") # {}
    /\ Current(u, d)
    /\ RuntimeValid(drafts[d].rule)
    /\ Written(d, [drafts[d] EXCEPT !.status = "validated",
                                    !.validated = drafts[d].version,
                                    !.approval = NoApproval])
    /\ UNCHANGED <<files, writer, reviewed>>

\* Mutant of MayApprove: authors may approve what they wrote.
MayApproveOwn(u, role, d) == role \in Roles

\* require_distinct_reviewer: whoever wrote the version may not approve it,
\* unless as an administrator.
MayApprove(u, role, d) == role = "admin" \/ drafts[d].by # u

ApproveDraft(u, d) ==
    \E role \in Allowed(u, "reviewer") :
        /\ Current(u, d)
        /\ MayApprove(u, role, d)
        /\ drafts[d].status = "validated"
        /\ drafts[d].validated = drafts[d].version
        /\ Written(d, [drafts[d] EXCEPT
                          !.status = "approved",
                          !.approval = [version |-> drafts[d].version, by |-> u]])
        /\ reviewed' = reviewed \cup
              {[draft |-> d, rule |-> seen[u].rule, author |-> seen[u].by,
                by |-> u, role |-> role]}
        /\ UNCHANGED <<files, writer>>

\* Mutant of Owners: identifiers are compared as they are spelled.
OwnersExact(i) == {d \in Drafts : /\ drafts[d] # None
                                  /\ \E p \in drafts[d].publications :
                                        p.rule.id = i}

\* _publication_owners: the drafts that have published an identifier.
Owners(i) == {d \in Drafts : /\ drafts[d] # None
                             /\ \E p \in drafts[d].publications :
                                   Fold[p.rule.id] = Fold[i]}

\* Mutant of MayPublish: the rulepack is not looked at again.
MayPublishStale(d) ==
    /\ drafts[d].status = "approved"
    /\ drafts[d].approval.version = drafts[d].version
    /\ Owners(drafts[d].rule.id) \subseteq {d}

MayPublish(d) ==
    /\ drafts[d].status = "approved"
    /\ drafts[d].approval.version = drafts[d].version
    /\ Owners(drafts[d].rule.id) \subseteq {d}
    /\ Fold[drafts[d].rule.id] \notin {Fold[i] : i \in canonical}

\* publish_draft up to the rule file: it is written unless one of this version
\* is there; a different one is refused.
PublishFile(u, d) ==
    /\ Allowed(u, "reviewer") # {}
    /\ Current(u, d)
    /\ MayPublish(d)
    /\ files[<<d, drafts[d].version>>] \in {NoFile, drafts[d].rule}
    /\ files' = [files EXCEPT ![<<d, drafts[d].version>>] = drafts[d].rule]
    /\ writer' = u
    /\ UNCHANGED <<drafts, reviewed, activeVars, userVars, worldVars>>

\* ... and the drafts: a version is listed once.
PublishIndex(u, d) ==
    /\ writer = u
    /\ seen[u].draft = d
    /\ LET listed == {p \in drafts[d].publications :
                         p.version = drafts[d].version}
           new    == [version |-> drafts[d].version, rule |-> drafts[d].rule]
       IN  Written(d, [drafts[d] EXCEPT
                          !.status = "published",
                          !.publications = IF listed = {} THEN @ \cup {new}
                                                          ELSE @])
    /\ writer' = NoUser
    /\ UNCHANGED <<files, reviewed>>

\* The process of a publish dies, or cannot write the drafts, after the rule
\* file: the lock is released.
PublishInterrupted(u) ==
    /\ writer = u
    /\ writer' = NoUser
    /\ UNCHANGED <<drafts, files, reviewed, activeVars, userVars, worldVars>>

-----------------------------------------------------------------------------
(* Activation.                                                             *)

\* _publication: the draft lists this version, with this rule.
Listed(e) ==
    /\ drafts[e.draft] # None
    /\ [version |-> e.version, rule |-> e.rule]
          \in drafts[e.draft].publications

\* Mutant of Verified: the SHA-256 is not compared.
VerifiedByName(e) == files[<<e.draft, e.version>>] \in Loadable

\* _verify_publication: the file is there, has the recorded SHA-256 and loads
\* as the one rule of the recorded identifier.
Verified(e) ==
    /\ files[<<e.draft, e.version>>] = e.rule
    /\ e.rule \in Loadable

\* Any user may read the manifest; only an operator's reading matters.
ReadManifest(u) ==
    /\ Allowed(u, "operator") # {}
    /\ viewed' = [viewed EXCEPT ![u] = [version |-> manifest.version,
                                        active |-> manifest.active]]
    /\ UNCHANGED <<draftVars, activeVars, seen, worldVars>>

\* Mutant of Commit: the history keeps one state too many.
CommitKeepingOld(active) ==
    LET v == manifest.version + 1
        old == {a \in DOMAIN manifest.history : a >= v - HistoryLimit}
    IN  manifest' = [version |-> v, active |-> active,
                     history |-> [a \in old \cup {v} |->
                                     IF a = v THEN active
                                              ELSE manifest.history[a]]]

\* _commit_state: the new state joins the history, which keeps the last
\* HistoryLimit states.
Commit(active) ==
    LET v == manifest.version + 1
        old == {a \in DOMAIN manifest.history : a > v - HistoryLimit}
    IN  manifest' = [version |-> v, active |-> active,
                     history |-> [a \in old \cup {v} |->
                                     IF a = v THEN active
                                              ELSE manifest.history[a]]]

\* Mutant of Expected: the expected version is not compared.
ExpectedAny(u) == viewed[u].version <= manifest.version
                  /\ manifest.version < MaxActivation

Expected(u) ==
    /\ manifest.version = viewed[u].version
    /\ manifest.version < MaxActivation

\* activate before its lock: find and verify the publication.
ActivateCheck(u, e) ==
    /\ Allowed(u, "operator") # {}
    /\ writer = NoUser
    /\ pending[u] = None
    /\ Listed(e) /\ Verified(e)
    /\ pending' = [pending EXCEPT ![u] = e]
    /\ UNCHANGED <<draftVars, manifest, userVars, worldVars>>

\* activate under its lock: the entry replaces those of its draft and of its
\* rule identifier.
ActivateCommit(u) ==
    /\ pending[u] # None
    /\ Expected(u)
    /\ Commit({e \in manifest.active :
                  /\ e.draft # pending[u].draft
                  /\ Fold[e.rule.id] # Fold[pending[u].rule.id]}
              \cup {pending[u]})
    /\ pending' = [pending EXCEPT ![u] = None]
    /\ UNCHANGED <<draftVars, userVars, worldVars>>

\* The version is not the expected one, or the process dies.
ActivateRefused(u) ==
    /\ pending[u] # None
    /\ pending' = [pending EXCEPT ![u] = None]
    /\ UNCHANGED <<draftVars, manifest, userVars, worldVars>>

Deactivate(u, d) ==
    /\ Allowed(u, "operator") # {}
    /\ Expected(u)
    /\ \E e \in manifest.active : e.draft = d
    /\ Commit({e \in manifest.active : e.draft # d})
    /\ UNCHANGED <<draftVars, pending, userVars, worldVars>>

Rollback(u, target) ==
    /\ Allowed(u, "operator") # {}
    /\ writer = NoUser
    /\ Expected(u)
    /\ target \in DOMAIN manifest.history
    /\ \A e \in manifest.history[target] : Listed(e) /\ Verified(e)
    /\ Commit(manifest.history[target])
    /\ UNCHANGED <<draftVars, pending, userVars, worldVars>>

-----------------------------------------------------------------------------
(* What an analysis that asks for custom rules reads now: load_active_rules *)
(* fails rather than skip an entry, and Pipeline.load_rules refuses a rule  *)
(* that shares the identifier of a canonical one or of another.             *)

SameId(e, f) == Fold[e.rule.id] = Fold[f.rule.id]

LoadSucceeds(active) ==
    /\ \A e \in active : Listed(e) /\ Verified(e)
    /\ \A e, f \in active : SameId(e, f) => e = f

\* The rules read from the files.
LoadedRules(active) == {files[<<e.draft, e.version>>] : e \in active}

PipelineAccepts(rules) ==
    /\ \A r \in rules : Fold[r.id] \notin {Fold[i] : i \in canonical}
    /\ \A r, s \in rules : Fold[r.id] = Fold[s.id] => r = s

RunPossible(active) ==
    /\ LoadSucceeds(active)
    /\ PipelineAccepts(LoadedRules(active))

-----------------------------------------------------------------------------
(* The rest of the world.                                                  *)

\* An operator or another program changes or removes a published file.
Damage(d, v, x) ==
    /\ Cardinality(damaged) < MaxDamage
    /\ files[<<d, v>>] \notin {NoFile, x}
    /\ files' = [files EXCEPT ![<<d, v>>] = x]
    /\ damaged' = damaged \cup {<<d, v>>}
    /\ UNCHANGED <<drafts, writer, reviewed, activeVars, userVars, canonical,
                   late>>

\* A later release ships a rule with this identifier; it is installed while no
\* server is in the middle of a request.
Upgrade(i) ==
    /\ writer = NoUser
    /\ \A u \in Users : pending[u] = None
    /\ i \notin canonical
    /\ canonical' = canonical \cup {i}
    /\ late' = late \cup {j \in RuleIds : Fold[j] = Fold[i] /\ Owners(j) # {}}
    /\ UNCHANGED <<draftVars, activeVars, userVars, damaged>>

Author(u) ==
    \E d \in Drafts :
        \/ ReadDraft(u, d)
        \/ \E r \in Rules : CreateDraft(u, d, r) \/ UpdateDraft(u, d, r)
        \/ ValidateDraft(u, d)

Reviewing(u) ==
    \/ \E d \in Drafts : \/ ApproveDraft(u, d)
                         \/ PublishFile(u, d)
                         \/ PublishIndex(u, d)
    \/ PublishInterrupted(u)

Operate(u) ==
    \/ ReadManifest(u)
    \/ \E d \in Drafts : drafts[d] # None /\
          \E p \in drafts[d].publications :
              ActivateCheck(u, [draft |-> d, version |-> p.version,
                                rule |-> p.rule])
    \/ ActivateCommit(u)
    \/ ActivateRefused(u)
    \/ \E d \in Drafts : Deactivate(u, d)
    \/ \E a \in DOMAIN manifest.history : Rollback(u, a)

World ==
    \/ \E d \in Drafts, v \in Versions, x \in Tampered :
          Damage(d, v, x)
    \/ \E i \in NewIds : Upgrade(i)

Next ==
    \/ \E u \in Users : Author(u) \/ Reviewing(u) \/ Operate(u)
    \/ World

Spec == Init /\ [][Next]_vars

-----------------------------------------------------------------------------
(* Properties.                                                             *)

ReviewedBy(d, rule, a) ==
    /\ a.draft = d /\ a.rule = rule
    /\ a.role = "admin" \/ a.by # a.author

\* A publication holds a rule that somebody read and approved under that
\* draft, and not its own author unless as administrator: no edit slips in
\* between validation, approval and publication (approve_draft,
\* publish_draft).
PublishedWasReviewed ==
    \A d \in Drafts : drafts[d] # None =>
        \A p \in drafts[d].publications :
            /\ p.rule \in Loadable
            /\ \E a \in reviewed : ReviewedBy(d, p.rule, a)

\* A rule counts as validated or approved in the version that is there: it
\* loads, and if approved somebody reviewed it.
DraftsAreTrue ==
    \A d \in Drafts : drafts[d] # None =>
        /\ drafts[d].validated # 0 => /\ drafts[d].validated = drafts[d].version
                                     /\ drafts[d].rule \in Loadable
        /\ drafts[d].status = "approved" =>
              /\ drafts[d].rule \in Loadable
              /\ \E a \in reviewed : ReviewedBy(d, drafts[d].rule, a)

\* Whoever knows the latest version of a draft, or of the manifest, knows what
\* is in it.
ReadingsAreTrue ==
    \A u \in Users :
        /\ seen[u] # None =>
              LET d == seen[u].draft
              IN  /\ drafts[d] # None /\ seen[u].version <= drafts[d].version
                  /\ seen[u].version = drafts[d].version =>
                        seen[u].rule = drafts[d].rule /\ seen[u].by = drafts[d].by
        /\ viewed[u].version <= manifest.version
        /\ viewed[u].version = manifest.version => viewed[u].active = manifest.active

\* Versions that are still to come have no file, and a file that nobody touched
\* holds the rule of its publication, or of the draft in this version.
FilesAreTrue ==
    \A d \in Drafts, v \in Versions :
        /\ drafts[d] = None \/ v > drafts[d].version => files[<<d, v>>] = NoFile
        /\ drafts[d] # None /\ <<d, v>> \notin damaged =>
              /\ v = drafts[d].version => files[<<d, v>>] \in {NoFile, drafts[d].rule}
              /\ \A p \in drafts[d].publications : p.version = v => files[<<d, v>>] = p.rule

\* A version is published with the rule it has, and no identifier became
\* canonical unnoticed.
PublicationsAreTrue ==
    \A d \in Drafts : drafts[d] # None =>
        \A p \in drafts[d].publications :
            /\ p.version <= drafts[d].version
            /\ p.version = drafts[d].version => p.rule = drafts[d].rule
            /\ Fold[p.rule.id] \in {Fold[i] : i \in canonical} => p.rule.id \in late

\* Between the two writes of publish, its checks still hold.
WriterIsCurrent ==
    writer # NoUser =>
        LET d == seen[writer].draft
            v == seen[writer].version
        IN  /\ seen[writer] # None /\ drafts[d] # None
            /\ drafts[d].version = v /\ MayPublish(d)
            /\ <<d, v>> \in damaged \/ files[<<d, v>>] = drafts[d].rule

\* What is active, was active or is about to be is published, under one
\* identifier each.
ManifestIsTrue ==
    /\ manifest.active = manifest.history[manifest.version]
    /\ \A a \in DOMAIN manifest.history :
          /\ \A e \in manifest.history[a] : Listed(e)
          /\ \A e, f \in manifest.history[a] : SameId(e, f) => e = f
    /\ \A u \in Users : pending[u] # None => Listed(pending[u])

\* The state is well formed, every publication was reviewed, and drafts,
\* readings, files and manifest agree.
RuleInv ==
    /\ TypeOK /\ PublishedWasReviewed
    /\ DraftsAreTrue /\ ReadingsAreTrue /\ FilesAreTrue /\ PublicationsAreTrue
    /\ WriterIsCurrent /\ ManifestIsTrue

\* When the active rules load at all, each is a rule that was reviewed,
\* whatever happened to its file since (load_active_rules).
RunsReviewedRules ==
    LoadSucceeds(manifest.active) =>
        \A r \in LoadedRules(manifest.active) :
            \E a \in reviewed : ReviewedBy(a.draft, r, a)

\* Two drafts never publish the same identifier (_publication_owners).
OneDraftPerId ==
    \A d1, d2 \in Drafts :
        (d1 # d2 /\ drafts[d1] # None /\ drafts[d2] # None) =>
            \A p1 \in drafts[d1].publications,
               p2 \in drafts[d2].publications :
                  Fold[p1.rule.id] # Fold[p2.rule.id]

\* An analysis can run with any state of the manifest, present or kept for
\* rollback, unless somebody touched its files or a later release took one of
\* its identifiers: no sequence of operations leads to a set of rules that
\* stops every analysis (activate, rollback, load_active_rules, load_rules).
HistoryRuns ==
    \A a \in DOMAIN manifest.history :
        (\A e \in manifest.history[a] : /\ <<e.draft, e.version>> \notin damaged
                                        /\ e.rule.id \notin late)
            => RunPossible(manifest.history[a])

\* A publish cut off after its rule file can be repeated: the file that is
\* there is the one it would write (publish_draft).
RetryIsPossible ==
    \A d \in Drafts : drafts[d] # None =>
        LET v == drafts[d].version
        IN  <<d, v>> \in damaged \/ files[<<d, v>>] \in {NoFile, drafts[d].rule}

\* Nobody overwrites what they did not see: a change of a draft's rule is made
\* by a user who read the rule it replaces, and a change of the active rules
\* by one who read them (_assert_version).
CommitsWhatWasSeen ==
    [][/\ \A d \in Drafts :
            (drafts[d] # None /\ drafts'[d].rule # drafts[d].rule) =>
                \E u \in Users : /\ seen[u] # None /\ seen[u].draft = d
                                 /\ seen[u].rule = drafts[d].rule
       /\ manifest'.active # manifest.active =>
            \E u \in Users : viewed[u].active = manifest.active]_vars
=============================================================================
