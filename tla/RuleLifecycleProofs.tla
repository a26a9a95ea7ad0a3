------------------------ MODULE RuleLifecycleProofs ------------------------
(* The rule lifecycle for any users, roles, drafts, rules and releases: only  *)
(* reviewed rules run, and no sequence of operations stops every analysis.    *)
EXTENDS RuleLifecycle, TLAPS

\* Versions are numbers from 1 on.
LEMMA VersionsAreNumbers ==
  /\ Versions \subseteq Nat \ {0}
  /\ \A d \in Drafts : MaxVersion[d] \in Nat /\ 1..MaxVersion[d] \subseteq Versions
  <1>1. \A d \in Drafts : MaxVersion[d] \in Nat
    BY RuleAssumption
  <1> QED BY <1>1 DEF Versions

\* What a reading of a draft holds.
LEMMA SeenTypes ==
  ASSUME TypeOK, NEW u \in Users, seen[u] # None
  PROVE  /\ seen[u] \in Seen /\ seen[u].draft \in Drafts /\ seen[u].version \in Versions
         /\ seen[u].rule \in Rules /\ seen[u].by \in Users
  <1>1. seen[u] \in Seen
    BY DEF TypeOK
  <1> QED BY <1>1 DEF Seen

\* What a draft holds.
LEMMA DraftTypes ==
  ASSUME TypeOK, NEW d \in Drafts, drafts[d] # None
  PROVE  /\ drafts[d] \in Draft /\ drafts[d].version \in Versions
         /\ drafts[d].version \in Nat \ {0} /\ drafts[d].by \in Users
         /\ drafts[d].rule \in Rules /\ drafts[d].rule.id \in RuleIds
         /\ \A p \in drafts[d].publications :
               p \in Publication /\ p.rule \in Rules /\ p.rule.id \in RuleIds /\ p.version \in Versions
  <1>1. drafts[d] \in Draft
    BY DEF TypeOK
  <1>2. \A r \in Rules : r.id \in RuleIds
    BY RuleAssumption
  <1> QED BY <1>1, <1>2, VersionsAreNumbers DEF Draft, Publication

-----------------------------------------------------------------------------
\* No drafts, no files, an empty manifest.
LEMMA InitInv == Init => RuleInv
  <1> SUFFICES ASSUME Init PROVE RuleInv
    OBVIOUS
  <1>1. TypeOK
    <2>1. manifest.history \in [Kept(manifest.version) -> SUBSET Entry]
      <3>1. Kept(0) = {0}
        BY RuleAssumption DEF Kept
      <3> QED BY <3>1 DEF Init
    <2>2. EmptyView \in View
      BY RuleAssumption DEF EmptyView, View, Activations
    <2> QED BY <2>1, <2>2, RuleAssumption DEF Init, TypeOK, Activations
  <1>2. PublishedWasReviewed /\ DraftsAreTrue /\ PublicationsAreTrue /\ WriterIsCurrent
    BY DEF Init, PublishedWasReviewed, DraftsAreTrue, PublicationsAreTrue, WriterIsCurrent
  <1>3. ReadingsAreTrue
    BY DEF Init, ReadingsAreTrue, EmptyView
  <1>4. FilesAreTrue /\ ManifestIsTrue
    BY DEF Init, FilesAreTrue, ManifestIsTrue
  <1> QED BY <1>1, <1>2, <1>3, <1>4 DEF RuleInv

-----------------------------------------------------------------------------
(* Steps that change one draft, and what they keep. *)

\* Draft d becomes new, and nothing else changes but the reviews and the writer.
DraftStep(d, new) ==
  /\ drafts' = [drafts EXCEPT ![d] = new]
  /\ UNCHANGED <<files, activeVars, userVars, worldVars>>
  /\ reviewed \subseteq reviewed'

\* A publication of draft d, once the draft is new.
TruePublication(d, new, p) ==
  /\ p.rule \in Loadable /\ \E a \in reviewed' : ReviewedBy(d, p.rule, a)
  /\ p.version <= new.version
  /\ p.version = new.version => p.rule = new.rule
  /\ Fold[p.rule.id] \in {Fold[i] : i \in canonical} => p.rule.id \in late
  /\ <<d, p.version>> \in damaged \/ files[<<d, p.version>>] = p.rule

\* What a new draft d must be for the invariant: its publications stay, and a
\* version that was there before is as it was.
GoodDraft(d, new) ==
  /\ \A p \in new.publications : TruePublication(d, new, p)
  /\ new.validated # 0 => new.validated = new.version /\ new.rule \in Loadable
  /\ new.status = "approved" =>
        new.rule \in Loadable /\ \E a \in reviewed' : ReviewedBy(d, new.rule, a)
  /\ drafts[d] # None =>
        /\ drafts[d].publications \subseteq new.publications
        /\ new.version >= drafts[d].version
        /\ new.version = drafts[d].version => new.rule = drafts[d].rule /\ new.by = drafts[d].by

\* Such a step preserves the invariant.
LEMMA DraftStepInv ==
  ASSUME RuleInv, NEW d \in Drafts, NEW new \in Draft, DraftStep(d, new), GoodDraft(d, new),
         reviewed' \subseteq ReviewRecord, writer' = NoUser
  PROVE  RuleInv'
  <1> USE DEF RuleInv, GoodDraft, TruePublication
  <1>1. /\ drafts' \in [Drafts -> Draft \cup {None}] /\ drafts'[d] = new /\ new # None
        /\ \A x \in Drafts : x # d => drafts'[x] = drafts[x]
    BY NoneAssumption DEF DraftStep, TypeOK
  <1>2. TypeOK'
    BY <1>1 DEF TypeOK, DraftStep, activeVars, userVars, worldVars
  <1>3. PublishedWasReviewed'
    <2>1. ASSUME NEW x \in Drafts, drafts'[x] # None, NEW p \in drafts'[x].publications
          PROVE  p.rule \in Loadable /\ \E a \in reviewed' : ReviewedBy(x, p.rule, a)
      <3>1. CASE x = d
        BY <1>1, <2>1, <3>1
      <3>2. CASE x # d
        BY <1>1, <2>1, <3>2 DEF PublishedWasReviewed, DraftStep
      <3> QED BY <3>1, <3>2
    <2> QED BY <2>1 DEF PublishedWasReviewed, ReviewedBy
  <1>4. DraftsAreTrue'
    BY <1>1 DEF DraftsAreTrue, DraftStep
  <1>5. ReadingsAreTrue'
    <2>1. ASSUME NEW u \in Users, seen[u] # None, seen[u].draft = d
          PROVE  /\ seen[u].version <= new.version
                 /\ seen[u].version = new.version => seen[u].rule = new.rule /\ seen[u].by = new.by
      <3>1. drafts[d] # None /\ seen[u].version <= drafts[d].version
            /\ (seen[u].version = drafts[d].version =>
                  seen[u].rule = drafts[d].rule /\ seen[u].by = drafts[d].by)
        BY <2>1 DEF ReadingsAreTrue
      <3>2. seen[u].version \in Nat /\ drafts[d].version \in Nat /\ new.version \in Nat
        BY <2>1, <3>1, SeenTypes, DraftTypes, VersionsAreNumbers DEF Draft
      <3> QED BY <3>1, <3>2
    <2>2. \A u \in Users : seen[u] # None => seen[u].draft \in Drafts
      BY SeenTypes
    <2>3. UNCHANGED <<seen, viewed, manifest>>
      BY DEF DraftStep, activeVars, userVars
    <2> QED BY <1>1, <2>1, <2>2, <2>3 DEF ReadingsAreTrue
  <1>6. FilesAreTrue'
    <2>1. UNCHANGED <<files, damaged>>
      BY DEF DraftStep, worldVars
    <2>2. ASSUME NEW v \in Versions
          PROVE  /\ v > new.version => files[<<d, v>>] = NoFile
                 /\ <<d, v>> \notin damaged =>
                      /\ v = new.version => files[<<d, v>>] \in {NoFile, new.rule}
                      /\ \A p \in new.publications : p.version = v => files[<<d, v>>] = p.rule
      <3>1. v \in Nat /\ new.version \in Nat /\ (drafts[d] # None => drafts[d].version \in Nat)
        BY DraftTypes, VersionsAreNumbers DEF Draft
      <3>2. CASE drafts[d] = None
        BY <3>1, <3>2 DEF FilesAreTrue
      <3>3. CASE drafts[d] # None /\ v > drafts[d].version
        BY <3>1, <3>3 DEF FilesAreTrue
      <3>4. CASE drafts[d] # None /\ v <= drafts[d].version
        BY <3>1, <3>4 DEF FilesAreTrue
      <3> QED BY <3>1, <3>2, <3>3, <3>4
    <2>3. ASSUME NEW x \in Drafts, NEW v \in Versions
          PROVE  /\ drafts'[x] = None \/ v > drafts'[x].version => files'[<<x, v>>] = NoFile
                 /\ drafts'[x] # None /\ <<x, v>> \notin damaged' =>
                      /\ v = drafts'[x].version => files'[<<x, v>>] \in {NoFile, drafts'[x].rule}
                      /\ \A p \in drafts'[x].publications : p.version = v => files'[<<x, v>>] = p.rule
      <3>1. CASE x = d
        BY <1>1, <2>1, <2>2, <3>1
      <3>2. CASE x # d
        BY <1>1, <2>1, <3>2 DEF FilesAreTrue
      <3> QED BY <3>1, <3>2
    <2> QED BY <2>3 DEF FilesAreTrue
  <1>7. PublicationsAreTrue'
    BY <1>1 DEF PublicationsAreTrue, DraftStep, worldVars
  <1>8. WriterIsCurrent'
    BY DEF WriterIsCurrent
  <1>9. ManifestIsTrue'
    <2>1. \A e \in Entry : Listed(e) => Listed(e)'
      BY <1>1 DEF Listed, Entry
    <2>2. UNCHANGED <<manifest, pending>>
      BY DEF DraftStep, activeVars
    <2>3. \A a \in DOMAIN manifest.history : manifest.history[a] \subseteq Entry
      BY DEF TypeOK
    <2>4. \A u \in Users : pending[u] # None => pending[u] \in Entry
      BY DEF TypeOK
    <2> QED BY <2>1, <2>2, <2>3, <2>4 DEF ManifestIsTrue, SameId
  <1> QED BY <1>2, <1>3, <1>4, <1>5, <1>6, <1>7, <1>8, <1>9

\* The draft is there in the version that the user has read.
LEMMA CurrentDraft ==
  ASSUME RuleInv, NEW u \in Users, NEW d \in Drafts, Current(u, d)
  PROVE  /\ writer = NoUser /\ drafts[d] # None /\ drafts[d] \in Draft
         /\ seen[u].rule = drafts[d].rule /\ seen[u].by = drafts[d].by
  BY DEF Current, RuleInv, TypeOK, ReadingsAreTrue

\* Draft d with its rule, author and publications as they are.
SameVersion(d, new) ==
  /\ new.version = drafts[d].version /\ new.rule = drafts[d].rule /\ new.by = drafts[d].by
  /\ new.publications = drafts[d].publications

\* What was published before is as true as it was, if the new version is not older.
LEMMA OldPublications ==
  ASSUME RuleInv, NEW d \in Drafts, drafts[d] # None, reviewed \subseteq reviewed', NEW new,
         new.version = drafts[d].version /\ new.rule = drafts[d].rule
  PROVE  \A p \in drafts[d].publications : TruePublication(d, new, p)
  <1> SUFFICES ASSUME NEW p \in drafts[d].publications PROVE TruePublication(d, new, p)
    OBVIOUS
  <1>1. p.version \in Versions
    BY DraftTypes DEF RuleInv
  <1>2. p.rule \in Loadable /\ \E a \in reviewed' : ReviewedBy(d, p.rule, a)
    BY DEF RuleInv, PublishedWasReviewed
  <1>3. /\ p.version <= drafts[d].version
        /\ p.version = drafts[d].version => p.rule = drafts[d].rule
        /\ Fold[p.rule.id] \in {Fold[i] : i \in canonical} => p.rule.id \in late
    BY DEF RuleInv, PublicationsAreTrue
  <1>4. <<d, p.version>> \in damaged \/ files[<<d, p.version>>] = p.rule
    BY <1>1 DEF RuleInv, FilesAreTrue
  <1> QED BY <1>2, <1>3, <1>4 DEF TruePublication

\* Creating, updating and validating a draft.
LEMMA WriteInv ==
  ASSUME RuleInv, NEW u \in Users, NEW d \in Drafts, NEW rule \in Rules,
         CreateDraft(u, d, rule) \/ UpdateDraft(u, d, rule) \/ ValidateDraft(u, d)
  PROVE  RuleInv'
  <1>1. CASE CreateDraft(u, d, rule)
    <2> DEFINE new == [version |-> 1, status |-> "draft", by |-> u, rule |-> rule,
                       validated |-> 0, approval |-> NoApproval, publications |-> {}]
    <2>1. new \in Draft
      <3>1. 1 \in Versions
        BY <1>1, VersionsAreNumbers DEF CreateDraft
      <3> QED BY <3>1 DEF Draft, Statuses, NoApproval, Approval
    <2>2. DraftStep(d, new) /\ drafts[d] = None /\ writer' = NoUser /\ UNCHANGED reviewed
      BY <1>1 DEF CreateDraft, DraftStep, Written
    <2> QED BY <2>1, <2>2, DraftStepInv DEF GoodDraft, RuleInv, TypeOK
  <1>2. CASE UpdateDraft(u, d, rule)
    <2> DEFINE new == [drafts[d] EXCEPT !.version = @ + 1, !.status = "draft", !.by = u,
                         !.rule = rule, !.validated = 0, !.approval = NoApproval]
    <2>1. DraftStep(d, new) /\ Current(u, d) /\ writer' = NoUser /\ UNCHANGED reviewed
      BY <1>2 DEF UpdateDraft, Current, DraftStep, Written
    <2>2. drafts[d] # None /\ drafts[d] \in Draft /\ drafts[d].version \in Nat
      BY <2>1, CurrentDraft, DraftTypes DEF RuleInv
    <2>3. new \in Draft
      <3>1. drafts[d].version + 1 \in Versions
        BY <1>2, <2>2, VersionsAreNumbers DEF UpdateDraft
      <3> QED BY <2>2, <3>1 DEF Draft, Statuses, NoApproval, Approval
    <2>4. /\ new.version = drafts[d].version + 1 /\ new.status = "draft" /\ new.validated = 0
          /\ new.publications = drafts[d].publications
      BY <2>2 DEF Draft
    <2>5. ASSUME NEW p \in new.publications
          PROVE  TruePublication(d, new, p)
      <3>1. p \in drafts[d].publications
        BY <2>4
      <3>2. p.version \in Nat /\ p.version \in Versions
        BY <2>2, <3>1, DraftTypes, VersionsAreNumbers DEF RuleInv
      <3>3. /\ p.version <= drafts[d].version
            /\ Fold[p.rule.id] \in {Fold[i] : i \in canonical} => p.rule.id \in late
        BY <2>2, <3>1 DEF RuleInv, PublicationsAreTrue
      <3>4. p.rule \in Loadable /\ \E a \in reviewed : ReviewedBy(d, p.rule, a)
        BY <2>2, <3>1 DEF RuleInv, PublishedWasReviewed
      <3>5. <<d, p.version>> \in damaged \/ files[<<d, p.version>>] = p.rule
        BY <2>2, <3>1, <3>2 DEF RuleInv, FilesAreTrue
      <3> QED BY <2>1, <2>2, <2>4, <3>2, <3>3, <3>4, <3>5 DEF TruePublication
    <2> HIDE DEF new
    <2>6. GoodDraft(d, new)
      BY <2>2, <2>4, <2>5 DEF GoodDraft
    <2>7. reviewed' \subseteq ReviewRecord
      BY <2>1 DEF RuleInv, TypeOK
    <2> QED BY <2>1, <2>3, <2>6, <2>7, DraftStepInv
  <1>3. CASE ValidateDraft(u, d)
    <2> DEFINE new == [drafts[d] EXCEPT !.status = "validated", !.validated = drafts[d].version,
                         !.approval = NoApproval]
    <2>1. DraftStep(d, new) /\ Current(u, d) /\ writer' = NoUser /\ UNCHANGED reviewed
          /\ drafts[d].rule \in Loadable
      BY <1>3 DEF ValidateDraft, Current, DraftStep, Written, RuntimeValid
    <2>2. drafts[d] # None /\ drafts[d] \in Draft /\ drafts[d].version \in Nat
      BY <2>1, CurrentDraft, DraftTypes DEF RuleInv
    <2>3. new \in Draft
      BY <2>2 DEF Draft, Statuses, NoApproval, Approval
    <2>4. new.status = "validated" /\ new.validated = drafts[d].version /\ SameVersion(d, new)
      BY <2>2 DEF Draft, SameVersion
    <2> HIDE DEF new
    <2>5. GoodDraft(d, new)
      BY <2>1, <2>2, <2>4, OldPublications DEF GoodDraft, SameVersion
    <2> QED BY <2>1, <2>3, <2>5, DraftStepInv DEF RuleInv, TypeOK
  <1> QED BY <1>1, <1>2, <1>3

\* Approving a draft: the review is of the rule that is approved.
LEMMA ApproveInv ==
  ASSUME RuleInv, NEW u \in Users, NEW d \in Drafts, ApproveDraft(u, d)
  PROVE  RuleInv'
  <1>1. PICK role \in Allowed(u, "reviewer") :
           /\ Current(u, d) /\ MayApprove(u, role, d)
           /\ drafts[d].validated = drafts[d].version
           /\ Written(d, [drafts[d] EXCEPT !.status = "approved",
                             !.approval = [version |-> drafts[d].version, by |-> u]])
           /\ reviewed' = reviewed \cup
                 {[draft |-> d, rule |-> seen[u].rule, author |-> seen[u].by, by |-> u, role |-> role]}
           /\ UNCHANGED <<files, writer>>
    BY DEF ApproveDraft
  <1> DEFINE new == [drafts[d] EXCEPT !.status = "approved",
                       !.approval = [version |-> drafts[d].version, by |-> u]]
             review == [draft |-> d, rule |-> seen[u].rule, author |-> seen[u].by, by |-> u,
                        role |-> role]
  <1>2. drafts[d] # None /\ drafts[d] \in Draft /\ drafts[d].version \in Nat \ {0} /\ writer' = NoUser
        /\ drafts[d].version \in Versions
        /\ seen[u].rule = drafts[d].rule /\ seen[u].by = drafts[d].by
    BY <1>1, CurrentDraft, DraftTypes DEF RuleInv
  <1>3. new \in Draft
    BY <1>2 DEF Draft, Statuses, Approval
  <1>4. SameVersion(d, new) /\ new.validated = drafts[d].version
    BY <1>1, <1>2 DEF Draft, SameVersion
  <1>5. review \in ReviewRecord /\ ReviewedBy(d, drafts[d].rule, review)
    <2>1. role \in Roles
      BY <1>1, RuleAssumption DEF Allowed
    <2>2. drafts[d].rule \in Rules /\ drafts[d].by \in Users
      BY <1>2, DraftTypes DEF RuleInv
    <2>3. review \in ReviewRecord
      BY <1>2, <2>1, <2>2 DEF ReviewRecord
    <2>4. review.draft = d /\ review.rule = drafts[d].rule /\ review.author = drafts[d].by
          /\ review.by = u /\ review.role = role
      BY <1>2
    <2> QED BY <1>1, <2>3, <2>4 DEF ReviewedBy, MayApprove
  <1>6. reviewed' = reviewed \cup {review}
    BY <1>1
  <1>7. drafts[d].rule \in Loadable
    BY <1>1, <1>2 DEF RuleInv, DraftsAreTrue
  <1>8. DraftStep(d, new)
    BY <1>1, <1>6 DEF DraftStep, Written
  <1> HIDE DEF new, review
  <1>9. GoodDraft(d, new)
    BY <1>2, <1>4, <1>5, <1>6, <1>7, OldPublications DEF GoodDraft, SameVersion
  <1>10. reviewed' \subseteq ReviewRecord
    BY <1>5, <1>6 DEF RuleInv, TypeOK
  <1> QED BY <1>2, <1>3, <1>8, <1>9, <1>10, DraftStepInv

\* The second write of publish.
LEMMA PublishIndexInv ==
  ASSUME RuleInv, NEW u \in Users, NEW d \in Drafts, PublishIndex(u, d)
  PROVE  RuleInv'
  <1> DEFINE v == drafts[d].version
             listed == {p \in drafts[d].publications : p.version = v}
             pub == [version |-> v, rule |-> drafts[d].rule]
             new == [drafts[d] EXCEPT !.status = "published",
                       !.publications = IF listed = {} THEN @ \cup {pub} ELSE @]
  <1>1. /\ writer = u /\ writer # NoUser /\ seen[u].draft = d /\ UNCHANGED <<files, reviewed>>
        /\ Written(d, new) /\ writer' = NoUser
    BY RuleAssumption DEF PublishIndex
  <1>2. /\ drafts[d] # None /\ seen[u].version = v /\ MayPublish(d)
        /\ <<d, v>> \in damaged \/ files[<<d, v>>] = drafts[d].rule
    BY <1>1 DEF RuleInv, WriterIsCurrent
  <1>3. drafts[d] \in Draft /\ v \in Nat /\ v \in Versions /\ drafts[d].rule \in Rules
    BY <1>2, DraftTypes DEF RuleInv
  <1>4. pub \in Publication /\ pub.version = v /\ pub.rule = drafts[d].rule
    BY <1>3 DEF Publication
  <1> HIDE DEF pub
  <1>5. new \in Draft
    <2>1. (IF listed = {} THEN drafts[d].publications \cup {pub} ELSE drafts[d].publications)
             \in SUBSET Publication
      BY <1>3, <1>4 DEF Draft
    <2> QED BY <1>3, <2>1 DEF Draft, Statuses
  <1>6. /\ new.version = v /\ new.rule = drafts[d].rule /\ new.by = drafts[d].by
        /\ new.validated = drafts[d].validated /\ new.status = "published"
        /\ drafts[d].publications \subseteq new.publications
        /\ new.publications \subseteq drafts[d].publications \cup {pub}
    BY <1>3 DEF Draft
  <1>7. DraftStep(d, new)
    BY <1>1 DEF DraftStep, Written
  <1> HIDE DEF new, listed
  <1>8. TruePublication(d, new, pub)
    <2>1. drafts[d].rule \in Loadable /\ \E a \in reviewed' : ReviewedBy(d, drafts[d].rule, a)
      BY <1>1, <1>2 DEF MayPublish, RuleInv, DraftsAreTrue
    <2> QED BY <1>2, <1>3, <1>4, <1>6, <2>1 DEF TruePublication, MayPublish
  <1>9. \A p \in drafts[d].publications : TruePublication(d, new, p)
    BY <1>1, <1>2, <1>6, <1>7, OldPublications
  <1>10. new.validated # 0 => new.validated = new.version /\ new.rule \in Loadable
    BY <1>2, <1>6 DEF RuleInv, DraftsAreTrue
  <1>11. GoodDraft(d, new)
    BY <1>3, <1>6, <1>8, <1>9, <1>10 DEF GoodDraft
  <1> QED BY <1>1, <1>5, <1>7, <1>11, DraftStepInv DEF RuleInv, TypeOK

-----------------------------------------------------------------------------
(* The other steps of authoring. *)

\* Reading a draft.
LEMMA ReadDraftInv ==
  ASSUME RuleInv, NEW u \in Users, NEW d \in Drafts, ReadDraft(u, d)
  PROVE  RuleInv'
  <1> DEFINE reading == [draft |-> d, version |-> drafts[d].version, rule |-> drafts[d].rule,
                         by |-> drafts[d].by]
  <1>1. drafts[d] # None /\ seen' = [seen EXCEPT ![u] = reading] /\ writer = NoUser
        /\ UNCHANGED <<drafts, files, writer, reviewed, manifest, pending, viewed, canonical, damaged, late>>
    BY DEF ReadDraft, draftVars, activeVars, worldVars
  <1>2. drafts[d].version \in Nat /\ reading \in Seen
    BY <1>1, DraftTypes DEF RuleInv, Seen
  <1>3. /\ reading.draft = d /\ reading.version = drafts[d].version
        /\ reading.rule = drafts[d].rule /\ reading.by = drafts[d].by
    OBVIOUS
  <1> HIDE DEF reading
  <1>4. seen' \in [Users -> Seen \cup {None}] /\ seen'[u] = reading
        /\ \A w \in Users : w # u => seen'[w] = seen[w]
    BY <1>1, <1>2 DEF RuleInv, TypeOK
  <1>5. TypeOK'
    BY <1>1, <1>4 DEF RuleInv, TypeOK
  <1>6. ReadingsAreTrue'
    <2>1. ASSUME NEW w \in Users, seen'[w] # None
          PROVE  LET x == seen'[w].draft
                 IN  /\ drafts[x] # None /\ seen'[w].version <= drafts[x].version
                     /\ seen'[w].version = drafts[x].version =>
                           seen'[w].rule = drafts[x].rule /\ seen'[w].by = drafts[x].by
      <3>1. CASE w = u
        BY <1>1, <1>2, <1>3, <1>4, <3>1
      <3>2. CASE w # u
        BY <1>4, <2>1, <3>2 DEF RuleInv, ReadingsAreTrue
      <3> QED BY <3>1, <3>2
    <2> QED BY <1>1, <2>1 DEF RuleInv, ReadingsAreTrue
  <1> QED
    BY <1>1, <1>5, <1>6
    DEF RuleInv, PublishedWasReviewed, ReviewedBy, DraftsAreTrue, FilesAreTrue, PublicationsAreTrue,
        WriterIsCurrent, ManifestIsTrue, Listed, SameId

\* A publish that stops after the rule file.
LEMMA InterruptedInv ==
  ASSUME RuleInv, NEW u \in Users, PublishInterrupted(u)
  PROVE  RuleInv'
  <1>1. writer' = NoUser
        /\ UNCHANGED <<drafts, files, reviewed, manifest, pending, seen, viewed, canonical, damaged, late>>
    BY DEF PublishInterrupted, activeVars, userVars, worldVars
  <1>2. TypeOK'
    BY <1>1 DEF RuleInv, TypeOK
  <1> QED
    BY <1>1, <1>2
    DEF RuleInv, PublishedWasReviewed, ReviewedBy, DraftsAreTrue, ReadingsAreTrue, FilesAreTrue,
        PublicationsAreTrue, WriterIsCurrent, ManifestIsTrue, Listed, SameId

\* The first write of publish: nothing is published under the new file yet, or
\* the same rule is.
LEMMA PublishFileInv ==
  ASSUME RuleInv, NEW u \in Users, NEW d \in Drafts, PublishFile(u, d)
  PROVE  RuleInv'
  <1> DEFINE v == drafts[d].version
  <1>1. /\ Current(u, d) /\ MayPublish(d) /\ files[<<d, v>>] \in {NoFile, drafts[d].rule}
        /\ files' = [files EXCEPT ![<<d, v>>] = drafts[d].rule] /\ writer' = u
        /\ UNCHANGED <<drafts, reviewed, manifest, pending, seen, viewed, canonical, damaged, late>>
    BY DEF PublishFile, activeVars, userVars, worldVars
  <1>2. drafts[d] # None /\ v \in Versions /\ v \in Nat /\ drafts[d].rule \in Rules
    BY <1>1, CurrentDraft, DraftTypes DEF RuleInv
  <1>3. files' \in [Drafts \X Versions -> Rules \cup {NoFile}] /\ files'[<<d, v>>] = drafts[d].rule
        /\ \A x \in Drafts, w \in Versions : x # d \/ w # v => files'[<<x, w>>] = files[<<x, w>>]
    BY <1>1, <1>2 DEF RuleInv, TypeOK
  <1>4. TypeOK'
    BY <1>1, <1>3 DEF RuleInv, TypeOK
  <1>5. FilesAreTrue'
    <2>1. ASSUME NEW x \in Drafts, NEW w \in Versions
          PROVE  /\ drafts[x] = None \/ w > drafts[x].version => files'[<<x, w>>] = NoFile
                 /\ drafts[x] # None /\ <<x, w>> \notin damaged =>
                      /\ w = drafts[x].version => files'[<<x, w>>] \in {NoFile, drafts[x].rule}
                      /\ \A p \in drafts[x].publications : p.version = w => files'[<<x, w>>] = p.rule
      <3>1. CASE x = d /\ w = v
        <4>1. \A p \in drafts[d].publications : p.version = v => p.rule = drafts[d].rule
          BY <1>2 DEF RuleInv, PublicationsAreTrue
        <4> QED BY <1>2, <1>3, <3>1, <4>1
      <3>2. CASE x # d \/ w # v
        BY <1>3, <3>2 DEF RuleInv, FilesAreTrue
      <3> QED BY <3>1, <3>2
    <2> QED BY <1>1, <2>1 DEF FilesAreTrue
  <1>6. WriterIsCurrent'
    <2>1. MayPublish(d)'
      BY <1>1 DEF MayPublish, Owners
    <2>2. seen[u] # None /\ seen[u].draft = d /\ seen[u].version = v
      BY <1>1 DEF Current
    <2> QED BY <1>1, <1>2, <1>3, <2>1, <2>2 DEF WriterIsCurrent
  <1> QED
    BY <1>1, <1>4, <1>5, <1>6
    DEF RuleInv, PublishedWasReviewed, ReviewedBy, DraftsAreTrue, ReadingsAreTrue, PublicationsAreTrue,
        ManifestIsTrue, Listed, SameId

-----------------------------------------------------------------------------
(* Activation. *)

\* A user looks at the manifest, or checks a publication, or gives up.
LEMMA ManifestReadInv ==
  ASSUME RuleInv, NEW u \in Users, ReadManifest(u)
  PROVE  RuleInv'
  <1> DEFINE view == [version |-> manifest.version, active |-> manifest.active]
  <1>1. viewed' = [viewed EXCEPT ![u] = view]
        /\ UNCHANGED <<drafts, files, writer, reviewed, manifest, pending, seen, canonical, damaged, late>>
    BY DEF ReadManifest, draftVars, activeVars, worldVars
  <1>2. view \in View /\ view.version = manifest.version /\ view.active = manifest.active
    BY DEF RuleInv, TypeOK, View
  <1> HIDE DEF view
  <1>3. viewed' \in [Users -> View] /\ viewed'[u] = view
        /\ \A w \in Users : w # u => viewed'[w] = viewed[w]
    BY <1>1, <1>2 DEF RuleInv, TypeOK
  <1>4. TypeOK'
    BY <1>1, <1>3 DEF RuleInv, TypeOK
  <1>5. ReadingsAreTrue'
    <2>1. manifest.version \in Nat
      BY RuleAssumption DEF RuleInv, TypeOK, Activations
    <2>2. ASSUME NEW w \in Users
          PROVE  /\ viewed'[w].version <= manifest.version
                 /\ viewed'[w].version = manifest.version => viewed'[w].active = manifest.active
      <3>1. CASE w = u
        BY <1>2, <1>3, <2>1, <3>1
      <3>2. CASE w # u
        BY <1>3, <3>2 DEF RuleInv, ReadingsAreTrue
      <3> QED BY <3>1, <3>2
    <2> QED BY <1>1, <2>2 DEF RuleInv, ReadingsAreTrue
  <1> QED
    BY <1>1, <1>4, <1>5, SMTT(30)
    DEF RuleInv, PublishedWasReviewed, ReviewedBy, DraftsAreTrue, FilesAreTrue, PublicationsAreTrue,
        WriterIsCurrent, MayPublish, Owners, ManifestIsTrue, Listed, SameId

\* A user takes up or drops a publication that is listed.
LEMMA PendingInv ==
  ASSUME RuleInv, NEW u \in Users, NEW e \in Entry \cup {None}, e # None => Listed(e),
         pending' = [pending EXCEPT ![u] = e],
         UNCHANGED <<draftVars, manifest, userVars, worldVars>>
  PROVE  RuleInv'
  <1>1. UNCHANGED <<drafts, files, writer, reviewed, manifest, seen, viewed, canonical, damaged, late>>
    BY DEF draftVars, userVars, worldVars
  <1>2. pending' \in [Users -> Entry \cup {None}] /\ pending'[u] = e
        /\ \A w \in Users : w # u => pending'[w] = pending[w]
    BY DEF RuleInv, TypeOK
  <1>3. TypeOK'
    BY <1>1, <1>2 DEF RuleInv, TypeOK
  <1>4. ManifestIsTrue'
    <2>1. \A w \in Users : pending'[w] # None => Listed(pending'[w])
      BY <1>2 DEF RuleInv, ManifestIsTrue
    <2> QED BY <1>1, <2>1 DEF RuleInv, ManifestIsTrue, Listed, SameId
  <1> QED
    BY <1>1, <1>3, <1>4, SMTT(30)
    DEF RuleInv, PublishedWasReviewed, ReviewedBy, DraftsAreTrue, ReadingsAreTrue, FilesAreTrue,
        PublicationsAreTrue, WriterIsCurrent, MayPublish, Owners

\* A new state of the manifest: published rules, one for each identifier.
LEMMA CommitInv ==
  ASSUME RuleInv, NEW u \in Users, NEW active \in SUBSET Entry, Expected(u), Commit(active),
         \A e \in active : Listed(e), \A e, f \in active : SameId(e, f) => e = f,
         pending' = pending \/ pending' = [pending EXCEPT ![u] = None],
         UNCHANGED <<draftVars, userVars, worldVars>>
  PROVE  RuleInv'
  <1> DEFINE v == manifest.version + 1
             old == {a \in DOMAIN manifest.history : a > v - HistoryLimit}
             history == [a \in old \cup {v} |-> IF a = v THEN active ELSE manifest.history[a]]
  <1>1. UNCHANGED <<drafts, files, writer, reviewed, seen, viewed, canonical, damaged, late>>
    BY DEF draftVars, userVars, worldVars
  <1>2. manifest.version \in Nat /\ v \in Activations /\ HistoryLimit \in Nat \ {0}
    BY RuleAssumption DEF Expected, RuleInv, TypeOK, Activations
  <1>3. manifest'.version = v /\ manifest'.active = active /\ manifest'.history = history
    BY DEF Commit
  <1>4. DOMAIN manifest.history = Kept(manifest.version)
        /\ \A a \in DOMAIN manifest.history : manifest.history[a] \in SUBSET Entry
    BY DEF RuleInv, TypeOK
  <1>5. old \cup {v} = Kept(v)
    <2>1. old = {a \in 0..manifest.version : a > v - HistoryLimit}
      BY <1>2, <1>4 DEF Kept
    <2>2. \A a : a \in 0..manifest.version \/ a = v <=> a \in 0..v
      BY <1>2
    <2> HIDE DEF old
    <2>3. v > v - HistoryLimit
      BY <1>2
    <2> QED BY <2>1, <2>2, <2>3 DEF Kept
  <1>6. history \in [Kept(v) -> SUBSET Entry]
    BY <1>4, <1>5
  <1>7. pending' \in [Users -> Entry \cup {None}]
        /\ \A w \in Users : pending'[w] # None => pending'[w] = pending[w]
    BY DEF RuleInv, TypeOK
  <1>8. TypeOK'
    BY <1>1, <1>2, <1>3, <1>6, <1>7 DEF RuleInv, TypeOK
  <1>9. ReadingsAreTrue'
    <2>1. ASSUME NEW w \in Users
          PROVE  viewed[w].version < v
      <3>1. viewed[w].version \in Nat
        BY DEF RuleInv, TypeOK, View, Activations
      <3>2. viewed[w].version <= manifest.version
        BY DEF RuleInv, ReadingsAreTrue
      <3> QED BY <1>2, <3>1, <3>2
    <2>2. \A w \in Users : viewed[w].version \in Nat
      BY DEF RuleInv, TypeOK, View, Activations
    <2>3. \A w \in Users : viewed[w].version <= v /\ viewed[w].version # v
      BY <1>2, <2>1, <2>2
    <2> HIDE DEF v, history
    <2> QED BY <1>1, <1>3, <2>3 DEF RuleInv, ReadingsAreTrue
  <1>10. ManifestIsTrue'
    <2>1. history[v] = active
      OBVIOUS
    <2>2. ASSUME NEW a \in DOMAIN history
          PROVE  /\ \A e \in history[a] : Listed(e)
                 /\ \A e, f \in history[a] : SameId(e, f) => e = f
      <3>1. CASE a = v
        BY <2>1, <3>1
      <3>2. CASE a # v
        <4>1. a \in DOMAIN manifest.history /\ history[a] = manifest.history[a]
          BY <2>2, <3>2
        <4> QED BY <4>1 DEF RuleInv, ManifestIsTrue
      <3> QED BY <3>1, <3>2
    <2>3. \A w \in Users : pending'[w] # None => Listed(pending'[w])
      BY <1>7 DEF RuleInv, ManifestIsTrue
    <2> HIDE DEF v, history
    <2> QED BY <1>1, <1>3, <2>1, <2>2, <2>3 DEF ManifestIsTrue, Listed, SameId
  <1> QED
    BY <1>1, <1>8, <1>9, <1>10
    DEF RuleInv, PublishedWasReviewed, ReviewedBy, DraftsAreTrue, FilesAreTrue,
        PublicationsAreTrue, WriterIsCurrent, MayPublish, Owners

\* Every operation of an operator.
LEMMA OperateInv ==
  ASSUME RuleInv, NEW u \in Users, Operate(u)
  PROVE  RuleInv'
  <1>1. CASE ReadManifest(u)
    BY <1>1, ManifestReadInv
  <1>2. ASSUME NEW d \in Drafts, drafts[d] # None, NEW p \in drafts[d].publications,
               ActivateCheck(u, [draft |-> d, version |-> p.version, rule |-> p.rule])
        PROVE  RuleInv'
    <2> DEFINE e == [draft |-> d, version |-> p.version, rule |-> p.rule]
    <2>1. e \in Entry
      BY <1>2, DraftTypes DEF RuleInv, Entry
    <2>2. Listed(e) /\ pending' = [pending EXCEPT ![u] = e]
          /\ UNCHANGED <<draftVars, manifest, userVars, worldVars>>
      BY <1>2 DEF ActivateCheck
    <2> HIDE DEF e
    <2> QED BY <2>1, <2>2, PendingInv
  <1>3. CASE ActivateCommit(u)
    <2> DEFINE kept == {e \in manifest.active : /\ e.draft # pending[u].draft
                                               /\ Fold[e.rule.id] # Fold[pending[u].rule.id]}
    <2>1. /\ pending[u] # None /\ Expected(u) /\ Commit(kept \cup {pending[u]})
          /\ pending' = [pending EXCEPT ![u] = None]
          /\ UNCHANGED <<draftVars, userVars, worldVars>>
      BY <1>3 DEF ActivateCommit
    <2>2. kept \cup {pending[u]} \in SUBSET Entry
      BY <2>1 DEF RuleInv, TypeOK
    <2>3. manifest.version \in DOMAIN manifest.history
      BY RuleAssumption DEF RuleInv, TypeOK, Kept, Activations
    <2>4. \A e \in kept \cup {pending[u]} : Listed(e)
      BY <2>1, <2>3 DEF RuleInv, ManifestIsTrue
    <2>5. \A e, f \in kept \cup {pending[u]} : SameId(e, f) => e = f
      BY <2>3 DEF RuleInv, ManifestIsTrue, SameId
    <2> HIDE DEF kept
    <2> QED BY <2>1, <2>2, <2>4, <2>5, CommitInv
  <1>4. CASE ActivateRefused(u)
    BY <1>4, PendingInv DEF ActivateRefused
  <1>5. ASSUME NEW d \in Drafts, Deactivate(u, d)
        PROVE  RuleInv'
    <2> DEFINE kept == {e \in manifest.active : e.draft # d}
    <2>1. Expected(u) /\ Commit(kept) /\ UNCHANGED <<draftVars, pending, userVars, worldVars>>
      BY <1>5 DEF Deactivate
    <2>2. manifest.version \in DOMAIN manifest.history
      BY RuleAssumption DEF RuleInv, TypeOK, Kept, Activations
    <2>3. kept \in SUBSET Entry /\ (\A e \in kept : Listed(e))
          /\ \A e, f \in kept : SameId(e, f) => e = f
      BY <2>2 DEF RuleInv, TypeOK, ManifestIsTrue
    <2> HIDE DEF kept
    <2> QED BY <2>1, <2>3, CommitInv
  <1>6. ASSUME NEW a \in DOMAIN manifest.history, Rollback(u, a)
        PROVE  RuleInv'
    <2>1. Expected(u) /\ Commit(manifest.history[a]) /\ UNCHANGED <<draftVars, pending, userVars, worldVars>>
      BY <1>6 DEF Rollback
    <2>2. manifest.history[a] \in SUBSET Entry /\ (\A e \in manifest.history[a] : Listed(e))
          /\ \A e, f \in manifest.history[a] : SameId(e, f) => e = f
      BY DEF RuleInv, TypeOK, ManifestIsTrue
    <2> QED BY <2>1, <2>2, CommitInv
  <1> QED BY <1>1, <1>2, <1>3, <1>4, <1>5, <1>6 DEF Operate

-----------------------------------------------------------------------------
(* The rest of the world. *)

\* A changed file is known to be changed, and was there before.
LEMMA DamageInv ==
  ASSUME RuleInv, NEW d \in Drafts, NEW v \in Versions, NEW x \in Tampered, Damage(d, v, x)
  PROVE  RuleInv'
  <1>1. /\ files[<<d, v>>] # NoFile /\ files' = [files EXCEPT ![<<d, v>>] = x]
        /\ damaged' = damaged \cup {<<d, v>>}
        /\ UNCHANGED <<drafts, writer, reviewed, manifest, pending, seen, viewed, canonical, late>>
    BY DEF Damage, activeVars, userVars
  <1>2. files' \in [Drafts \X Versions -> Rules \cup {NoFile}]
        /\ \A y \in Drafts, w \in Versions :
              y # d \/ w # v => /\ files'[<<y, w>>] = files[<<y, w>>]
                                /\ <<y, w>> \in damaged' <=> <<y, w>> \in damaged
    BY <1>1, RuleAssumption DEF RuleInv, TypeOK
  <1>3. TypeOK'
    BY <1>1, <1>2 DEF RuleInv, TypeOK
  <1>4. FilesAreTrue'
    <2>1. ASSUME NEW y \in Drafts, NEW w \in Versions
          PROVE  /\ drafts[y] = None \/ w > drafts[y].version => files'[<<y, w>>] = NoFile
                 /\ drafts[y] # None /\ <<y, w>> \notin damaged' =>
                      /\ w = drafts[y].version => files'[<<y, w>>] \in {NoFile, drafts[y].rule}
                      /\ \A p \in drafts[y].publications : p.version = w => files'[<<y, w>>] = p.rule
      <3>1. CASE y = d /\ w = v
        <4>1. <<y, w>> \in damaged'
          BY <1>1, <3>1
        <4>2. ~(drafts[y] = None \/ w > drafts[y].version)
          BY <1>1, <3>1 DEF RuleInv, FilesAreTrue
        <4> QED BY <4>1, <4>2
      <3>2. CASE y # d \/ w # v
        <4>1. files'[<<y, w>>] = files[<<y, w>>]
          BY <1>2, <3>2
        <4>2. <<y, w>> \notin damaged' => <<y, w>> \notin damaged
          BY <1>2, <3>2
        <4> QED BY <4>1, <4>2 DEF RuleInv, FilesAreTrue
      <3> QED BY <3>1, <3>2
    <2> QED BY <1>1, <2>1 DEF FilesAreTrue
  <1>5. WriterIsCurrent'
    <2>1. ASSUME writer # NoUser
          PROVE  \/ <<seen[writer].draft, seen[writer].version>> \in damaged'
                 \/ files'[<<seen[writer].draft, seen[writer].version>>] = drafts[seen[writer].draft].rule
      <3>1. seen[writer].draft \in Drafts /\ seen[writer].version \in Versions
        BY <2>1, SeenTypes DEF RuleInv, WriterIsCurrent, TypeOK
      <3>2. \/ <<seen[writer].draft, seen[writer].version>> \in damaged
            \/ files[<<seen[writer].draft, seen[writer].version>>] = drafts[seen[writer].draft].rule
        BY <2>1 DEF RuleInv, WriterIsCurrent
      <3> QED BY <1>1, <1>2, <3>1, <3>2
    <2> QED BY <1>1, <2>1 DEF RuleInv, WriterIsCurrent, MayPublish, Owners
  <1> QED
    BY <1>1, <1>3, <1>4, <1>5
    DEF RuleInv, PublishedWasReviewed, ReviewedBy, DraftsAreTrue, ReadingsAreTrue, PublicationsAreTrue,
        ManifestIsTrue, Listed, SameId

\* What a new release takes over is noted as late.
LEMMA UpgradeInv ==
  ASSUME RuleInv, NEW i \in NewIds, Upgrade(i)
  PROVE  RuleInv'
  <1>1. /\ writer = NoUser /\ canonical' = canonical \cup {i}
        /\ late' = late \cup {j \in RuleIds : Fold[j] = Fold[i] /\ Owners(j) # {}}
        /\ UNCHANGED <<drafts, files, writer, reviewed, manifest, pending, seen, viewed, damaged>>
    BY DEF Upgrade, draftVars, activeVars, userVars
  <1>2. TypeOK'
    BY <1>1, RuleAssumption DEF RuleInv, TypeOK
  <1>3. PublicationsAreTrue'
    <2>1. ASSUME NEW d \in Drafts, drafts[d] # None, NEW p \in drafts[d].publications,
                 Fold[p.rule.id] \in {Fold[j] : j \in canonical'}
          PROVE  p.rule.id \in late'
      <3>1. p.rule.id \in RuleIds
        BY <2>1, DraftTypes DEF RuleInv
      <3>2. CASE Fold[p.rule.id] = Fold[i]
        <4>1. d \in Owners(p.rule.id)
          BY <2>1 DEF Owners
        <4> QED BY <1>1, <3>1, <3>2, <4>1
      <3>3. CASE Fold[p.rule.id] # Fold[i]
        <4>1. Fold[p.rule.id] \in {Fold[j] : j \in canonical}
          BY <1>1, <2>1, <3>3
        <4> QED BY <1>1, <2>1, <4>1 DEF RuleInv, PublicationsAreTrue
      <3> QED BY <3>2, <3>3
    <2> QED BY <1>1, <2>1 DEF RuleInv, PublicationsAreTrue
  <1> QED
    BY <1>1, <1>2, <1>3
    DEF RuleInv, PublishedWasReviewed, ReviewedBy, DraftsAreTrue, ReadingsAreTrue, FilesAreTrue,
        WriterIsCurrent, ManifestIsTrue, Listed, SameId

\* Every step preserves the invariant.
LEMMA NextInv == RuleInv /\ [Next]_vars => RuleInv'
  <1> SUFFICES ASSUME RuleInv, [Next]_vars PROVE RuleInv'
    OBVIOUS
  <1>1. ASSUME NEW u \in Users, Author(u) PROVE RuleInv'
    <2>1. PICK d \in Drafts :
             \/ ReadDraft(u, d)
             \/ \E r \in Rules : CreateDraft(u, d, r) \/ UpdateDraft(u, d, r)
             \/ ValidateDraft(u, d)
      BY <1>1 DEF Author
    <2>2. ASSUME ValidateDraft(u, d) PROVE RuleInv'
      <3>1. drafts[d] # None /\ drafts[d].rule \in Rules
        BY <2>2, CurrentDraft, DraftTypes DEF ValidateDraft, RuleInv
      <3> QED BY <2>2, <3>1, WriteInv
    <2> QED BY <2>1, <2>2, ReadDraftInv, WriteInv
  <1>2. ASSUME NEW u \in Users, Reviewing(u) PROVE RuleInv'
    BY <1>2, ApproveInv, PublishFileInv, PublishIndexInv, InterruptedInv DEF Reviewing
  <1>3. ASSUME NEW u \in Users, Operate(u) PROVE RuleInv'
    BY <1>3, OperateInv
  <1>4. CASE World
    BY <1>4, DamageInv, UpgradeInv DEF World
  <1>5. CASE UNCHANGED vars
    <2>1. UNCHANGED <<drafts, files, writer, reviewed, manifest, pending, seen, viewed, canonical,
                      damaged, late>>
      BY <1>5 DEF vars, draftVars, activeVars, userVars, worldVars
    <2>2. TypeOK'
      BY <2>1 DEF RuleInv, TypeOK
    <2>3. PublishedWasReviewed' /\ DraftsAreTrue'
      BY <2>1 DEF RuleInv, PublishedWasReviewed, ReviewedBy, DraftsAreTrue
    <2>4. ReadingsAreTrue' /\ FilesAreTrue' /\ PublicationsAreTrue'
      BY <2>1 DEF RuleInv, ReadingsAreTrue, FilesAreTrue, PublicationsAreTrue
    <2>5. WriterIsCurrent'
      BY <2>1 DEF RuleInv, WriterIsCurrent, MayPublish, Owners
    <2>6. ManifestIsTrue'
      BY <2>1 DEF RuleInv, ManifestIsTrue, Listed, SameId
    <2> QED BY <2>2, <2>3, <2>4, <2>5, <2>6 DEF RuleInv
  <1> QED BY <1>1, <1>2, <1>3, <1>4, <1>5 DEF Next

-----------------------------------------------------------------------------
\* Only reviewed rules are published, and drafts, readings, files and manifest
\* agree, whoever authors, reviews, operates and upgrades at the same time.
THEOREM RuleInvariant == Spec => []RuleInv
  BY InitInv, NextInv, PTL DEF Spec

\* Whatever happened to the files of the active rules, what an analysis loads was
\* reviewed by somebody other than its author or by an administrator.
THEOREM OnlyReviewedRulesRun == Spec => []RunsReviewedRules
  <1>1. RuleInv => RunsReviewedRules
    <2> SUFFICES ASSUME RuleInv, NEW e \in manifest.active, Listed(e), Verified(e)
                 PROVE  \E a \in reviewed : ReviewedBy(a.draft, files[<<e.draft, e.version>>], a)
      BY DEF RunsReviewedRules, LoadSucceeds, LoadedRules
    <2>1. e.draft \in Drafts
      BY DEF RuleInv, TypeOK, Entry
    <2>2. PICK a \in reviewed : ReviewedBy(e.draft, e.rule, a)
      BY <2>1 DEF Listed, RuleInv, PublishedWasReviewed
    <2> QED BY <2>2 DEF Verified, ReviewedBy
  <1> QED BY <1>1, RuleInvariant, PTL

\* A publish that was cut off can be repeated in every reachable state.
THEOREM PublishIsRepeatable == Spec => []RetryIsPossible
  <1>1. RuleInv => RetryIsPossible
    <2> SUFFICES ASSUME RuleInv, NEW d \in Drafts, drafts[d] # None,
                        <<d, drafts[d].version>> \notin damaged
                 PROVE  files[<<d, drafts[d].version>>] \in {NoFile, drafts[d].rule}
      BY DEF RetryIsPossible
    <2>1. drafts[d].version \in Versions
      BY DraftTypes DEF RuleInv
    <2> QED BY <2>1 DEF RuleInv, FilesAreTrue
  <1> QED BY <1>1, RuleInvariant, PTL

\* No sequence of activations, deactivations, rollbacks, publications and
\* releases leads to rules that stop every analysis, unless one of their files
\* was touched or one of their identifiers taken over by a later release.
THEOREM NoManifestStopsAnalyses == Spec => []HistoryRuns
  <1>1. RuleInv => HistoryRuns
    <2> SUFFICES ASSUME RuleInv, NEW a \in DOMAIN manifest.history,
                        \A e \in manifest.history[a] : /\ <<e.draft, e.version>> \notin damaged
                                                       /\ e.rule.id \notin late
                 PROVE  RunPossible(manifest.history[a])
      BY DEF HistoryRuns
    <2> DEFINE active == manifest.history[a]
    <2>1. ASSUME NEW e \in active
          PROVE  /\ Listed(e) /\ Verified(e)
                 /\ Fold[e.rule.id] \notin {Fold[i] : i \in canonical}
      <3>1. e \in Entry /\ e.draft \in Drafts /\ e.version \in Versions
        BY DEF RuleInv, TypeOK, Entry
      <3> DEFINE p == [version |-> e.version, rule |-> e.rule]
      <3>2. drafts[e.draft] # None /\ p \in drafts[e.draft].publications /\ Listed(e)
        BY DEF RuleInv, ManifestIsTrue, Listed
      <3>3. p.version = e.version /\ p.rule = e.rule
        OBVIOUS
      <3> HIDE DEF p
      <3>4. files[<<e.draft, e.version>>] = e.rule
        BY <3>1, <3>2, <3>3 DEF RuleInv, FilesAreTrue
      <3>5. e.rule \in Loadable
        BY <3>1, <3>2, <3>3 DEF RuleInv, PublishedWasReviewed
      <3>6. Fold[e.rule.id] \notin {Fold[i] : i \in canonical}
        BY <3>1, <3>2, <3>3 DEF RuleInv, PublicationsAreTrue
      <3> QED BY <3>2, <3>4, <3>5, <3>6 DEF Verified
    <2>2. \A e, f \in active : SameId(e, f) => e = f
      BY DEF RuleInv, ManifestIsTrue
    <2>3. \A e \in active : files[<<e.draft, e.version>>] = e.rule
      BY <2>1 DEF Verified
    <2>4. LoadSucceeds(active)
      BY <2>1, <2>2 DEF LoadSucceeds
    <2>5. PipelineAccepts(LoadedRules(active))
      <3>1. ASSUME NEW r \in LoadedRules(active), NEW q \in LoadedRules(active)
            PROVE  /\ Fold[r.id] \notin {Fold[i] : i \in canonical}
                   /\ Fold[r.id] = Fold[q.id] => r = q
        <4>1. PICK e \in active, f \in active : r = e.rule /\ q = f.rule
          BY <2>3, <3>1 DEF LoadedRules
        <4> QED BY <2>1, <2>2, <4>1 DEF SameId
      <3> QED BY <3>1 DEF PipelineAccepts
    <2> QED BY <2>4, <2>5 DEF RunPossible
  <1> QED BY <1>1, RuleInvariant, PTL

-----------------------------------------------------------------------------
(* Who publishes an identifier, and who changes what. *)

\* Only the second write of publish adds a publication.
LEMMA PublicationsStay ==
  ASSUME RuleInv, [Next]_vars, ~(\E u \in Users, d \in Drafts : PublishIndex(u, d)),
         NEW x \in Drafts, drafts'[x] # None, NEW p \in drafts'[x].publications
  PROVE  drafts[x] # None /\ p \in drafts[x].publications
  <1>1. CASE UNCHANGED drafts
    BY <1>1
  <1>2. ASSUME NEW u \in Users, NEW d \in Drafts, NEW rule \in Rules, CreateDraft(u, d, rule)
        PROVE  drafts[x] # None /\ p \in drafts[x].publications
    <2>1. drafts'[d].publications = {} /\ \A y \in Drafts : y # d => drafts'[y] = drafts[y]
      BY <1>2 DEF CreateDraft, Written, RuleInv, TypeOK
    <2> QED BY <2>1
  <1>3. ASSUME NEW u \in Users, NEW d \in Drafts,
               \/ \E rule \in Rules : UpdateDraft(u, d, rule)
               \/ ValidateDraft(u, d) \/ ApproveDraft(u, d)
        PROVE  drafts[x] # None /\ p \in drafts[x].publications
    <2>1. Current(u, d)
      BY <1>3 DEF UpdateDraft, ValidateDraft, ApproveDraft
    <2>2. drafts[d] # None /\ drafts[d] \in Draft
      BY <2>1, CurrentDraft
    <2>3. drafts'[d].publications = drafts[d].publications /\ (x # d => drafts'[x] = drafts[x])
      BY <1>3, <2>2, ZenonT(40) DEF UpdateDraft, ValidateDraft, ApproveDraft, Written, RuleInv, TypeOK, Draft
    <2> QED BY <2>2, <2>3
  <1>4. \/ UNCHANGED drafts
        \/ \E u \in Users, d \in Drafts, rule \in Rules : CreateDraft(u, d, rule)
        \/ \E u \in Users, d \in Drafts :
              \/ \E rule \in Rules : UpdateDraft(u, d, rule)
              \/ ValidateDraft(u, d) \/ ApproveDraft(u, d)
    BY DEF Next, vars, draftVars, Author, Reviewing, Operate, World, ReadDraft, PublishFile,
           PublishInterrupted, ReadManifest, ActivateCheck, ActivateCommit, ActivateRefused,
           Deactivate, Rollback, Damage, Upgrade
  <1> QED BY <1>1, <1>2, <1>3, <1>4

\* Two drafts never publish the same identifier: the check of the owners still
\* holds when the drafts are written.
THEOREM OneOwner == Spec => []OneDraftPerId
  <1>1. Init => OneDraftPerId
    BY DEF Init, OneDraftPerId
  <1>2. RuleInv /\ OneDraftPerId /\ [Next]_vars => OneDraftPerId'
    <2> SUFFICES ASSUME RuleInv, OneDraftPerId, [Next]_vars PROVE OneDraftPerId'
      OBVIOUS
    <2>1. CASE ~(\E u \in Users, d \in Drafts : PublishIndex(u, d))
      BY <2>1, PublicationsStay DEF OneDraftPerId
    <2>2. ASSUME NEW u \in Users, NEW d \in Drafts, PublishIndex(u, d)
          PROVE  OneDraftPerId'
      <3>1. /\ drafts[d] # None /\ Owners(drafts[d].rule.id) \subseteq {d}
            /\ \A y \in Drafts : y # d => drafts'[y] = drafts[y]
            /\ \A p \in drafts'[d].publications :
                  p \in drafts[d].publications \/ p.rule = drafts[d].rule
        <4>1. writer = u /\ writer # NoUser /\ seen[u].draft = d
          BY <2>2, RuleAssumption DEF PublishIndex
        <4>2. drafts[d] # None /\ MayPublish(d)
          BY <4>1 DEF RuleInv, WriterIsCurrent
        <4>3. drafts[d] \in Draft
          BY <4>2, DraftTypes DEF RuleInv
        <4>4. \A y \in Drafts : y # d => drafts'[y] = drafts[y]
          BY <2>2 DEF PublishIndex, Written, RuleInv, TypeOK
        <4>5. drafts'[d].publications \subseteq
                 drafts[d].publications \cup {[version |-> drafts[d].version, rule |-> drafts[d].rule]}
          BY <2>2, <4>3 DEF PublishIndex, Written, RuleInv, TypeOK, Draft
        <4> QED BY <4>2, <4>4, <4>5 DEF MayPublish
      <3>2. ASSUME NEW y \in Drafts, y # d, drafts[y] # None, NEW p \in drafts[y].publications,
                   NEW q \in drafts'[d].publications
            PROVE  Fold[p.rule.id] # Fold[q.rule.id]
        <4>1. CASE q \in drafts[d].publications
          BY <3>1, <3>2, <4>1 DEF OneDraftPerId
        <4>2. CASE q.rule = drafts[d].rule
          BY <3>1, <3>2, <4>2 DEF Owners
        <4> QED BY <3>1, <3>2, <4>1, <4>2
      <3>3. ASSUME NEW d1 \in Drafts, NEW d2 \in Drafts, d1 # d2, drafts'[d1] # None,
                   drafts'[d2] # None, NEW p \in drafts'[d1].publications,
                   NEW q \in drafts'[d2].publications
            PROVE  Fold[p.rule.id] # Fold[q.rule.id]
        <4>1. CASE d1 = d
          BY <3>1, <3>2, <3>3, <4>1
        <4>2. CASE d2 = d
          BY <3>1, <3>2, <3>3, <4>2
        <4>3. CASE d1 # d /\ d2 # d
          BY <3>1, <3>3, <4>3 DEF OneDraftPerId
        <4> QED BY <4>1, <4>2, <4>3
      <3> QED BY <3>3 DEF OneDraftPerId
    <2> QED BY <2>1, <2>2
  <1> QED BY <1>1, <1>2, InitInv, NextInv, PTL DEF Spec

\* Nobody overwrites a draft's rule or the active rules without having read them:
\* knowing the version is knowing the contents.
THEOREM NothingUnseenIsReplaced == Spec => CommitsWhatWasSeen
  <1> DEFINE Seeing ==
        /\ \A d \in Drafts :
              (drafts[d] # None /\ drafts'[d].rule # drafts[d].rule) =>
                  \E u \in Users : /\ seen[u] # None /\ seen[u].draft = d
                                   /\ seen[u].rule = drafts[d].rule
        /\ manifest'.active # manifest.active =>
              \E u \in Users : viewed[u].active = manifest.active
  <1>1. RuleInv /\ [Next]_vars => Seeing
    <2> SUFFICES ASSUME RuleInv, [Next]_vars PROVE Seeing
      OBVIOUS
    <2>1. ASSUME NEW d \in Drafts, drafts[d] # None, drafts'[d].rule # drafts[d].rule
          PROVE  \E u \in Users : /\ seen[u] # None /\ seen[u].draft = d
                                  /\ seen[u].rule = drafts[d].rule
      <3>1. \/ UNCHANGED drafts
            \/ \E u \in Users, x \in Drafts, rule \in Rules :
                  CreateDraft(u, x, rule) \/ UpdateDraft(u, x, rule)
            \/ \E u \in Users, x \in Drafts :
                  ValidateDraft(u, x) \/ ApproveDraft(u, x) \/ PublishIndex(u, x)
        BY DEF Next, vars, draftVars, Author, Reviewing, Operate, World, ReadDraft, PublishFile,
               PublishInterrupted, ReadManifest, ActivateCheck, ActivateCommit, ActivateRefused,
               Deactivate, Rollback, Damage, Upgrade
      <3>2. ASSUME NEW u \in Users, NEW x \in Drafts, NEW rule \in Rules, UpdateDraft(u, x, rule)
            PROVE  x = d /\ seen[u] # None /\ seen[u].draft = d /\ seen[u].rule = drafts[d].rule
        <4>1. Current(u, x) /\ (x # d => drafts'[d] = drafts[d])
          BY <3>2 DEF UpdateDraft, Written, RuleInv, TypeOK
        <4> QED BY <2>1, <4>1, CurrentDraft DEF Current
      <3>3. ASSUME NEW u \in Users, NEW x \in Drafts, NEW rule \in Rules, CreateDraft(u, x, rule)
            PROVE  FALSE
        <4>1. x # d /\ drafts'[d] = drafts[d]
          BY <2>1, <3>3 DEF CreateDraft, Written, RuleInv, TypeOK
        <4> QED BY <2>1, <4>1
      <3>4. ASSUME NEW u \in Users, NEW x \in Drafts,
                   ValidateDraft(u, x) \/ ApproveDraft(u, x) \/ PublishIndex(u, x)
            PROVE  FALSE
        <4>1. x # d => drafts'[d] = drafts[d]
          BY <3>4 DEF ValidateDraft, ApproveDraft, PublishIndex, Written, RuleInv, TypeOK
        <4>2. drafts[d] \in Draft
          BY <2>1, DraftTypes DEF RuleInv
        <4>3. CASE ValidateDraft(u, x) \/ ApproveDraft(u, x)
          <5>1. \/ Written(x, [drafts[x] EXCEPT !.status = "validated",
                                                !.validated = drafts[x].version,
                                                !.approval = NoApproval])
                \/ Written(x, [drafts[x] EXCEPT
                                  !.status = "approved",
                                  !.approval = [version |-> drafts[x].version, by |-> u]])
            BY <4>3 DEF ValidateDraft, ApproveDraft
          <5>2. \A new : Written(x, new) /\ x = d => drafts'[d] = new
            BY DEF Written, RuleInv, TypeOK
          <5>3. x = d => drafts'[d].rule = drafts[d].rule
            BY <4>2, <5>1, <5>2 DEF Draft
          <5> QED BY <2>1, <4>1, <5>3
        <4>4. CASE PublishIndex(u, x)
          <5>1. ASSUME x = d
                PROVE  drafts'[d].rule = drafts[d].rule
            <6> DEFINE listed == {p \in drafts[d].publications : p.version = drafts[d].version}
                       pub == [version |-> drafts[d].version, rule |-> drafts[d].rule]
                       listings == IF listed = {} THEN drafts[d].publications \cup {pub}
                                                  ELSE drafts[d].publications
            <6>1. drafts' = [drafts EXCEPT ![d] = [drafts[d] EXCEPT !.status = "published",
                                                                    !.publications = listings]]
              BY <4>2, <4>4, <5>1 DEF PublishIndex, Written, Draft
            <6> HIDE DEF listings
            <6> QED BY <4>2, <6>1 DEF RuleInv, TypeOK, Draft
          <5> QED BY <2>1, <4>1, <5>1
        <4> QED BY <3>4, <4>3, <4>4
      <3> QED BY <2>1, <3>1, <3>2, <3>3, <3>4
    <2>2. ASSUME manifest'.active # manifest.active
          PROVE  \E u \in Users : viewed[u].active = manifest.active
      <3>1. ASSUME NEW u \in Users, Author(u) \/ Reviewing(u)
            PROVE  UNCHANGED manifest
        BY <3>1 DEF activeVars, Author, Reviewing, ReadDraft, CreateDraft, UpdateDraft,
                    ValidateDraft, ApproveDraft, PublishFile, PublishIndex, PublishInterrupted, Written
      <3>2. ASSUME NEW u \in Users, Operate(u)
            PROVE  UNCHANGED manifest \/ Expected(u)
        BY <3>2 DEF activeVars, Operate, ReadManifest, ActivateCheck, ActivateCommit,
                    ActivateRefused, Deactivate, Rollback
      <3>3. World \/ UNCHANGED vars => UNCHANGED manifest
        BY DEF World, Damage, Upgrade, vars, activeVars
      <3>4. PICK u \in Users : Expected(u)
        BY <2>2, <3>1, <3>2, <3>3 DEF Next
      <3> QED BY <3>4 DEF Expected, RuleInv, ReadingsAreTrue
    <2> QED BY <2>1, <2>2
  <1> QED BY <1>1, RuleInvariant, PTL DEF Spec, CommitsWhatWasSeen
=============================================================================
