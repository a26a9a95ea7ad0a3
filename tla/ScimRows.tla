------------------------------ MODULE ScimRows ------------------------------
(***************************************************************************)
(* The users and nested groups of the SCIM directory, what an OIDC user    *)
(* may do by them, and each operation as a function of the rows a mutation *)
(* has loaded (api/services/scim_directory.py, scim_groups.py).            *)
(***************************************************************************)
EXTENDS Integers, FiniteSets

CONSTANTS
    UserIds, GroupIds,
    Subjects,       \* OIDC subjects, the externalId of users
    NoSubject,
    Names,
    Fold,           \* str.casefold on names
    Assignments,    \* pairs of role and organization
    NoAssignment,
    None

User  == [name : Names, subject : Subjects \cup {NoSubject},
          active : BOOLEAN, assignment : Assignments \cup {NoAssignment}]
Group == [name : Names, members : SUBSET (UserIds \cup GroupIds),
          assignment : Assignments \cup {NoAssignment}]
Store == [users : [UserIds -> User \cup {None}],
          groups : [GroupIds -> Group \cup {None}]]

\* Operations refer to a resource of an earlier or later POST of their list by
\* its position there, the bulkId.
IsReference(x) == x \in Nat

ASSUME RowsAssumption ==
    /\ UserIds \cap GroupIds = {}
    /\ (UserIds \cup GroupIds) \cap Nat = {}
    /\ NoSubject \notin Subjects
    /\ NoAssignment \notin Assignments
    /\ None \notin User \cup Group \cup Assignments
    /\ None \notin UserIds \cup GroupIds \cup Nat
    /\ Fold \in [Names -> Names]
    /\ IsFiniteSet(GroupIds)

-----------------------------------------------------------------------------
(* The rows and their rules.                                               *)

Existing(rows) == {id \in DOMAIN rows : rows[id] # None}

\* No group is, through others, a member of itself: in every set of groups one
\* has no member there (visit, in _validate_group_graph).
Acyclic(groups) ==
    \A S \in SUBSET Existing(groups) :
        S # {} => \E g \in S : groups[g].members \cap S = {}

MembersExist(s) ==
    \A g \in Existing(s.groups) :
        s.groups[g].members \subseteq Existing(s.users) \cup Existing(s.groups)

\* Mutant of UniqueUser: names are compared as they are spelled.
UniqueUserExact(users, id, row) ==
    \A u \in Existing(users) \ {id} :
        /\ users[u].name # row.name
        /\ row.subject # NoSubject => users[u].subject # row.subject

\* _check_uniqueness, of users
UniqueUser(users, id, row) ==
    \A u \in Existing(users) \ {id} :
        /\ Fold[users[u].name] # Fold[row.name]
        /\ row.subject # NoSubject => users[u].subject # row.subject

\* ... and of groups
UniqueGroup(groups, id, row) ==
    \A g \in Existing(groups) \ {id} : Fold[groups[g].name] # Fold[row.name]

\* Mutant of Upward: membership is not inherited.
UpwardDirect(u, groups) ==
    {g \in Existing(groups) : u \in groups[g].members}

\* The groups a user belongs to, directly or through other groups: the groups
\* that hold the user, then those that hold one of these, and so on.
Upward(u, groups) ==
    LET up[n \in 0..Cardinality(GroupIds)] ==
            IF n = 0 THEN {g \in Existing(groups) : u \in groups[g].members}
            ELSE up[n-1] \cup {g \in Existing(groups) :
                                  groups[g].members \cap up[n-1] # {}}
    IN  up[Cardinality(GroupIds)]

\* _resolved_identity: the one assignment an active user has, if it is one.
Identity(s, u) ==
    LET given == ({s.users[u].assignment}
                    \cup {s.groups[g].assignment : g \in Upward(u, s.groups)})
                 \ {NoAssignment}
    IN  IF /\ s.users[u].active
           /\ Acyclic(s.groups)
           /\ Cardinality(given) = 1
        THEN CHOOSE a \in given : TRUE
        ELSE None

\* find_by_oidc_subject and oidc_identity
SubjectIdentity(s, x) ==
    LET found == {u \in Existing(s.users) : s.users[u].subject = x}
    IN  IF found = {} THEN None ELSE Identity(s, CHOOSE u \in found : TRUE)

-----------------------------------------------------------------------------
(* Operations, as functions of the rows a mutation has loaded.             *)

\* An operation is [method, res, id, data]: id is None for POST; data gives a
\* row for POST and PUT and some of its fields for PATCH, which may also add
\* or remove members.
Has(data, field) == field \in DOMAIN data

\* The identifiers and members an operation refers to by position.
Mentioned(op) ==
    {op.id} \cup (IF Has(op.data, "members") THEN op.data.members ELSE {})
            \cup (IF Has(op.data, "add") THEN op.data.add ELSE {})

References(op) == {x \in Mentioned(op) : IsReference(x)}

\* The fields of a row of that kind.
Fields(res) == {"name", "assignment"} \cup
    (IF res = "User" THEN {"subject", "active"} ELSE {"members"})

\* What _validate_request, _resource_from_payload and _group_from_payload let
\* through: fields have values of their kind, and a POST or PUT gives them all.
IsOperation(op) ==
    /\ op.method \in {"POST", "PUT", "PATCH", "DELETE"}
    /\ op.res \in {"User", "Group"}
    /\ op.method \in {"POST", "PUT"} => Fields(op.res) \subseteq DOMAIN op.data
    /\ Has(op.data, "name") => op.data.name \in Names
    /\ Has(op.data, "subject") => op.data.subject \in Subjects \cup {NoSubject}
    /\ Has(op.data, "active") => op.data.active \in BOOLEAN
    /\ Has(op.data, "assignment")
          => op.data.assignment \in Assignments \cup {NoAssignment}
    /\ \A f \in {"members", "add"} :
          Has(op.data, f) => op.data[f] \subseteq UserIds \cup GroupIds \cup Nat

\* _resolve_bulk_id
Resolve(x, ids) == IF IsReference(x) THEN ids[x] ELSE x
ResolveAll(S, ids) == {Resolve(x, ids) : x \in S}

\* A field of the request, or the one the row has.
Given(data, field, row) == IF Has(data, field) THEN data[field] ELSE row[field]

\* _apply_patch_value and _resource_from_payload
PatchedUser(row, data) ==
    [name |-> Given(data, "name", row), subject |-> Given(data, "subject", row),
     active |-> Given(data, "active", row),
     assignment |-> Given(data, "assignment", row)]

\* ... and _group_from_payload
PatchedGroup(row, data, ids) ==
    [name |-> Given(data, "name", row),
     assignment |-> Given(data, "assignment", row),
     members |-> ((IF Has(data, "members") THEN ResolveAll(data.members, ids)
                                           ELSE row.members)
                   \cup (IF Has(data, "add") THEN ResolveAll(data.add, ids)
                                             ELSE {}))
                 \ (IF Has(data, "remove") THEN data.remove ELSE {})]

UserAccepted(s, id, row) ==
    /\ row.active => row.subject # NoSubject
    /\ UniqueUser(s.users, id, row)

WithUser(s, id, row) == [s EXCEPT !.users[id] = row]
WithGroup(s, id, row) == [s EXCEPT !.groups[id] = row]

\* Mutant of GroupAccepted: only the group at hand is looked at.
GroupAcceptedAlone(s, id, row) ==
    /\ UniqueGroup(s.groups, id, row)
    /\ row.members \subseteq (Existing(s.users) \cup Existing(s.groups)) \ {id}

\* _validate_group_graph, on all groups
GroupAccepted(s, id, row) ==
    /\ UniqueGroup(s.groups, id, row)
    /\ MembersExist(WithGroup(s, id, row))
    /\ Acyclic(WithGroup(s, id, row).groups)

\* remove_user_references, and the same for a group
Without(groups, id) ==
    [g \in GroupIds |-> IF groups[g] = None THEN None
                        ELSE [groups[g] EXCEPT !.members = @ \ {id}]]

\* get_user and get_group before a change: a group with a missing member is
\* an error.
Readable(s, op, id) ==
    IF op.res = "User" THEN id \in Existing(s.users)
    ELSE /\ id \in Existing(s.groups)
         /\ s.groups[id].members
               \subseteq Existing(s.users) \cup Existing(s.groups)

\* The rows after an operation, and whether it is accepted.
Row(s, op, id, ids) ==
    IF op.res = "User"
    THEN PatchedUser(s.users[id], op.data)
    ELSE PatchedGroup(s.groups[id], op.data, ids)

After(s, op, id, ids) ==
    CASE op.method # "DELETE" /\ op.res = "User" ->
            WithUser(s, id, Row(s, op, id, ids))
      [] op.method # "DELETE" /\ op.res = "Group" ->
            WithGroup(s, id, Row(s, op, id, ids))
      [] op.method = "DELETE" /\ op.res = "User" ->
            [users |-> [s.users EXCEPT ![id] = None],
             groups |-> Without(s.groups, id)]
      [] op.method = "DELETE" /\ op.res = "Group" ->
            [s EXCEPT !.groups = Without([@ EXCEPT ![id] = None], id)]

Accepted(s, op, id, ids) ==
    /\ op.method # "POST" => Readable(s, op, id)
    /\ (op.method # "DELETE" /\ op.res = "User") =>
            UserAccepted(s, id, Row(s, op, id, ids))
    /\ (op.method # "DELETE" /\ op.res = "Group") =>
            GroupAccepted(s, id, Row(s, op, id, ids))
=============================================================================
