------------------------ MODULE ScimDirectoryProofs ------------------------
(* The directory for any users, groups, clients, requests and backends: its  *)
(* rows stay sound, no update is lost, identities and sessions are those the *)
(* rows give, and lists of operations are answered in full.                  *)
EXTENDS ScimDirectory, FiniteSetTheorems, TLAPS

(* The operations as functions of the rows.                                  *)

IdsOf(op) == IF op.res = "User" THEN UserIds ELSE GroupIds

\* Whatever operation is accepted, its row has the right type.
LEMMA RowType ==
  ASSUME NEW s \in Store, NEW op, IsOperation(op), op.method # "DELETE",
         NEW id, op.method = "POST" => id \in IdsOf(op),
         NEW ids, \A x \in References(op) : ids[x] \in UserIds \cup GroupIds,
         Accepted(s, op, id, ids)
  PROVE  /\ id \in IdsOf(op)
         /\ op.res = "User" => Row(s, op, id, ids) \in User
         /\ op.res = "Group" => Row(s, op, id, ids) \in Group
  <1>0. /\ s.users \in [UserIds -> User \cup {None}]
        /\ s.groups \in [GroupIds -> Group \cup {None}]
    BY DEF Store
  <1>1. op.method # "POST" => Readable(s, op, id)
    BY DEF Accepted
  <1>2. id \in IdsOf(op)
    BY <1>0, <1>1 DEF Readable, IdsOf, Existing, IsOperation
  <1>3. CASE op.res = "User"
    <2>1. op.method # "POST" => s.users[id] \in User
      BY <1>0, <1>1, <1>3 DEF Readable, Existing
    <2> DEFINE row == s.users[id]  d == op.data
    <2>2. /\ Given(d, "name", row) \in Names
          /\ Given(d, "subject", row) \in Subjects \cup {NoSubject}
          /\ Given(d, "active", row) \in BOOLEAN
          /\ Given(d, "assignment", row) \in Assignments \cup {NoAssignment}
      BY <1>3, <2>1 DEF Given, Has, IsOperation, Fields, User
    <2>3. Row(s, op, id, ids) \in User
      BY <1>3, <2>2 DEF Row, PatchedUser, User
    <2> QED BY <1>2, <1>3, <2>3
  <1>4. CASE op.res = "Group"
    <2>1. op.method # "POST" => s.groups[id] \in Group
      BY <1>0, <1>1, <1>4 DEF Readable, Existing
    <2> DEFINE row == s.groups[id]  d == op.data
    <2>2. /\ Given(d, "name", row) \in Names
          /\ Given(d, "assignment", row) \in Assignments \cup {NoAssignment}
      BY <1>4, <2>1 DEF Given, Has, IsOperation, Fields, Group
    <2>3. Row(s, op, id, ids) = PatchedGroup(row, d, ids)
      BY <1>4 DEF Row
    <2>4. /\ Has(d, "members") => ResolveAll(d.members, ids)
                                      \subseteq UserIds \cup GroupIds
          /\ Has(d, "add") => ResolveAll(d.add, ids)
                                  \subseteq UserIds \cup GroupIds
      BY DEF IsOperation, References, Mentioned, ResolveAll, Resolve,
             IsReference
    <2>5. ~Has(d, "members") => row.members \subseteq UserIds \cup GroupIds
      BY <1>4, <2>1 DEF Has, IsOperation, Fields, Group
    <2>6. PatchedGroup(row, d, ids).members \subseteq UserIds \cup GroupIds
      BY <2>4, <2>5 DEF PatchedGroup
    <2> QED BY <1>2, <1>4, <2>2, <2>3, <2>6 DEF PatchedGroup, Group
  <1> QED BY <1>3, <1>4 DEF IsOperation

\* What an operation that may run has: identifiers for its references, one of
\* its own if it makes a resource, and the consent of the directory.
Runs(s, op, id, ids) ==
    /\ IsOperation(op)
    /\ op.method = "POST" => id \in IdsOf(op)
    /\ \A x \in References(op) : ids[x] \in UserIds \cup GroupIds
    /\ Accepted(s, op, id, ids)

\* The four kinds of change: a user or a group is given a row, a user or a
\* group is removed.
PutsUser(s, op, id, after) ==
    /\ op.method # "DELETE" /\ op.res = "User" /\ id \in UserIds
    /\ \E row \in User :
          /\ UniqueUser(s.users, id, row)
          /\ after = [users |-> [s.users EXCEPT ![id] = row],
                      groups |-> s.groups]

PutsGroup(s, op, id, after) ==
    /\ op.method # "DELETE" /\ op.res = "Group" /\ id \in GroupIds
    /\ \E row \in Group :
          /\ UniqueGroup(s.groups, id, row)
          /\ after = [users |-> s.users,
                      groups |-> [s.groups EXCEPT ![id] = row]]
    /\ MembersExist(after) /\ Acyclic(after.groups)

DropsUser(s, op, id, after) ==
    /\ op.method = "DELETE" /\ op.res = "User" /\ id \in UserIds
    /\ after = [users |-> [s.users EXCEPT ![id] = None],
                groups |-> Without(s.groups, id)]

DropsGroup(s, op, id, after) ==
    /\ op.method = "DELETE" /\ op.res = "Group" /\ id \in GroupIds
    /\ after = [users |-> s.users,
                groups |-> Without([s.groups EXCEPT ![id] = None], id)]

\* Every operation is one of the four.
LEMMA FourChanges ==
  ASSUME NEW s \in Store, NEW op, NEW id, NEW ids, Runs(s, op, id, ids)
  PROVE  \/ PutsUser(s, op, id, After(s, op, id, ids))
         \/ PutsGroup(s, op, id, After(s, op, id, ids))
         \/ DropsUser(s, op, id, After(s, op, id, ids))
         \/ DropsGroup(s, op, id, After(s, op, id, ids))
  <1> DEFINE after == After(s, op, id, ids)
             row == Row(s, op, id, ids)
  <1>0. /\ s = [users |-> s.users, groups |-> s.groups]
        /\ s.users \in [UserIds -> User \cup {None}]
        /\ s.groups \in [GroupIds -> Group \cup {None}]
    BY DEF Store
  <1>1. CASE op.method # "DELETE"
    <2>1. /\ id \in IdsOf(op)
          /\ op.res = "User" => row \in User
          /\ op.res = "Group" => row \in Group
      BY <1>1, RowType DEF Runs
    <2> HIDE DEF row
    <2>2. CASE op.res = "User"
      <3>1. after = [users |-> [s.users EXCEPT ![id] = row],
                     groups |-> s.groups]
        BY <1>0, <1>1, <2>2 DEF After, WithUser, row
      <3>2. UniqueUser(s.users, id, row)
        BY <1>1, <2>2 DEF Runs, Accepted, UserAccepted, row
      <3> QED BY <1>1, <2>1, <2>2, <3>1, <3>2 DEF PutsUser, IdsOf
    <2>3. CASE op.res = "Group"
      <3>1. /\ after = WithGroup(s, id, row)
            /\ after = [users |-> s.users,
                        groups |-> [s.groups EXCEPT ![id] = row]]
        BY <1>0, <1>1, <2>3 DEF After, WithGroup, row
      <3>2. GroupAccepted(s, id, row)
        BY <1>1, <2>3 DEF Runs, Accepted, row
      <3> QED
        BY <1>1, <2>1, <2>3, <3>1, <3>2 DEF PutsGroup, IdsOf, GroupAccepted
    <2> QED BY <2>2, <2>3 DEF Runs, IsOperation
  <1>2. CASE op.method = "DELETE"
    <2>1. Readable(s, op, id)
      BY <1>2 DEF Runs, Accepted
    <2>2. CASE op.res = "User"
      BY <1>0, <1>2, <2>1, <2>2 DEF After, Readable, Existing, DropsUser
    <2>3. CASE op.res = "Group"
      <3>1. id \in GroupIds
        BY <1>0, <1>2, <2>1, <2>3 DEF Readable, Existing
      <3>2. after = [users |-> s.users,
                     groups |-> Without([s.groups EXCEPT ![id] = None], id)]
        BY <1>0, <1>2, <2>3 DEF After
      <3> QED BY <1>2, <2>3, <3>1, <3>2 DEF DropsGroup
    <2> QED BY <2>2, <2>3 DEF Runs, IsOperation
  <1> QED BY <1>1, <1>2

\* Members that are no rows.
Dangling(s) == Members(s) \ (Existing(s.users) \cup Existing(s.groups))

\* Groups without an identifier are groups, and hold it no more.
LEMMA WithoutGroups ==
  ASSUME NEW groups \in [GroupIds -> Group \cup {None}], NEW id
  PROVE  /\ Without(groups, id) \in [GroupIds -> Group \cup {None}]
         /\ Existing(Without(groups, id)) = Existing(groups)
         /\ \A g \in Existing(groups) :
               /\ Without(groups, id)[g].members = groups[g].members \ {id}
               /\ Without(groups, id)[g].name = groups[g].name
         /\ \A g \in GroupIds :
               groups[g] = None \/ id \notin groups[g].members
                  => Without(groups, id)[g] = groups[g]
         /\ Acyclic(groups) => Acyclic(Without(groups, id))
  <1> DEFINE new == Without(groups, id)
  <1>1. ASSUME NEW g \in GroupIds, groups[g] # None
        PROVE  /\ groups[g] \in Group
               /\ new[g] = [groups[g] EXCEPT !.members = @ \ {id}]
    BY <1>1 DEF Without
  <1>2. ASSUME NEW g \in GroupIds, groups[g] # None
        PROVE  /\ new[g] \in Group
               /\ new[g].members = groups[g].members \ {id}
               /\ new[g].name = groups[g].name
               /\ id \notin groups[g].members => new[g] = groups[g]
    <2>1. groups[g] = [name |-> groups[g].name, members |-> groups[g].members,
                       assignment |-> groups[g].assignment]
      BY <1>1, <1>2 DEF Group
    <2>2. new[g] = [name |-> groups[g].name,
                    members |-> groups[g].members \ {id},
                    assignment |-> groups[g].assignment]
      BY <1>1, <1>2, <2>1
    <2>3. id \notin groups[g].members =>
             groups[g].members \ {id} = groups[g].members
      OBVIOUS
    <2> QED BY <1>1, <1>2, <2>1, <2>2, <2>3 DEF Group
  <1>3. \A g \in GroupIds : groups[g] = None => new[g] = None
    BY DEF Without
  <1>4. new \in [GroupIds -> Group \cup {None}]
    BY <1>2, <1>3 DEF Without
  <1>5. Existing(new) = Existing(groups)
    BY <1>2, <1>3, <1>4, RowsAssumption DEF Existing
  <1> HIDE DEF new
  <1>6. Acyclic(groups) => Acyclic(new)
    <2> SUFFICES ASSUME Acyclic(groups), NEW S \in SUBSET Existing(new), S # {}
                 PROVE  \E g \in S : new[g].members \cap S = {}
      BY DEF Acyclic
    <2>1. PICK g \in S : groups[g].members \cap S = {}
      BY <1>5 DEF Acyclic
    <2>2. new[g].members = groups[g].members \ {id}
      BY <1>2, <1>5 DEF Existing
    <2> QED BY <2>1, <2>2
  <1> QED BY <1>2, <1>3, <1>4, <1>5, <1>6 DEF Existing, new

\* A change leaves rows of the right type, no circle and no name twice, and it
\* leaves no member without its row behind.
LEMMA ChangeKeepsRules ==
  ASSUME NEW s \in Store, NEW op, NEW id, NEW after,
         \/ PutsUser(s, op, id, after) \/ PutsGroup(s, op, id, after)
         \/ DropsUser(s, op, id, after) \/ DropsGroup(s, op, id, after)
  PROVE  /\ after \in Store
         /\ Acyclic(s.groups) => Acyclic(after.groups)
         /\ RowsDiffer(s) => RowsDiffer(after)
         /\ Dangling(after) \subseteq Dangling(s) \ {id}
         /\ MembersExist(s) => MembersExist(after)
  <1>0. /\ s = [users |-> s.users, groups |-> s.groups]
        /\ s.users \in [UserIds -> User \cup {None}]
        /\ s.groups \in [GroupIds -> Group \cup {None}]
        /\ None \notin User \cup Group
    BY RowsAssumption DEF Store
  <1>m. ASSUME NEW t \in Store
        PROVE  MembersExist(t) <=> Dangling(t) = {}
    BY DEF MembersExist, Dangling, Members
  <1>1. CASE PutsUser(s, op, id, after)
    <2>1. PICK row \in User :
             /\ UniqueUser(s.users, id, row)
             /\ after = [users |-> [s.users EXCEPT ![id] = row],
                         groups |-> s.groups]
      BY <1>1 DEF PutsUser
    <2>2. id \in UserIds
      BY <1>1 DEF PutsUser
    <2>3. after \in Store
      BY <1>0, <2>1, <2>2 DEF Store
    <2>4. /\ Existing(after.users) = Existing(s.users) \cup {id}
          /\ after.groups = s.groups
          /\ after.users[id] = row
          /\ \A u \in UserIds \ {id} : after.users[u] = s.users[u]
      BY <1>0, <2>1, <2>2 DEF Existing
    <2>5. Dangling(after) \subseteq Dangling(s) \ {id}
      BY <2>4 DEF Dangling, Members
    <2>6. RowsDiffer(s) => RowsDiffer(after)
      <3> SUFFICES ASSUME RowsDiffer(s),
                          NEW u \in Existing(after.users),
                          NEW w \in Existing(after.users), u # w
                   PROVE  /\ Fold[after.users[u].name]
                                # Fold[after.users[w].name]
                          /\ \/ after.users[u].subject # after.users[w].subject
                             \/ after.users[u].subject = NoSubject
        BY <2>4 DEF RowsDiffer
      <3>0. Existing(s.users) \subseteq UserIds
        BY <1>0 DEF Existing
      <3>1. CASE u # id /\ w # id
        BY <2>4, <3>0, <3>1 DEF RowsDiffer
      <3>2. CASE u = id
        <4>1. /\ w \in Existing(s.users) \ {id}
              /\ after.users[w] = s.users[w]
          BY <2>4, <3>0, <3>2
        <4> QED BY <2>1, <2>4, <3>2, <4>1 DEF UniqueUser
      <3>3. CASE w = id
        <4>1. /\ u \in Existing(s.users) \ {id}
              /\ after.users[u] = s.users[u]
          BY <2>4, <3>0, <3>3
        <4> QED BY <2>1, <2>4, <3>3, <4>1 DEF UniqueUser
      <3> QED BY <3>1, <3>2, <3>3
    <2> QED BY <1>m, <2>3, <2>4, <2>5, <2>6
  <1>2. CASE PutsGroup(s, op, id, after)
    <2>1. PICK row \in Group :
             /\ UniqueGroup(s.groups, id, row)
             /\ after = [users |-> s.users,
                         groups |-> [s.groups EXCEPT ![id] = row]]
      BY <1>2 DEF PutsGroup
    <2>2. id \in GroupIds /\ MembersExist(after) /\ Acyclic(after.groups)
      BY <1>2 DEF PutsGroup
    <2>3. after \in Store
      BY <1>0, <2>1, <2>2 DEF Store
    <2>4. /\ Existing(after.groups) = Existing(s.groups) \cup {id}
          /\ after.users = s.users
          /\ after.groups[id] = row
          /\ \A g \in GroupIds \ {id} : after.groups[g] = s.groups[g]
      BY <1>0, <2>1, <2>2 DEF Existing
    <2>5. Dangling(after) = {}
      BY <1>m, <2>2, <2>3
    <2>6. RowsDiffer(s) => RowsDiffer(after)
      <3>0. Existing(s.groups) \subseteq GroupIds
        BY <1>0 DEF Existing
      <3> SUFFICES ASSUME RowsDiffer(s),
                          NEW g \in Existing(after.groups),
                          NEW h \in Existing(after.groups), g # h
                   PROVE  Fold[after.groups[g].name] # Fold[after.groups[h].name]
        BY <2>4 DEF RowsDiffer
      <3>1. CASE g # id /\ h # id
        BY <2>4, <3>0, <3>1 DEF RowsDiffer
      <3>2. CASE g = id \/ h = id
        BY <2>1, <2>4, <3>0, <3>2 DEF UniqueGroup
      <3> QED BY <3>1, <3>2
    <2> QED BY <2>2, <2>3, <2>5, <2>6
  <1>3. CASE DropsUser(s, op, id, after)
    <2>1. /\ after = [users |-> [s.users EXCEPT ![id] = None],
                      groups |-> Without(s.groups, id)]
          /\ id \in UserIds
      BY <1>3 DEF DropsUser
    <2>w. /\ after.groups \in [GroupIds -> Group \cup {None}]
          /\ Existing(after.groups) = Existing(s.groups)
          /\ \A g \in Existing(s.groups) :
                /\ after.groups[g].members = s.groups[g].members \ {id}
                /\ after.groups[g].name = s.groups[g].name
          /\ Acyclic(s.groups) => Acyclic(after.groups)
      BY <1>0, <2>1, WithoutGroups
    <2>3. after \in Store
      BY <1>0, <2>1, <2>w DEF Store
    <2>4. /\ Existing(after.users) = Existing(s.users) \ {id}
          /\ \A u \in UserIds \ {id} : after.users[u] = s.users[u]
      BY <1>0, <2>1 DEF Existing
    <2>5. Dangling(after) \subseteq Dangling(s) \ {id}
      BY <2>w, <2>4 DEF Dangling, Members
    <2>6. RowsDiffer(s) => RowsDiffer(after)
      <3>0. Existing(s.users) \subseteq UserIds
        BY <1>0 DEF Existing
      <3> QED BY <2>w, <2>4, <3>0 DEF RowsDiffer
    <2> QED BY <1>m, <2>w, <2>3, <2>5, <2>6
  <1>4. CASE DropsGroup(s, op, id, after)
    <2> DEFINE mid == [s.groups EXCEPT ![id] = None]
    <2>1. /\ after = [users |-> s.users, groups |-> Without(mid, id)]
          /\ id \in GroupIds
          /\ mid \in [GroupIds -> Group \cup {None}]
          /\ Existing(mid) = Existing(s.groups) \ {id}
          /\ \A g \in GroupIds \ {id} : mid[g] = s.groups[g]
      BY <1>0, <1>4 DEF DropsGroup, Existing
    <2> HIDE DEF mid
    <2>2. Acyclic(s.groups) => Acyclic(mid)
      <3>0. Existing(s.groups) \subseteq GroupIds
        BY <1>0 DEF Existing
      <3> QED BY <2>1, <3>0 DEF Acyclic
    <2>w. /\ after.groups \in [GroupIds -> Group \cup {None}]
          /\ Existing(after.groups) = Existing(mid)
          /\ \A g \in Existing(mid) :
                /\ after.groups[g].members = mid[g].members \ {id}
                /\ after.groups[g].name = mid[g].name
          /\ Acyclic(mid) => Acyclic(after.groups)
      BY <2>1, WithoutGroups
    <2>3. after \in Store /\ after.users = s.users
      BY <1>0, <2>1, <2>w DEF Store
    <2>4. /\ Existing(after.groups) = Existing(s.groups) \ {id}
          /\ \A g \in Existing(s.groups) \ {id} :
                /\ after.groups[g].members = s.groups[g].members \ {id}
                /\ after.groups[g].name = s.groups[g].name
      BY <1>0, <2>1, <2>w DEF Existing
    <2>5. Dangling(after) \subseteq Dangling(s) \ {id}
      BY <2>3, <2>4 DEF Dangling, Members
    <2>6. RowsDiffer(s) => RowsDiffer(after)
      BY <2>3, <2>4 DEF RowsDiffer
    <2> QED BY <1>m, <2>2, <2>w, <2>3, <2>5, <2>6
  <1> QED BY <1>1, <1>2, <1>3, <1>4

-----------------------------------------------------------------------------
(* The lists of operations of requests.                                      *)

\* The entries of a list without its head ...
LEMMA TailEntries ==
  ASSUME NEW s \in Seq(Nat), s # <<>>
  PROVE  /\ Head(s) \in Nat /\ Tail(s) \in Seq(Nat)
         /\ Entries(s) = {Head(s)} \cup Entries(Tail(s))
         /\ Once(s) => Once(Tail(s)) /\ Head(s) \notin Entries(Tail(s))
  <1>1. /\ Len(s) \in Nat /\ Len(s) >= 1 /\ Head(s) = s[1]
        /\ Tail(s) \in Seq(Nat) /\ Len(Tail(s)) = Len(s) - 1
        /\ \A i \in 1..(Len(s) - 1) : Tail(s)[i] = s[i + 1]
        /\ \A i \in 1..Len(s) : s[i] \in Nat
    OBVIOUS
  <1>2. ASSUME NEW x \in Entries(s) PROVE x \in {Head(s)} \cup Entries(Tail(s))
    <2>1. PICK i \in 1..Len(s) : x = s[i]
      BY DEF Entries
    <2>2. CASE i = 1
      BY <1>1, <2>1, <2>2
    <2>3. CASE i # 1
      <3>1. i - 1 \in 1..Len(Tail(s)) /\ Tail(s)[i - 1] = x
        BY <1>1, <2>1, <2>3
      <3> QED BY <3>1 DEF Entries
    <2> QED BY <2>2, <2>3
  <1>3. ASSUME NEW x \in Entries(Tail(s))
        PROVE  \E i \in 2..Len(s) : x = s[i]
    <2>1. PICK i \in 1..Len(Tail(s)) : x = Tail(s)[i]
      BY DEF Entries
    <2> QED BY <1>1, <2>1
  <1>4. Entries(s) = {Head(s)} \cup Entries(Tail(s))
    BY <1>1, <1>2, <1>3 DEF Entries
  <1>5. Once(s) => Once(Tail(s))
    BY <1>1 DEF Once
  <1>6. Once(s) => Head(s) \notin Entries(Tail(s))
    BY <1>1, <1>3 DEF Once
  <1> QED BY <1>1, <1>4, <1>5, <1>6

\* ... and with one more.
LEMMA AppendEntries ==
  ASSUME NEW s \in Seq(Nat), NEW e \in Nat
  PROVE  /\ Append(s, e) \in Seq(Nat)
         /\ Entries(Append(s, e)) = Entries(s) \cup {e}
         /\ Once(s) /\ e \notin Entries(s) => Once(Append(s, e))
  <1>1. /\ Len(s) \in Nat /\ Append(s, e) \in Seq(Nat)
        /\ Len(Append(s, e)) = Len(s) + 1
        /\ \A i \in 1..Len(s) : Append(s, e)[i] = s[i]
        /\ Append(s, e)[Len(s) + 1] = e
    OBVIOUS
  <1> DEFINE t == Append(s, e)
  <1> HIDE DEF t
  <1>2. 1..Len(t) = 1..Len(s) \cup {Len(s) + 1}
    BY <1>1 DEF t
  <1>3. Entries(t) = Entries(s) \cup {e}
    BY <1>1, <1>2 DEF Entries, t
  <1>4. Once(s) /\ e \notin Entries(s) => Once(t)
    BY <1>1, <1>2 DEF Once, Entries, t
  <1> QED BY <1>1, <1>3, <1>4 DEF t

\* The positions of a list that is executed are those of its operations.
LEMMA Positions ==
  ASSUME NEW j \in Jobs, Sorted(j), j.todo # <<>>
  PROVE  /\ Current(j) \in Entries(j.todo)
         /\ Current(j) \in 1..Len(j.ops)
         /\ Current(j) \notin j.ok \cup j.failed \cup Entries(j.later)
         /\ Len(j.ops) \in Nat
         /\ IsOperation(Op(j))
         /\ \A x \in References(Op(j)) :
               x \in 1..Len(j.ops) /\ j.ops[x].method = "POST"
  <1>1. j.todo \in Seq(Nat) /\ Current(j) = Head(j.todo)
    BY DEF Jobs, Current
  <1>2. Current(j) \in Entries(j.todo)
    BY <1>1, TailEntries
  <1>3. /\ Current(j) \in 1..Len(j.ops)
        /\ Current(j) \notin j.ok \cup j.failed \cup Entries(j.later)
    BY <1>2 DEF Sorted
  <1>4. j.ops # <<>>
    BY <1>3
  <1>5. PICK r \in Requests : j.ops = r.ops
    BY <1>4 DEF Jobs
  <1> QED BY <1>2, <1>3, <1>5, RequestsAssumption DEF Op

\* An operation that leaves the list, done or failed, and one that is left for
\* a later pass keep the list sorted.
LEMMA LeavesSorted ==
  ASSUME NEW j \in Jobs, Sorted(j), j.todo # <<>>, NEW r,
         r.ops = j.ops, r.todo = Tail(j.todo),
         \/ /\ r.later = j.later /\ r.failed = j.failed
            /\ r.ok = j.ok \cup {Current(j)}
         \/ /\ r.later = j.later /\ r.ok = j.ok
            /\ r.failed = j.failed \cup {Current(j)}
         \/ /\ r.later = Append(j.later, Current(j))
            /\ r.ok = j.ok /\ r.failed = j.failed
  PROVE  Sorted(r)
  <1>1. /\ j.todo \in Seq(Nat) /\ j.later \in Seq(Nat)
        /\ Current(j) = Head(j.todo)
    BY DEF Jobs, Current
  <1>2. /\ Current(j) \in Nat
        /\ Entries(j.todo) = {Current(j)} \cup Entries(r.todo)
        /\ Once(r.todo) /\ Current(j) \notin Entries(r.todo)
    BY <1>1, TailEntries DEF Sorted
  <1>3. CASE r.later = j.later
    BY <1>2, <1>3 DEF Sorted
  <1>4. CASE r.later = Append(j.later, Current(j))
    <2>1. /\ Entries(r.later) = Entries(j.later) \cup {Current(j)}
          /\ Once(r.later)
      <3>1. Current(j) \notin Entries(j.later) /\ Once(j.later)
        BY <1>2 DEF Sorted
      <3> QED BY <1>1, <1>2, <1>4, <3>1, AppendEntries
    <2>2. (r.ok = j.ok /\ r.failed = j.failed) \/ r.later = j.later
      OBVIOUS
    <2> QED BY <1>2, <1>3, <2>1, <2>2 DEF Sorted
  <1> QED BY <1>3, <1>4

\* The errors of a job in a list are finitely many.
LEMMA FailuresAreFinite ==
  ASSUME NEW j \in Jobs, Sorted(j)
  PROVE  IsFiniteSet(j.failed) /\ Cardinality(j.failed) \in Nat
  <1>1. j.failed \in SUBSET (1..Len(j.ops))
    BY DEF Sorted
  <1>2. Len(j.ops) \in Nat
    <2>1. j.ops \in {r.ops : r \in Requests} \cup {<<>>}
      BY DEF Jobs
    <2> QED BY <2>1, RequestsAssumption
  <1>3. IsFiniteSet(1..Len(j.ops))
    BY <1>2, FS_Interval
  <1> QED BY <1>1, <1>3, FS_Subset, FS_CardinalityType

\* Client c goes on with a job of the right type whose list is in order.
Works(c) ==
    /\ job' \in [Clients -> Jobs]
    /\ \A d \in Clients \ {c} : job'[d] = job[d]
    /\ Listed(job'[c])

\* It is enough to know the job it goes on with.
LEMMA NewJob ==
  ASSUME TypeOK, NEW c \in Clients, NEW r \in Jobs,
         job' = [job EXCEPT ![c] = r], Listed(r)
  PROVE  Works(c) /\ job'[c] = r
  BY DEF TypeOK, Works

\* A client without a request has such a job.
LEMMA IdleJob == Idle \in Jobs /\ Listed(Idle)
  <1>1. <<>> \in Seq(Nat) /\ <<>> \in Seq(UserIds \cup GroupIds \cup {None})
    OBVIOUS
  <1>2. Idle \in Jobs
    BY <1>1 DEF Idle, Jobs, Stages
  <1>3. Listed(Idle)
    BY DEF Idle, Listed
  <1> QED BY <1>2, <1>3

\* A request starts with all its operations to do.
LEMMA SubmitWorks ==
  ASSUME TypeOK, NEW c \in Clients, NEW r \in Requests, Submit(c, r)
  PROVE  Works(c) /\ job'[c].stage = "running"
  <1> DEFINE n == Len(r.ops)
             seen == IF r.conditional THEN store ELSE None
             todo == [i \in 1..n |-> i]
             ids == [i \in 1..n |-> None]
             new == [Idle EXCEPT !.stage = "running", !.ops = r.ops,
                               !.limit = r.limit,
                               !.conditional = r.conditional,
                               !.seen = seen, !.todo = todo, !.ids = ids]
  <1>0. job' = [job EXCEPT ![c] = new]
    BY DEF Submit
  <1>1. n \in Nat /\ r.limit \in Nat /\ r.conditional \in BOOLEAN
    BY RequestsAssumption
  <1> HIDE DEF n
  <1>2. /\ todo \in Seq(Nat) /\ Len(todo) = n
        /\ \A i \in 1..n : todo[i] = i
        /\ ids \in Seq(UserIds \cup GroupIds \cup {None}) /\ Len(ids) = n
        /\ \A i \in 1..n : ids[i] = None
        /\ seen \in Store \cup {None}
    BY <1>1 DEF TypeOK
  <1> HIDE DEF todo, ids, seen
  <1>3. /\ new.stage = "running" /\ new.ops = r.ops /\ new.limit = r.limit
        /\ new.todo = todo /\ new.later = <<>> /\ new.ids = ids
        /\ new.ok = {} /\ new.failed = {} /\ new.stuck = {}
    BY DEF Idle
  <1>4. new \in Jobs
    BY <1>1, <1>2, IdleJob DEF Jobs, Stages
  <1> HIDE DEF new
  <1>5. Entries(new.todo) = 1..n /\ Once(new.todo) /\ Len(new.ops) = n
    BY <1>1, <1>2, <1>3, SMTT(30) DEF Entries, Once, n
  <1>6. Entries(new.later) = {} /\ Once(new.later)
    BY <1>3 DEF Entries, Once
  <1>7. Sorted(new)
    BY <1>3, <1>5, <1>6 DEF Sorted
  <1>8. Cardinality(new.failed) <= new.limit
    BY <1>1, <1>3, FS_EmptySet
  <1>9. /\ Len(new.ids) = Len(new.ops)
        /\ \A i \in 1..Len(new.ops) : new.ids[i] = None /\ i \notin new.ok
    BY <1>2, <1>3, <1>5
  <1>10. Listed(new)
    BY <1>3, <1>6, <1>7, <1>8, <1>9 DEF Listed
  <1> QED BY <1>0, <1>3, <1>4, <1>10, NewJob

\* What waits for others is left, and refers to what is not done.
LEMMA DeferWorks ==
  ASSUME TypeOK, JobsInv, NEW c \in Clients, Defer(c)
  PROVE  Works(c) /\ job'[c].stage = "running"
  <1> DEFINE j == job[c]
             new == [j EXCEPT !.later = Append(@, Current(j)),
                              !.todo = Tail(@)]
  <1>0. /\ j \in Jobs /\ Listed(j) /\ j.stage = "running" /\ j.todo # <<>>
        /\ Waiting(j) # {}
    BY DEF TypeOK, JobsInv, Defer, Running
  <1>1. job' = [job EXCEPT ![c] = new]
    BY DEF Defer, TypeOK
  <1>2. /\ Sorted(j) /\ j.stuck = {} /\ Len(j.ids) = Len(j.ops)
        /\ \A i \in 1..Len(j.ops) : j.ids[i] # None <=>
              i \in j.ok /\ j.ops[i].method = "POST"
    BY <1>0 DEF Listed
  <1> HIDE DEF j
  <1>3. /\ j.todo \in Seq(Nat) /\ j.later \in Seq(Nat)
        /\ Current(j) \in Nat /\ Tail(j.todo) \in Seq(Nat)
    BY <1>0, TailEntries DEF Jobs, Current
  <1>4. /\ Append(j.later, Current(j)) \in Seq(Nat)
        /\ Entries(Append(j.later, Current(j)))
              = Entries(j.later) \cup {Current(j)}
    BY <1>3, AppendEntries
  <1>5. /\ new \in Jobs
        /\ new.stage = j.stage /\ new.ops = j.ops /\ new.limit = j.limit
        /\ new.ids = j.ids /\ new.ok = j.ok /\ new.failed = j.failed
        /\ new.stuck = j.stuck /\ new.progress = j.progress
        /\ new.todo = Tail(j.todo)
        /\ new.later = Append(j.later, Current(j))
    BY <1>0, <1>3, <1>4 DEF Jobs
  <1> HIDE DEF new
  <1>6. Sorted(new)
    BY <1>0, <1>2, <1>5, LeavesSorted
  <1>7. ~(References(Op(j)) \subseteq j.ok)
    <2>1. PICK x \in References(Op(j)) : j.ids[x] = None
      BY <1>0 DEF Waiting
    <2>2. x \in 1..Len(j.ops) /\ j.ops[x].method = "POST"
      BY <1>0, <1>2, <2>1, Positions
    <2> QED BY <1>2, <2>1, <2>2
  <1>8. Op(j) = j.ops[Current(j)]
    BY DEF Op
  <1>9. Listed(new)
    BY <1>0, <1>2, <1>4, <1>5, <1>6, <1>7, <1>8 DEF Listed
  <1> QED BY <1>0, <1>1, <1>5, <1>9, NewJob

\* What is refused, or could not be saved, has failed.
LEMMA FailedWorks ==
  ASSUME TypeOK, JobsInv, NEW c \in Clients,
         job[c].stage \in {"running", "staged", "half"},
         job[c].todo # <<>>, ~Reached(job[c]),
         job' = [job EXCEPT ![c] = Failed(job[c])]
  PROVE  Works(c) /\ job'[c].stage = "running"
  <1> DEFINE j == job[c]
             new == Failed(j)
  <1>0. j \in Jobs /\ Listed(j)
    BY DEF TypeOK, JobsInv
  <1>1. /\ job' = [job EXCEPT ![c] = new]
        /\ j.stage \in {"running", "staged", "half"} /\ j.todo # <<>>
        /\ ~Reached(j)
    OBVIOUS
  <1> HIDE DEF j
  <1>2. /\ Sorted(j) /\ j.stuck = {} /\ Len(j.ids) = Len(j.ops)
        /\ \A i \in 1..Len(j.ops) : j.ids[i] # None <=>
              i \in j.ok /\ j.ops[i].method = "POST"
        /\ \A i \in j.ok : References(j.ops[i]) \subseteq j.ok
    BY <1>0, <1>1 DEF Listed
  <1>3. Current(j) \in Nat /\ Tail(j.todo) \in Seq(Nat)
    BY <1>0, <1>1, TailEntries DEF Jobs, Current
  <1>4. /\ new \in Jobs
        /\ new.stage = "running" /\ new.ops = j.ops /\ new.limit = j.limit
        /\ new.ids = j.ids /\ new.ok = j.ok
        /\ new.failed = j.failed \cup {Current(j)}
        /\ new.stuck = j.stuck /\ new.progress = TRUE
        /\ new.todo = Tail(j.todo) /\ new.later = j.later
    BY <1>0, <1>3 DEF Jobs, Failed, Leave, Stages
  <1> HIDE DEF new
  <1>5. Sorted(new)
    BY <1>0, <1>1, <1>2, <1>4, LeavesSorted
  <1>6. new.limit # 0 => Cardinality(new.failed) <= new.limit
    <2>1. IsFiniteSet(j.failed)
      BY <1>0, <1>2, FailuresAreFinite
    <2>2. /\ Cardinality(j.failed) \in Nat
          /\ Cardinality(j.failed \cup {Current(j)}) \in Nat
          /\ Cardinality(j.failed \cup {Current(j)})
                <= Cardinality(j.failed) + 1
      <3>1. Cardinality(j.failed) \in Nat
        BY <2>1, FS_CardinalityType
      <3>2. Cardinality(j.failed \cup {Current(j)}) =
               IF Current(j) \in j.failed THEN Cardinality(j.failed)
                                          ELSE Cardinality(j.failed) + 1
        BY <2>1, FS_AddElement
      <3> QED BY <3>1, <3>2
    <2>3. j.limit \in Nat
      BY <1>0 DEF Jobs
    <2>4. j.limit # 0 => Cardinality(j.failed) < j.limit
      BY <1>1, <2>2, <2>3 DEF Reached
    <2>5. /\ new.limit = j.limit
          /\ Cardinality(new.failed) = Cardinality(j.failed \cup {Current(j)})
      BY <1>4
    <2> QED BY <2>2, <2>3, <2>4, <2>5
  <1>7. Listed(new)
    BY <1>2, <1>4, <1>5, <1>6 DEF Listed
  <1> QED BY <1>0, <1>1, <1>4, <1>7, NewJob

\* What is saved has succeeded, and others may refer to what it made.
LEMMA SucceededWorks ==
  ASSUME TypeOK, JobsInv, NEW c \in Clients, Holding(c),
         job' = [job EXCEPT ![c] = Succeeded(job[c])]
  PROVE  Works(c) /\ job'[c].stage = "running"
  <1> DEFINE j == job[c]
             new == Succeeded(j)
  <1>0. j \in Jobs /\ Listed(j) /\ Prepared(c)
    BY DEF TypeOK, JobsInv
  <1>1. /\ job' = [job EXCEPT ![c] = new]
        /\ j.stage \in {"staged", "half"} /\ j.todo # <<>>
        /\ j.target \in UserIds \cup GroupIds
    BY <1>0 DEF Prepared, Holding
  <1> HIDE DEF j
  <1>2. /\ Sorted(j) /\ j.stuck = {} /\ Len(j.ids) = Len(j.ops)
        /\ \A i \in 1..Len(j.ops) : j.ids[i] # None <=>
              i \in j.ok /\ j.ops[i].method = "POST"
        /\ \A i \in j.ok : References(j.ops[i]) \subseteq j.ok
        /\ References(Op(j)) \subseteq j.ok
        /\ j.limit # 0 => Cardinality(j.failed) <= j.limit
    BY <1>0, <1>1 DEF Listed
  <1>3. /\ Current(j) \in Nat /\ Tail(j.todo) \in Seq(Nat)
        /\ Current(j) \in 1..Len(j.ops) /\ Current(j) \notin j.ok
        /\ j.target # None /\ Op(j) = j.ops[Current(j)]
    <2>1. j.todo \in Seq(Nat) /\ Current(j) = Head(j.todo)
      BY <1>0 DEF Jobs, Current
    <2>2. Current(j) \in Nat /\ Tail(j.todo) \in Seq(Nat)
      BY <1>1, <2>1, TailEntries
    <2>3. Current(j) \in 1..Len(j.ops) /\ Current(j) \notin j.ok
      BY <1>0, <1>1, <1>2, Positions
    <2>4. j.target # None
      BY <1>1, RowsAssumption
    <2> QED BY <2>2, <2>3, <2>4 DEF Op
  <1> DEFINE ids == IF Op(j).method = "POST"
                    THEN [j.ids EXCEPT ![Current(j)] = j.target] ELSE j.ids
  <1>4. /\ ids \in Seq(UserIds \cup GroupIds \cup {None})
        /\ Len(ids) = Len(j.ids)
        /\ \A i \in 1..Len(j.ops) : ids[i] # None <=>
              \/ i \in j.ok /\ j.ops[i].method = "POST"
              \/ i = Current(j) /\ j.ops[i].method = "POST"
    <2>1. j.ids \in Seq(UserIds \cup GroupIds \cup {None})
      BY <1>0 DEF Jobs
    <2>2. CASE Op(j).method = "POST"
      BY <1>1, <1>2, <1>3, <2>1, <2>2
    <2>3. CASE Op(j).method # "POST"
      BY <1>1, <1>2, <1>3, <2>1, <2>3
    <2> QED BY <2>2, <2>3
  <1> HIDE DEF ids
  <1>5. /\ new \in Jobs
        /\ new.stage = "running" /\ new.ops = j.ops /\ new.limit = j.limit
        /\ new.ids = ids /\ new.ok = j.ok \cup {Current(j)}
        /\ new.failed = j.failed
        /\ new.stuck = j.stuck /\ new.progress = TRUE
        /\ new.todo = Tail(j.todo) /\ new.later = j.later
    <2> DEFINE left == Leave(j)
    <2>1. /\ left \in Jobs
          /\ left.stage = "running" /\ left.ops = j.ops /\ left.limit = j.limit
          /\ left.ids = j.ids /\ left.ok = j.ok /\ left.failed = j.failed
          /\ left.stuck = j.stuck /\ left.progress = TRUE
          /\ left.todo = Tail(j.todo) /\ left.later = j.later
      BY <1>0, <1>3 DEF Jobs, Leave, Stages
    <2>2. new = [left EXCEPT !.ok = @ \cup {Current(j)},
                             !.ids = IF Op(j).method = "POST"
                                THEN [@ EXCEPT ![Current(j)] = j.target] ELSE @]
      BY DEF Succeeded
    <2> HIDE DEF left, new
    <2>3. new = [left EXCEPT !.ok = j.ok \cup {Current(j)}, !.ids = ids]
      BY <2>1, <2>2 DEF ids
    <2> QED BY <1>3, <1>4, <2>1, <2>3, ZenonT(40) DEF Jobs
  <1> HIDE DEF new
  <1>6. Sorted(new)
    BY <1>0, <1>1, <1>2, <1>5, LeavesSorted
  <1>7. \A i \in new.ok : References(new.ops[i]) \subseteq new.ok
    BY <1>2, <1>3, <1>5
  <1>8. \A i \in 1..Len(new.ops) : new.ids[i] # None <=>
              i \in new.ok /\ new.ops[i].method = "POST"
    BY <1>4, <1>5
  <1>9. Listed(new)
    BY <1>2, <1>4, <1>5, <1>6, <1>7, <1>8 DEF Listed
  <1> QED BY <1>0, <1>1, <1>5, <1>9, NewJob

\* An operation that may begin has all it needs.
LEMMA BeginRuns ==
  ASSUME TypeOK, JobsInv, NEW c \in Clients, Begin(c)
  PROVE  /\ Runs(store, Op(job[c]), Target(job[c]), job[c].ids)
         /\ References(Op(job[c])) \subseteq job[c].ok
  <1> DEFINE j == job[c]
  <1>0. j \in Jobs /\ Listed(j)
    BY DEF TypeOK, JobsInv
  <1>1. /\ j.stage = "running" /\ j.todo # <<>> /\ Waiting(j) = {}
        /\ Op(j).method = "POST" => Fresh(j) # {}
        /\ Accepted(store, Op(j), Target(j), j.ids)
    BY DEF Begin, Running, Loaded
  <1> HIDE DEF j
  <1>2. /\ Sorted(j) /\ Len(j.ids) = Len(j.ops)
        /\ \A i \in 1..Len(j.ops) : j.ids[i] # None <=>
              i \in j.ok /\ j.ops[i].method = "POST"
    BY <1>0, <1>1 DEF Listed
  <1>3. /\ IsOperation(Op(j)) /\ Len(j.ops) \in Nat
        /\ \A x \in References(Op(j)) : x \in 1..Len(j.ops)
    BY <1>0, <1>1, <1>2, Positions
  <1>4. \A x \in References(Op(j)) : j.ids[x] # None
    BY <1>1 DEF Waiting
  <1>5. \A x \in 1..Len(j.ids) : j.ids[x] \in UserIds \cup GroupIds \cup {None}
    BY <1>0 DEF Jobs
  <1>6. Op(j).method = "POST" => Target(j) \in IdsOf(Op(j))
    <2> SUFFICES ASSUME Op(j).method = "POST"
                 PROVE  Target(j) \in IdsOf(Op(j))
      OBVIOUS
    <2>1. Target(j) = CHOOSE id \in Fresh(j) : TRUE
      BY DEF Target
    <2>2. Target(j) \in Fresh(j)
      BY <1>1, <2>1
    <2> QED BY <2>2 DEF Fresh, IdsOf
  <1>7. References(Op(j)) \subseteq j.ok
    BY <1>2, <1>3, <1>4
  <1>8. \A x \in References(Op(j)) : j.ids[x] \in UserIds \cup GroupIds
    BY <1>2, <1>3, <1>4, <1>5
  <1> QED BY <1>1, <1>3, <1>6, <1>7, <1>8 DEF Runs, j

\* A mutation that begins has a resource and rows to save.
LEMMA BeginWorks ==
  ASSUME TypeOK, JobsInv, NEW c \in Clients, Begin(c)
  PROVE  /\ Works(c)
         /\ job'[c] = [job[c] EXCEPT
                          !.stage = "staged", !.target = Target(job[c]),
                          !.staged = After(store, Op(job[c]), Target(job[c]),
                                           job[c].ids)]
         /\ Target(job[c]) \in IdsOf(Op(job[c]))
         /\ After(store, Op(job[c]), Target(job[c]), job[c].ids) \in Store
  <1> DEFINE j == job[c]
             id == Target(j)
             after == After(store, Op(j), id, j.ids)
             new == [j EXCEPT !.stage = "staged", !.target = id,
                              !.staged = after]
  <1>0. /\ j \in Jobs /\ Listed(j) /\ store \in Store
        /\ j.stage = "running" /\ ~Reached(j)
    BY DEF TypeOK, JobsInv, Begin, Running
  <1>1. /\ Runs(store, Op(j), id, j.ids) /\ References(Op(j)) \subseteq j.ok
        /\ IsOperation(Op(j))
    BY BeginRuns DEF Runs
  <1>2. job' = [job EXCEPT ![c] = new]
    BY DEF Begin, Loaded, TypeOK
  <1> HIDE DEF j, id, after
  <1>3. \/ PutsUser(store, Op(j), id, after) \/ PutsGroup(store, Op(j), id, after)
        \/ DropsUser(store, Op(j), id, after)
        \/ DropsGroup(store, Op(j), id, after)
    BY <1>0, <1>1, FourChanges DEF after
  <1>4. after \in Store
    BY <1>0, <1>3, ChangeKeepsRules
  <1>5. id \in IdsOf(Op(j))
    BY <1>3 DEF PutsUser, PutsGroup, DropsUser, DropsGroup, IdsOf
  <1>6. /\ new \in Jobs
        /\ new.stage = "staged" /\ new.ops = j.ops /\ new.limit = j.limit
        /\ new.ids = j.ids /\ new.ok = j.ok /\ new.failed = j.failed
        /\ new.stuck = j.stuck /\ new.progress = j.progress
        /\ new.todo = j.todo /\ new.later = j.later
    BY <1>0, <1>4, <1>5 DEF Jobs, Stages, IdsOf
  <1> HIDE DEF new
  <1>7. Op(new) = Op(j)
    BY <1>6 DEF Op, Current
  <1>8. Sorted(new)
    BY <1>0, <1>6 DEF Listed, Sorted
  <1>9. new.limit # 0 => Cardinality(new.failed) < new.limit
    <2>1. Sorted(j) /\ j.limit \in Nat
      BY <1>0 DEF Listed, Jobs
    <2>2. Cardinality(j.failed) \in Nat
      BY <1>0, <2>1, FailuresAreFinite
    <2> QED BY <1>0, <1>6, <2>1, <2>2 DEF Reached
  <1>10. Listed(new)
    BY <1>0, <1>1, <1>6, <1>7, <1>8, <1>9 DEF Listed
  <1>11. Works(c) /\ job'[c] = new
    BY <1>2, <1>6, <1>10, NewJob
  <1> QED BY <1>4, <1>5, <1>11 DEF new, j, id, after

\* The end of a pass: another one, the end of the list, the answer.
LEMMA PassWorks ==
  ASSUME TypeOK, JobsInv, NEW c \in Clients,
         NextPass(c) \/ GiveUp(c) \/ Finish(c) \/ Answer(c)
  PROVE  Works(c) /\ job'[c].stage \in {"running", "answered", "idle"}
  <1> DEFINE j == job[c]
  <1>0. j \in Jobs /\ Listed(j)
    BY DEF TypeOK, JobsInv
  <1>1. CASE NextPass(c)
    <2> DEFINE new == [j EXCEPT !.todo = j.later, !.later = <<>>,
                                !.progress = FALSE]
    <2>1. /\ job' = [job EXCEPT ![c] = new]
          /\ j.stage = "running" /\ j.todo = <<>>
      BY <1>1 DEF NextPass, PassIsOver, TypeOK
    <2> HIDE DEF j
    <2>2. /\ new \in Jobs
          /\ new.stage = "running" /\ new.ops = j.ops /\ new.limit = j.limit
          /\ new.ids = j.ids /\ new.ok = j.ok /\ new.failed = j.failed
          /\ new.stuck = j.stuck /\ new.todo = j.later /\ new.later = <<>>
      BY <1>0, <2>1 DEF Jobs
    <2> HIDE DEF new
    <2>3. Entries(<<>>) = {} /\ Once(<<>>)
      BY DEF Entries, Once
    <2>4. Sorted(new)
      BY <1>0, <2>1, <2>2, <2>3 DEF Listed, Sorted
    <2>5. Listed(new)
      BY <1>0, <2>1, <2>2, <2>3, <2>4 DEF Listed
    <2> QED BY <2>1, <2>2, <2>5, NewJob
  <1>2. CASE GiveUp(c)
    <2> DEFINE room == j.limit - Cardinality(j.failed)
               n == IF j.limit = 0 \/ Len(j.later) < room THEN Len(j.later)
                                                          ELSE room
               given == {j.later[i] : i \in 1..n}
               new == [j EXCEPT !.stage = "answered", !.stuck = given,
                                !.failed = @ \cup given]
    <2>1. job' = [job EXCEPT ![c] = new] /\ PassIsOver(c)
      BY <1>2 DEF GiveUp, TypeOK
    <2>2. given \subseteq Entries(j.later)
      <3>1. j.later \in Seq(Nat) /\ j.limit \in Nat
        BY <1>0 DEF Jobs
      <3>2. Cardinality(j.failed) \in Nat
        <4>1. Sorted(j)
          BY <1>0, <2>1 DEF PassIsOver, Listed
        <4> QED BY <1>0, <4>1, FailuresAreFinite
      <3>3. Len(j.later) \in Nat /\ n <= Len(j.later) /\ n \in Int
        BY <3>1, <3>2
      <3> QED BY <3>3 DEF Entries
    <2>3. Entries(j.later) \subseteq Nat
      <3>1. j.later \in Seq(Nat)
        BY <1>0 DEF Jobs
      <3> QED BY <3>1 DEF Entries
    <2> HIDE DEF j, given
    <2>4. /\ new \in Jobs
          /\ new.stage = "answered" /\ new.ops = j.ops /\ new.ok = j.ok
      BY <1>0, <2>2, <2>3 DEF Jobs, Stages
    <2> HIDE DEF new
    <2>5. Listed(new)
      BY <1>0, <2>4 DEF Listed
    <2> QED BY <2>1, <2>4, <2>5, NewJob
  <1>3. CASE Finish(c)
    <2> DEFINE new == [j EXCEPT !.stage = "answered"]
    <2>1. job' = [job EXCEPT ![c] = new]
      BY <1>3 DEF Finish, TypeOK
    <2> HIDE DEF j
    <2>2. /\ new \in Jobs
          /\ new.stage = "answered" /\ new.ops = j.ops /\ new.ok = j.ok
      BY <1>0 DEF Jobs, Stages
    <2> HIDE DEF new
    <2>3. Listed(new)
      BY <1>0, <2>2 DEF Listed
    <2> QED BY <2>1, <2>2, <2>3, NewJob
  <1>4. CASE Answer(c)
    <2>1. job' = [job EXCEPT ![c] = Idle]
      BY <1>4 DEF Answer
    <2>2. Works(c) /\ job'[c] = Idle
      BY <2>1, IdleJob, NewJob
    <2> QED BY <2>2 DEF Idle
  <1> QED BY <1>1, <1>2, <1>3, <1>4

\* The other clients stay as they are and, whoever holds the lock, prepared.
LEMMA OthersPrepared ==
  ASSUME JobsInv, NEW c \in Clients, Works(c), UNCHANGED backend,
         store' = store \/ lock = c,
         lock' = lock \/ (lock \in {c, NoClient} /\ lock' \in {c, NoClient})
  PROVE  \A d \in Clients \ {c} : Prepared(d)' /\ Listed(job[d])'
  <1> SUFFICES ASSUME NEW d \in Clients \ {c}
               PROVE  Prepared(d)' /\ Listed(job[d])'
    OBVIOUS
  <1>1. /\ Prepared(d) /\ Listed(job[d]) /\ job'[d] = job[d]
        /\ d # NoClient
    BY DirectoryAssumption DEF JobsInv, Works
  <1>2. Listed(job[d])'
    BY <1>1
  <1>3. lock = d <=> lock' = d
    BY <1>1
  <1>4. Holding(d)' <=> Holding(d)
    BY <1>1 DEF Holding
  <1>5. CASE Holding(d)
    <2>1. lock = d /\ store' = store
      BY <1>1, <1>5 DEF Prepared
    <2> QED BY <1>1, <1>2, <1>3, <1>4, <2>1 DEF Prepared
  <1>6. CASE ~Holding(d)
    <2>1. job'[d].stage \notin {"staged", "half"}
      BY <1>1, <1>6 DEF Holding
    <2>2. lock' # d
      BY <1>1, <1>3, <1>6 DEF Prepared
    <2> QED BY <1>2, <2>1, <2>2 DEF Prepared, Holding
  <1> QED BY <1>5, <1>6

\* The rows staged are those of an operation that may run.
LEMMA StagedRuns ==
  ASSUME TypeOK, JobsInv, NEW c \in Clients, job[c].stage = "staged"
  PROVE  /\ Runs(store, Op(job[c]), job[c].target, job[c].ids)
         /\ job[c].staged
               = After(store, Op(job[c]), job[c].target, job[c].ids)
  <1> DEFINE j == job[c]
  <1>0. /\ j \in Jobs /\ Listed(j) /\ Prepared(c) /\ j.stage = "staged"
        /\ Holding(c)
    BY DEF TypeOK, JobsInv, Holding
  <1>1. /\ j.todo # <<>> /\ j.target \in IdsOf(Op(j))
        /\ Accepted(store, Op(j), j.target, j.ids)
        /\ j.staged = After(store, Op(j), j.target, j.ids)
    BY <1>0 DEF Prepared, IdsOf
  <1> HIDE DEF j
  <1>2. /\ Sorted(j) /\ Len(j.ids) = Len(j.ops)
        /\ \A i \in 1..Len(j.ops) : j.ids[i] # None <=>
              i \in j.ok /\ j.ops[i].method = "POST"
        /\ References(Op(j)) \subseteq j.ok
    BY <1>0 DEF Listed
  <1>3. /\ IsOperation(Op(j)) /\ Len(j.ops) \in Nat
        /\ \A x \in References(Op(j)) :
              x \in 1..Len(j.ops) /\ j.ops[x].method = "POST"
    BY <1>0, <1>1, <1>2, Positions
  <1>4. \A x \in 1..Len(j.ids) : j.ids[x] \in UserIds \cup GroupIds \cup {None}
    BY <1>0 DEF Jobs
  <1>5. \A x \in References(Op(j)) : j.ids[x] \in UserIds \cup GroupIds
    BY <1>2, <1>3, <1>4
  <1> QED BY <1>1, <1>3, <1>5 DEF Runs, j

\* Whether a transaction commits or files are replaced, what is saved is all of
\* the operation, or the users file of a removal, or the groups file after it.
LEMMA Saves ==
  ASSUME TypeOK, JobsInv, NEW c \in Clients,
         Commit(c) \/ SaveUsers(c) \/ SaveGroups(c)
  PROVE  \/ /\ job[c].stage = "staged" /\ store' = job[c].staged /\ Done(c)
         \/ /\ job[c].stage = "staged" /\ RemovesUser(job[c])
            /\ backend = "json"
            /\ store' = [users |-> [store.users EXCEPT ![job[c].target] = None],
                         groups |-> store.groups]
            /\ job[c].staged.groups = Without(store.groups, job[c].target)
            /\ job' = [job EXCEPT ![c].stage = "half"]
            /\ UNCHANGED <<lock, used>>
         \/ /\ job[c].stage = "half" /\ Done(c)
            /\ store' = [users |-> store.users,
                         groups |-> Without(store.groups, job[c].target)]
  <1> DEFINE j == job[c]  after == j.staged  op == Op(j)
  <1>0. /\ store = [users |-> store.users, groups |-> store.groups]
        /\ Prepared(c)
    BY DEF TypeOK, Store, JobsInv
  <1>1. CASE j.stage = "staged"
    <2>1. Runs(store, op, j.target, j.ids)
          /\ after = After(store, op, j.target, j.ids)
      BY <1>1, StagedRuns
    <2>2. \/ PutsUser(store, op, j.target, after)
          \/ PutsGroup(store, op, j.target, after)
          \/ DropsUser(store, op, j.target, after)
          \/ DropsGroup(store, op, j.target, after)
      <3>1. store \in Store
        BY DEF TypeOK
      <3> QED BY <2>1, <3>1, FourChanges
    <2>3. /\ SavesUsers(j) \/ after.users = store.users
          /\ SavesGroups(j) \/ after.groups = store.groups
          /\ after = [users |-> after.users, groups |-> after.groups]
          /\ SavesUsers(j) /\ ~RemovesUser(j) => after.groups = store.groups
          /\ RemovesUser(j) =>
                /\ after.users = [store.users EXCEPT ![j.target] = None]
                /\ after.groups = Without(store.groups, j.target)
      <3> USE DEF SavesUsers, SavesGroups, RemovesUser
      <3> HIDE DEF after
      <3>1. CASE PutsUser(store, op, j.target, after)
        BY <3>1 DEF PutsUser
      <3>2. CASE PutsGroup(store, op, j.target, after)
        BY <3>2 DEF PutsGroup
      <3>3. CASE DropsUser(store, op, j.target, after)
        BY <3>3 DEF DropsUser
      <3>4. CASE DropsGroup(store, op, j.target, after)
        BY <3>4 DEF DropsGroup
      <3> QED BY <2>2, <3>1, <3>2, <3>3, <3>4
    <2>4. CASE Commit(c)
      BY <1>1, <2>3, <2>4 DEF Commit, SavedUsers, SavedGroups
    <2>5. CASE SaveUsers(c)
      <3>1. store' = [users |-> after.users, groups |-> store.groups]
        BY <1>0, <2>5 DEF SaveUsers
      <3>2. CASE RemovesUser(j)
        BY <1>1, <2>3, <2>5, <3>1, <3>2 DEF SaveUsers
      <3>3. CASE ~RemovesUser(j)
        <4>1. store' = after
          BY <2>3, <2>5, <3>1, <3>3 DEF SaveUsers
        <4> QED BY <1>1, <2>5, <3>3, <4>1 DEF SaveUsers
      <3> QED BY <3>2, <3>3
    <2>6. CASE SaveGroups(c)
      <3>1. store' = [users |-> store.users, groups |-> after.groups]
        BY <1>0, <2>6 DEF SaveGroups
      <3>2. ~SavesUsers(j)
        BY <1>1, <2>6 DEF SaveGroups
      <3>3. store' = after
        BY <2>3, <3>1, <3>2
      <3> QED BY <1>1, <2>6, <3>3 DEF SaveGroups
    <2> QED BY <2>4, <2>5, <2>6
  <1>2. CASE j.stage # "staged"
    <2>1. SaveGroups(c) /\ j.stage = "half"
      BY <1>2 DEF Commit, SaveUsers, SaveGroups
    <2>2. after.groups = Without(store.groups, j.target)
      BY <1>0, <2>1 DEF Prepared
    <2>3. store' = [users |-> store.users, groups |-> after.groups]
      BY <1>0, <2>1 DEF SaveGroups
    <2> QED BY <2>1, <2>2, <2>3 DEF SaveGroups
  <1> QED BY <1>1, <1>2

-----------------------------------------------------------------------------
(* The groups around a user.                                                 *)

\* A set of naturals has a least one, since the intervals below its elements
\* are well-founded by inclusion.
LEMMA Least ==
  ASSUME NEW S, S \subseteq Nat, S # {}
  PROVE  \E n \in S : \A i \in S : n <= i
  <1> DEFINE Below(n) == 1..n
             T == {Below(n) : n \in S}
             Order == StrictSubsetOrdering(Nat)
  <1>1. T \subseteq FiniteSubsetsOf(Nat)
    <2> SUFFICES ASSUME NEW n \in S PROVE Below(n) \in FiniteSubsetsOf(Nat)
      OBVIOUS
    <2>1. n \in Int /\ Below(n) \subseteq Nat
      OBVIOUS
    <2>2. IsFiniteSet(Below(n))
      BY <2>1, FS_Interval
    <2> QED BY <2>1, <2>2 DEF FiniteSubsetsOf
  <1>2. IsWellFoundedOn(Order, FiniteSubsetsOf(Nat))
    BY FS_StrictSubsetOrderingWellFounded
  <1>3. T # {}
    OBVIOUS
  <1> HIDE DEF T, Order
  <1>4. PICK x \in T : \A y \in T : <<y, x>> \notin Order
    BY <1>1, <1>2, <1>3, WFMin
  <1>5. PICK n \in S : x = Below(n)
    BY DEF T
  <1>6. ASSUME NEW i \in S, i < n PROVE FALSE
    <2>1. Below(i) \in T
      BY DEF T
    <2>2. /\ Below(i) \subseteq Below(n) /\ Below(n) \subseteq Nat
          /\ n \in Below(n) /\ n \notin Below(i)
      BY <1>6
    <2> HIDE DEF Below
    <2>3. <<Below(i), Below(n)>> \in Order
      BY <2>2 DEF Order, StrictSubsetOrdering
    <2> QED BY <1>4, <1>5, <2>1, <2>3
  <1> QED BY <1>6

Direct(u, groups) == {g \in Existing(groups) : u \in groups[g].members}
Above(S, groups) == {g \in Existing(groups) : groups[g].members \cap S # {}}

\* up is the sequence of rounds of the search, n of them after the first.
Rounds(up, n, u, groups) ==
    up = [i \in 0..n |-> IF i = 0 THEN Direct(u, groups)
                         ELSE up[i-1] \cup Above(up[i-1], groups)]

\* Such a sequence exists: otherwise there is a least n without one.
LEMMA RoundsExist ==
  ASSUME NEW N \in Nat, NEW u, NEW groups
  PROVE  \E up : Rounds(up, N, u, groups)
  <1> DEFINE Bad == {n \in 0..N : ~\E up : Rounds(up, n, u, groups)}
  <1> SUFFICES ASSUME Bad # {} PROVE FALSE
    OBVIOUS
  <1>0. Bad \subseteq Nat
    OBVIOUS
  <1> HIDE DEF Bad
  <1>1. PICK n \in Bad : \A i \in Bad : n <= i
    BY <1>0, Least
  <1>2. n \in 0..N /\ ~\E up : Rounds(up, n, u, groups)
    BY DEF Bad
  <1>3. CASE n = 0
    <2> DEFINE f == [i \in 0..0 |-> Direct(u, groups)]
    <2>1. Rounds(f, 0, u, groups)
      BY DEF Rounds
    <2> QED BY <1>2, <1>3, <2>1
  <1>4. CASE n # 0
    <2>1. n - 1 \in 0..N /\ n - 1 \notin Bad
      BY <1>0, <1>1, <1>2, <1>4
    <2>2. PICK f : Rounds(f, n - 1, u, groups)
      BY <2>1 DEF Bad
    <2> DEFINE g == [i \in 0..n |-> IF i < n THEN f[i]
                        ELSE f[n-1] \cup Above(f[n-1], groups)]
    <2>3. \A i \in 0..(n-1) : f[i] = IF i = 0 THEN Direct(u, groups)
                         ELSE f[i-1] \cup Above(f[i-1], groups)
      BY <1>2, <2>2 DEF Rounds
    <2>4. \A i \in 0..n : g[i] = IF i = 0 THEN Direct(u, groups)
                         ELSE g[i-1] \cup Above(g[i-1], groups)
      <3> SUFFICES ASSUME NEW i \in 0..n
                   PROVE  g[i] = IF i = 0 THEN Direct(u, groups)
                                 ELSE g[i-1] \cup Above(g[i-1], groups)
        OBVIOUS
      <3>1. CASE i = n
        <4>1. g[i] = f[n-1] \cup Above(f[n-1], groups) /\ g[i-1] = f[n-1]
          BY <1>2, <1>4, <3>1
        <4> QED BY <1>2, <1>4, <3>1, <4>1
      <3>2. CASE i # n
        <4>1. i \in 0..(n-1) /\ g[i] = f[i] /\ (i # 0 => g[i-1] = f[i-1])
          BY <1>2, <1>4, <3>2
        <4> QED BY <2>3, <4>1
      <3> QED BY <3>1, <3>2
    <2>5. Rounds(g, n, u, groups)
      <3>1. g = [i \in 0..n |-> g[i]]
        OBVIOUS
      <3> HIDE DEF g
      <3>2. g = [i \in 0..n |-> IF i = 0 THEN Direct(u, groups)
                         ELSE g[i-1] \cup Above(g[i-1], groups)]
        BY <2>4, <3>1
      <3> QED BY <3>2 DEF Rounds
    <2> QED BY <1>2, <2>5
  <1> QED BY <1>3, <1>4

\* Upward is the last round, when no groups can be left to find.
LEMMA UpwardRounds ==
  ASSUME NEW u, NEW groups, Cardinality(GroupIds) \in Nat
  PROVE  \E up : /\ Rounds(up, Cardinality(GroupIds), u, groups)
                 /\ Upward(u, groups) = up[Cardinality(GroupIds)]
  <1> DEFINE N == Cardinality(GroupIds)
             up == CHOOSE f : Rounds(f, N, u, groups)
  <1>1. Rounds(up, N, u, groups)
    BY RoundsExist
  <1>2. Upward(u, groups) = up[N]
    BY DEF Upward, Rounds, Direct, Above
  <1> QED BY <1>1, <1>2

\* Each round adds the groups above those found, and keeps these.
LEMMA RoundsGrow ==
  ASSUME NEW N \in Nat, NEW u, NEW groups, NEW up, Rounds(up, N, u, groups)
  PROVE  /\ up[0] = Direct(u, groups)
         /\ \A i \in 1..N : up[i] = up[i-1] \cup Above(up[i-1], groups)
         /\ \A i, k \in 0..N : i <= k => up[i] \subseteq up[k]
  <1>1. up[0] = Direct(u, groups)
    BY DEF Rounds
  <1>2. \A i \in 1..N : up[i] = up[i-1] \cup Above(up[i-1], groups)
    <2> SUFFICES ASSUME NEW i \in 1..N
                 PROVE  up[i] = up[i-1] \cup Above(up[i-1], groups)
      OBVIOUS
    <2>1. i \in 0..N /\ i # 0
      OBVIOUS
    <2>2. \A k \in 0..N : up[k] = IF k = 0 THEN Direct(u, groups)
                         ELSE up[k-1] \cup Above(up[k-1], groups)
      BY Zenon DEF Rounds
    <2> QED BY <2>1, <2>2
  <1>3. ASSUME NEW i \in 0..N, NEW m \in 0..N, i <= m, ~(up[i] \subseteq up[m])
        PROVE  FALSE
    <2> DEFINE Bad == {k \in i..N : ~(up[i] \subseteq up[k])}
    <2>1. Bad \subseteq Nat /\ Bad # {}
      BY <1>3
    <2> HIDE DEF Bad
    <2>2. PICK k \in Bad : \A l \in Bad : k <= l
      BY <2>1, Least
    <2>3. k \in i..N /\ ~(up[i] \subseteq up[k])
      BY DEF Bad
    <2>4. k # i
      BY <2>3
    <2>5. k - 1 \in i..N /\ k - 1 \notin Bad /\ k \in 1..N
      BY <2>1, <2>2, <2>3, <2>4
    <2>6. up[i] \subseteq up[k - 1]
      BY <2>5 DEF Bad
    <2> QED BY <1>2, <2>3, <2>5, <2>6
  <1> QED BY <1>1, <1>2, <1>3

\* The search of _resolved_identity finds the groups around a user: as many
\* rounds as there are groups are enough, since each that finds more finds a
\* group no earlier one had found.
LEMMA UpwardIsAround ==
  ASSUME NEW u, NEW groups \in [GroupIds -> Group \cup {None}]
  PROVE  Upward(u, groups) = GroupsAround(groups, u)
  <1> DEFINE N == Cardinality(GroupIds)
  <1>0. IsFiniteSet(GroupIds) /\ N \in Nat
    BY RowsAssumption, FS_CardinalityType
  <1>1. PICK up : Rounds(up, N, u, groups) /\ Upward(u, groups) = up[N]
    BY <1>0, UpwardRounds
  <1>x. Existing(groups) \subseteq GroupIds
    BY DEF Existing
  <1> HIDE DEF N
  <1>2. /\ up[0] = Direct(u, groups)
        /\ \A i \in 1..N : up[i] = up[i-1] \cup Above(up[i-1], groups)
        /\ \A i, k \in 0..N : i <= k => up[i] \subseteq up[k]
    BY <1>0, <1>1, RoundsGrow
  \* What is found is around the user.
  <1>3. ASSUME NEW S \in SUBSET Existing(groups),
               \A g \in Existing(groups) :
                  groups[g].members \cap (S \cup {u}) # {} => g \in S
        PROVE  up[N] \subseteq S
    <2> DEFINE Bad == {k \in 0..N : ~(up[k] \subseteq S)}
    <2> SUFFICES ASSUME Bad # {} PROVE FALSE
      BY <1>0
    <2>1. Bad \subseteq Nat
      OBVIOUS
    <2> HIDE DEF Bad
    <2>2. PICK k \in Bad : \A l \in Bad : k <= l
      BY <2>1, Least
    <2>3. k \in 0..N /\ ~(up[k] \subseteq S)
      BY DEF Bad
    <2>4. up[0] \subseteq S
      BY <1>2, <1>3 DEF Direct
    <2>5. k - 1 \in 0..N /\ k - 1 \notin Bad /\ k \in 1..N
      BY <1>0, <2>1, <2>2, <2>3, <2>4
    <2>6. up[k - 1] \subseteq S
      BY <2>5 DEF Bad
    <2>7. Above(up[k - 1], groups) \subseteq S
      BY <1>3, <2>6 DEF Above
    <2> QED BY <1>2, <2>3, <2>5, <2>6, <2>7
  \* All that is around the user is found.
  <1>4. up[N] \subseteq Existing(groups)
    <2>1. \A g \in Existing(groups) :
             groups[g].members \cap (Existing(groups) \cup {u}) # {}
                => g \in Existing(groups)
      OBVIOUS
    <2> QED BY <2>1, <1>3
  <1>5. Direct(u, groups) \subseteq up[N]
    BY <1>0, <1>2
  <1>6. ASSUME NEW g0 \in Above(up[N], groups), g0 \notin up[N] PROVE FALSE
    <2>1. g0 \in GroupIds
      BY <1>6, <1>x DEF Above
    <2>2. ASSUME NEW i \in 1..N, up[i] = up[i-1] PROVE FALSE
      <3> DEFINE Bad == {k \in i..N : up[k] # up[i-1]}
      <3>1. Bad \subseteq Nat
        OBVIOUS
      <3>2. CASE Bad = {}
        <4>1. up[N] = up[i-1]
          BY <1>0, <3>2
        <4>2. up[i] = up[i-1] \cup Above(up[i-1], groups)
          BY <1>2
        <4> QED BY <1>6, <2>2, <4>1, <4>2
      <3>3. CASE Bad # {}
        <4> HIDE DEF Bad
        <4>1. PICK k \in Bad : \A l \in Bad : k <= l
          BY <3>1, <3>3, Least
        <4>2. k \in i..N /\ up[k] # up[i-1]
          BY DEF Bad
        <4>3. k # i
          BY <2>2, <4>2
        <4>4. k - 1 \in i..N /\ k - 1 \notin Bad /\ k \in 1..N
          BY <1>0, <3>1, <4>1, <4>2, <4>3
        <4>5. up[k - 1] = up[i - 1]
          BY <4>4 DEF Bad
        <4>6. /\ up[k] = up[k-1] \cup Above(up[k-1], groups)
              /\ up[i] = up[i-1] \cup Above(up[i-1], groups)
          BY <1>2, <4>4
        <4> QED BY <2>2, <4>2, <4>5, <4>6
      <3> QED BY <3>2, <3>3
    <2> DEFINE h == [i \in 1..N |-> CHOOSE g : g \in up[i] \ up[i-1]]
    <2>3. \A i \in 1..N : h[i] \in up[i] \ up[i-1]
      <3> SUFFICES ASSUME NEW i \in 1..N PROVE h[i] \in up[i] \ up[i-1]
        OBVIOUS
      <3>1. up[i-1] \subseteq up[i] /\ up[i] # up[i-1]
        BY <1>0, <1>2, <2>2
      <3>2. \E g : g \in up[i] \ up[i-1]
        BY <3>1
      <3> QED BY <3>2
    <2> HIDE DEF h
    <2>4. \A i \in 1..N : h[i] \in GroupIds \ {g0}
      <3> SUFFICES ASSUME NEW i \in 1..N PROVE h[i] \in GroupIds \ {g0}
        OBVIOUS
      <3>1. up[i] \subseteq up[N]
        BY <1>0, <1>2
      <3> QED BY <1>4, <1>6, <1>x, <2>3, <3>1
    <2>5. h \in [1..N -> GroupIds \ {g0}]
      BY <2>4 DEF h
    <2>6. /\ IsFiniteSet(GroupIds \ {g0})
          /\ Cardinality(GroupIds \ {g0}) = N - 1
      <3>1. /\ IsFiniteSet(GroupIds \ {g0})
            /\ Cardinality(GroupIds \ {g0}) =
                  IF g0 \in GroupIds THEN Cardinality(GroupIds) - 1
                                     ELSE Cardinality(GroupIds)
        BY <1>0, FS_RemoveElement
      <3> QED BY <2>1, <3>1 DEF N
    <2>7. IsFiniteSet(1..N) /\ Cardinality(1..N) = N
      BY <1>0, FS_Interval
    <2>8. PICK i, k \in 1..N : i # k /\ h[i] = h[k]
      <3>1. Cardinality(GroupIds \ {g0}) < Cardinality(1..N)
        BY <1>0, <2>6, <2>7
      <3> DEFINE I == 1..N  T == GroupIds \ {g0}
      <3>2. /\ IsFiniteSet(I) /\ IsFiniteSet(T) /\ h \in [I -> T]
            /\ Cardinality(T) < Cardinality(I)
        BY <2>5, <2>6, <2>7, <3>1
      <3> HIDE DEF I, T
      <3>3. \E i, k \in I : i # k /\ h[i] = h[k]
        BY <3>2, FS_PigeonHole
      <3> QED BY <3>3 DEF I
    <2>9. ASSUME NEW a \in 1..N, NEW b \in 1..N, a < b, h[a] = h[b] PROVE FALSE
      <3>1. up[a] \subseteq up[b - 1]
        BY <1>0, <1>2, <2>9
      <3> QED BY <2>3, <2>9, <3>1
    <2>10. i < k \/ k < i
      BY <2>8
    <2> QED BY <2>8, <2>9, <2>10
  <1>7. \A g \in Existing(groups) :
           groups[g].members \cap (up[N] \cup {u}) # {} => g \in up[N]
    BY <1>5, <1>6 DEF Direct, Above
  <1> QED BY <1>1, <1>3, <1>4, <1>7 DEF GroupsAround

\* What _resolved_identity gives an existing user of a sound directory.
LEMMA IdentityIsEntitlement ==
  ASSUME NEW s \in Store, Acyclic(s.groups), NEW u \in Existing(s.users)
  PROVE  /\ Identity(s, u) \in Assignments \cup {None}
         /\ \A a \in Assignments : Identity(s, u) = a <=> Entitled(s, u, a)
  <1> DEFINE around == GroupsAround(s.groups, u)
             given == AssignmentsOf(s, u)
  <1>0. /\ s.users[u] \in User
        /\ s.groups \in [GroupIds -> Group \cup {None}]
    BY DEF Store, Existing
  <1>1. Upward(u, s.groups) = around
    BY <1>0, UpwardIsAround
  <1>2. around \subseteq GroupIds /\ \A g \in around : s.groups[g] \in Group
    BY <1>0 DEF GroupsAround, Existing
  <1>3. given = ({s.users[u].assignment}
                   \cup {s.groups[g].assignment : g \in around})
                \ {NoAssignment}
    BY DEF AssignmentsOf
  <1> HIDE DEF around, given
  <1>4. given \subseteq Assignments
    BY <1>0, <1>2, <1>3 DEF User, Group
  <1>5. IsFiniteSet(given)
    <2> DEFINE f == [g \in around |-> s.groups[g].assignment]
               T == {s.groups[g].assignment : g \in around}
               all == T \cup {s.users[u].assignment}
    <2>1. IsFiniteSet(around)
      BY <1>2, RowsAssumption, FS_Subset
    <2>2. f \in Surjection(around, T)
      BY DEF Surjection
    <2>3. IsFiniteSet(T)
      BY <2>1, <2>2, FS_Surjection
    <2>4. IsFiniteSet(all)
      <3> HIDE DEF T
      <3> QED BY <2>3, FS_AddElement
    <2>5. given \in SUBSET all
      BY <1>3
    <2> HIDE DEF all
    <2> QED BY <2>4, <2>5, FS_Subset
  <1>6. Cardinality(given) = 1 <=> \E a : given = {a}
    BY <1>5, FS_Singleton
  <1>7. Identity(s, u) = IF s.users[u].active /\ Cardinality(given) = 1
                         THEN CHOOSE a \in given : TRUE ELSE None
    BY <1>1, <1>3 DEF Identity
  <1>8. None \notin Assignments
    BY RowsAssumption
  <1>9. CASE s.users[u].active /\ \E a : given = {a}
    <2>1. PICK a : given = {a}
      BY <1>9
    <2>2. Identity(s, u) = a
      BY <1>6, <1>7, <1>9, <2>1
    <2>3. a \in Assignments
      BY <1>4, <2>1
    <2> QED BY <1>9, <2>1, <2>2, <2>3 DEF Entitled, given
  <1>10. CASE ~(s.users[u].active /\ \E a : given = {a})
    <2>1. Identity(s, u) = None
      BY <1>6, <1>7, <1>10
    <2>2. \A a : ~Entitled(s, u, a)
      BY <1>10 DEF Entitled, given
    <2> QED BY <1>8, <2>1, <2>2
  <1> QED BY <1>9, <1>10

\* What an OIDC subject is given, they are entitled to as the user they are.
LEMMA SubjectIsEntitled ==
  ASSUME NEW s \in Store, Acyclic(s.groups), NEW x \in Subjects
  PROVE  /\ SubjectIdentity(s, x) \in Assignments \cup {None}
         /\ \A a \in Assignments : SubjectIdentity(s, x) = a =>
               \E u \in Existing(s.users) :
                  s.users[u].subject = x /\ Entitled(s, u, a)
  <1> DEFINE found == {u \in Existing(s.users) : s.users[u].subject = x}
             u == CHOOSE v \in found : TRUE
  <1>1. None \notin Assignments
    BY RowsAssumption
  <1>2. CASE found = {}
    BY <1>1, <1>2 DEF SubjectIdentity
  <1>3. CASE found # {}
    <2>1. u \in found
      BY <1>3
    <2>2. SubjectIdentity(s, x) = Identity(s, u)
      BY <1>3 DEF SubjectIdentity
    <2> HIDE DEF u
    <2> QED BY <2>1, <2>2, IdentityIsEntitlement
  <1> QED BY <1>2, <1>3

-----------------------------------------------------------------------------
(* Steps.                                                                    *)

\* A step by which client c stops holding the lock, or never had it.
LEMMA NotHolding ==
  ASSUME NEW c \in Clients, job'[c].stage \notin {"staged", "half"}, lock' # c
  PROVE  Prepared(c)'
  BY DEF Prepared, Holding

\* Half a removal.
LEMMA HalfWorks ==
  ASSUME TypeOK, JobsInv, NEW c \in Clients, job[c].stage = "staged",
         job' = [job EXCEPT ![c].stage = "half"]
  PROVE  Works(c) /\ job'[c] = [job[c] EXCEPT !.stage = "half"]
  <1> DEFINE j == job[c]
             new == [j EXCEPT !.stage = "half"]
  <1>0. /\ j \in Jobs /\ Listed(j) /\ j.stage = "staged"
        /\ job' = [job EXCEPT ![c] = new]
    BY DEF TypeOK, JobsInv
  <1> HIDE DEF j
  <1>1. /\ new \in Jobs /\ new.stage = "half"
        /\ new.ops = j.ops /\ new.limit = j.limit
        /\ new.ids = j.ids /\ new.ok = j.ok /\ new.failed = j.failed
        /\ new.stuck = j.stuck /\ new.progress = j.progress
        /\ new.todo = j.todo /\ new.later = j.later
    BY <1>0 DEF Jobs, Stages
  <1> HIDE DEF new
  <1>2. Op(new) = Op(j) /\ (Sorted(j) => Sorted(new))
    BY <1>1 DEF Op, Current, Sorted
  <1>3. Listed(new)
    BY <1>0, <1>1, <1>2 DEF Listed
  <1>4. Works(c) /\ job'[c] = new
    BY <1>0, <1>1, <1>3, NewJob
  <1> QED BY <1>4 DEF new, j

\* While its rows are staged or half saved a job has not reached its limit.
LEMMA BelowLimit ==
  ASSUME TypeOK, JobsInv, NEW c \in Clients, Holding(c)
  PROVE  ~Reached(job[c]) /\ job[c].todo # <<>>
  <1> DEFINE j == job[c]
  <1>0. j \in Jobs /\ Listed(j) /\ Prepared(c) /\ j.todo # <<>>
    BY DEF TypeOK, JobsInv, Prepared
  <1>1. Sorted(j) /\ (j.limit # 0 => Cardinality(j.failed) < j.limit)
    BY <1>0 DEF Listed, Holding
  <1> HIDE DEF j
  <1>2. Cardinality(j.failed) \in Nat /\ j.limit \in Nat
    BY <1>0, <1>1, FailuresAreFinite DEF Jobs
  <1> QED BY <1>0, <1>1, <1>2 DEF Reached, j

\* Each step of a client leaves it prepared, and the others what they have.
LEMMA CallerPrepared ==
  ASSUME TypeOK, JobsInv, NEW c \in Clients,
         \/ \E r \in Requests : Submit(c, r)
         \/ Step(c) \/ SaveFails(c)
  PROVE  /\ Works(c) /\ UNCHANGED backend /\ Prepared(c)'
         /\ store' = store \/ lock = c
         /\ lock' = lock \/ (lock \in {c, NoClient} /\ lock' \in {c, NoClient})
  <1> USE DirectoryAssumption
  <1>0. Prepared(c) /\ c # NoClient /\ (lock = c <=> Holding(c))
    BY DEF JobsInv, Prepared
  <1>1. CASE \E r \in Requests : Submit(c, r)
    <2>1. PICK r \in Requests : Submit(c, r)
      BY <1>1
    <2>2. Works(c) /\ job'[c].stage = "running"
      BY <2>1, SubmitWorks
    <2>3. UNCHANGED <<backend, store, lock>> /\ ~Holding(c)
      BY <2>1 DEF Submit, Holding
    <2> QED BY <1>0, <2>2, <2>3, NotHolding
  <1>2. CASE Defer(c)
    <2>1. Works(c) /\ job'[c].stage = "running"
      BY <1>2, DeferWorks
    <2>2. UNCHANGED <<backend, store, lock>> /\ ~Holding(c)
      BY <1>2 DEF Defer, Running, Holding
    <2> QED BY <1>0, <2>1, <2>2, NotHolding
  <1>3. CASE Refuse(c)
    <2>1. /\ UNCHANGED <<backend, store, lock>> /\ ~Holding(c)
          /\ job' = [job EXCEPT ![c] = Failed(job[c])]
          /\ job[c].stage = "running" /\ job[c].todo # <<>>
          /\ ~Reached(job[c])
      BY <1>3 DEF Refuse, Running, Holding
    <2>2. Works(c) /\ job'[c].stage = "running"
      BY <2>1, FailedWorks
    <2> QED BY <1>0, <2>1, <2>2, NotHolding
  <1>4. CASE NextPass(c) \/ GiveUp(c) \/ Finish(c) \/ Answer(c)
    <2>1. Works(c) /\ job'[c].stage \in {"running", "answered", "idle"}
      BY <1>4, PassWorks
    <2>2. UNCHANGED <<backend, store, lock>> /\ ~Holding(c)
      BY <1>4 DEF NextPass, GiveUp, Finish, Answer, PassIsOver, Holding
    <2> QED BY <1>0, <2>1, <2>2, NotHolding
  <1>5. CASE SaveFails(c)
    <2>1. /\ UNCHANGED <<backend, store>> /\ Holding(c) /\ lock' = NoClient
          /\ job' = [job EXCEPT ![c] = Failed(job[c])]
      BY <1>5 DEF SaveFails, Holding
    <2>2. ~Reached(job[c]) /\ job[c].todo # <<>>
      BY <2>1, BelowLimit
    <2>3. Works(c) /\ job'[c].stage = "running"
      BY <2>1, <2>2, FailedWorks DEF Holding
    <2> QED BY <1>0, <2>1, <2>3, NotHolding
  <1>6. CASE Begin(c)
    <2> DEFINE j == job[c]  id == Target(j)  op == Op(j)
               after == After(store, op, id, j.ids)
    <2>1. /\ Works(c)
          /\ job'[c] = [j EXCEPT !.stage = "staged", !.target = id,
                                 !.staged = after]
          /\ id \in IdsOf(op) /\ after \in Store
      BY <1>6, BeginWorks
    <2>2. /\ UNCHANGED <<backend, store>> /\ lock = NoClient /\ lock' = c
          /\ VersionMatches(j, id) /\ Accepted(store, op, id, j.ids)
          /\ j.todo # <<>>
      BY <1>6 DEF Begin, Loaded, Running
    <2>3. j \in Jobs
      BY DEF TypeOK
    <2>v. (j.conditional /\ op.method # "POST" /\ ~IsReference(op.id)) =>
             Rows(j.seen, op)[id] = Rows(store, op)[id]
      BY <2>2 DEF VersionMatches, Loaded
    <2> HIDE DEF j, id, after
    <2>4. /\ job'[c].stage = "staged" /\ job'[c].target = id
          /\ job'[c].staged = after /\ job'[c].todo = j.todo
          /\ job'[c].ops = j.ops /\ job'[c].ids = j.ids
          /\ job'[c].conditional = j.conditional /\ job'[c].seen = j.seen
      BY <2>1, <2>3 DEF Jobs
    <2>5. Op(job'[c]) = op
      BY <2>4 DEF Op, Current
    <2> HIDE DEF op
    <2>6. Prepared(c)'
      BY <2>1, <2>2, <2>v, <2>4, <2>5 DEF Prepared, Holding, IdsOf, after
    <2> QED BY <2>1, <2>2, <2>6
  <1>7. CASE Commit(c) \/ SaveUsers(c) \/ SaveGroups(c)
    <2>1. Holding(c) /\ UNCHANGED backend
      BY <1>7 DEF Commit, SaveUsers, SaveGroups, Holding
    <2>2. CASE Done(c)
      <3>1. lock' = NoClient /\ job' = [job EXCEPT ![c] = Succeeded(job[c])]
        BY <2>2 DEF Done
      <3>2. Works(c) /\ job'[c].stage = "running"
        BY <2>1, <3>1, SucceededWorks
      <3> QED BY <1>0, <2>1, <3>1, <3>2, NotHolding
    <2>3. CASE /\ job[c].stage = "staged" /\ RemovesUser(job[c])
               /\ backend = "json"
               /\ store' = [users |-> [store.users EXCEPT ![job[c].target] = None],
                            groups |-> store.groups]
               /\ job[c].staged.groups = Without(store.groups, job[c].target)
               /\ job' = [job EXCEPT ![c].stage = "half"]
               /\ UNCHANGED <<lock, used>>
      <3> DEFINE j == job[c]
      <3>1. Works(c) /\ job'[c] = [j EXCEPT !.stage = "half"]
        BY <2>3, HalfWorks
      <3>2. /\ j \in Jobs /\ j.todo # <<>> /\ j.staged \in Store
            /\ j.target \in IdsOf(Op(j))
        BY <1>0, <2>1 DEF TypeOK, Prepared, IdsOf
      <3>3. /\ RemovesUser(j) /\ backend' = "json" /\ lock' = c
            /\ store'.users = [store.users EXCEPT ![j.target] = None]
            /\ store'.groups = store.groups
            /\ j.staged.groups = Without(store.groups, j.target)
            /\ store.users \in [UserIds -> User \cup {None}]
        BY <1>0, <2>1, <2>3 DEF TypeOK, Store
      <3> HIDE DEF j
      <3>4. /\ job'[c].stage = "half" /\ job'[c].target = j.target
            /\ job'[c].staged = j.staged /\ job'[c].todo = j.todo
            /\ job'[c].ops = j.ops
        BY <3>1, <3>2 DEF Jobs
      <3>5. Op(job'[c]) = Op(j)
        BY <3>4 DEF Op, Current
      <3>6. RemovesUser(job'[c]) /\ store'.users[j.target] = None
        BY <3>2, <3>3, <3>5 DEF RemovesUser, IdsOf
      <3>7. Prepared(c)'
        BY <3>2, <3>3, <3>4, <3>5, <3>6 DEF Prepared, Holding, IdsOf
      <3> QED BY <1>0, <2>1, <2>3, <3>1, <3>7
    <2> QED BY <1>7, <2>2, <2>3, Saves
  <1> QED BY <1>1, <1>2, <1>3, <1>4, <1>5, <1>6, <1>7 DEF Step

\* A crash leaves the dead idle and the others as they were.
LEMMA CrashPrepared ==
  ASSUME TypeOK, JobsInv, NEW c \in Clients, Crash(c)
  PROVE  JobsInv' /\ job' \in [Clients -> Jobs]
  <1> DEFINE dead == IF backend = "json" THEN Clients ELSE {c}
  <1>0. /\ lock' = IF lock \in dead THEN NoClient ELSE lock
        /\ job' = [d \in Clients |-> IF d \in dead THEN Idle ELSE job[d]]
        /\ UNCHANGED <<store, backend>>
    BY DEF Crash
  <1> HIDE DEF dead
  <1>1. job' \in [Clients -> Jobs]
    BY <1>0, IdleJob DEF TypeOK
  <1>2. ASSUME NEW d \in Clients PROVE Prepared(d)' /\ Listed(job[d])'
    <2>1. Prepared(d) /\ Listed(job[d]) /\ d # NoClient
      BY DirectoryAssumption DEF JobsInv
    <2>2. CASE d \in dead
      <3>1. job'[d] = Idle /\ lock' # d
        BY <1>0, <2>1, <2>2
      <3>2. Idle.stage = "idle"
        BY DEF Idle
      <3> QED BY <3>1, <3>2, IdleJob, NotHolding
    <2>3. CASE d \notin dead
      <3>1. job'[d] = job[d] /\ (lock' = d <=> lock = d)
        BY <1>0, <2>1, <2>3
      <3> QED BY <1>0, <2>1, <3>1 DEF Prepared, Holding
    <2> QED BY <2>2, <2>3
  <1> QED BY <1>1, <1>2 DEF JobsInv

\* Identifiers that members may have without a row.
Excused == cut \cup UNION {Cut(c) : c \in Clients}

\* Only users are removed by halves.
LEMMA CutUsers ==
  ASSUME JobsInv, NEW c \in Clients
  PROVE  Cut(c) \subseteq UserIds
  <1>1. CASE job[c].stage = "half"
    <2>1. Prepared(c) /\ Holding(c)
      BY <1>1 DEF JobsInv, Holding
    <2>2. RemovesUser(job[c])
      BY <1>1, <2>1 DEF Prepared
    <2>3. job[c].target \in UserIds
      BY <2>1, <2>2 DEF Prepared, RemovesUser
    <2> QED BY <2>3 DEF Cut
  <1>2. CASE job[c].stage # "half"
    BY <1>2 DEF Cut
  <1> QED BY <1>1, <1>2

\* The rows stay sound while nobody saves, and no excuse is forgotten.
LEMMA SoundUnsaved ==
  ASSUME DirectoryIsSound, UNCHANGED <<backend, store>>,
         Excused \subseteq Excused'
  PROVE  DirectoryIsSound'
  BY DEF DirectoryIsSound, GroupsAreSound, NamesAreUnique, Excused

\* The excuses when client c goes on and the others stay.
LEMMA OwnExcuse ==
  ASSUME NEW c \in Clients, \A d \in Clients \ {c} : job'[d] = job[d],
         cut \subseteq cut', Cut(c) \subseteq cut' \cup Cut(c)'
  PROVE  Excused \subseteq Excused'
  <1>1. \A d \in Clients \ {c} : Cut(d)' = Cut(d)
    BY DEF Cut
  <1>2. ASSUME NEW d \in Clients, NEW x \in Cut(d)
        PROVE  x \in cut' \cup UNION {Cut(e)' : e \in Clients}
    BY <1>1
  <1> QED BY <1>2 DEF Excused

\* Saving keeps the rows sound: what may be without its row is the user whose
\* removal is half done.
LEMMA SavesSound ==
  ASSUME DirectoryInv, NEW c \in Clients,
         Commit(c) \/ SaveUsers(c) \/ SaveGroups(c), Works(c)
  PROVE  DirectoryIsSound' /\ store' \in Store
  <1> DEFINE j == job[c]  id == job[c].target
             after == job[c].staged
  <1>0. /\ TypeOK /\ JobsInv /\ Acyclic(store.groups) /\ RowsDiffer(store)
        /\ store \in Store /\ j \in Jobs
        /\ Dangling(store) \subseteq Excused
        /\ backend = "database" => MembersExist(store)
    BY DEF DirectoryInv, DirectoryIsSound, GroupsAreSound, NamesAreUnique, TypeOK,
           Dangling, Excused
  <1>1. UNCHANGED <<backend, cut>>
    BY DEF Commit, SaveUsers, SaveGroups
  <1>2. \A d \in Clients \ {c} : Cut(d)' = Cut(d)
    BY DEF Works, Cut
  <1>3. ASSUME store' \in Store, Acyclic(store.groups)', RowsDiffer(store)',
               Dangling(store)' \subseteq Excused',
               backend = "database" => MembersExist(store)'
        PROVE  DirectoryIsSound' /\ store' \in Store
    BY <1>1, <1>3 DEF DirectoryIsSound, GroupsAreSound, NamesAreUnique,
                      Dangling, Excused
  <1>4. Excused \subseteq Excused' \cup Cut(c)
    <2> SUFFICES ASSUME NEW x \in Excused, x \notin Cut(c)
                 PROVE  x \in Excused'
      OBVIOUS
    <2>1. CASE x \in cut
      BY <1>1, <2>1 DEF Excused
    <2>2. CASE x \notin cut
      <3>1. PICK d \in Clients : x \in Cut(d)
        BY <2>2 DEF Excused
      <3>2. x \in Cut(d)'
        BY <1>2, <3>1
      <3> QED BY <3>2 DEF Excused
    <2> QED BY <2>1, <2>2
  <1>5. CASE j.stage = "staged" /\ store' = after
    <2>1. /\ \/ PutsUser(store, Op(j), id, after)
             \/ PutsGroup(store, Op(j), id, after)
             \/ DropsUser(store, Op(j), id, after)
             \/ DropsGroup(store, Op(j), id, after)
      BY <1>0, <1>5, StagedRuns, FourChanges
    <2>2. /\ after \in Store /\ Acyclic(after.groups) /\ RowsDiffer(after)
          /\ Dangling(after) \subseteq Dangling(store)
          /\ MembersExist(store) => MembersExist(after)
      BY <1>0, <2>1, ChangeKeepsRules
    <2>3. Cut(c) = {}
      BY <1>5 DEF Cut
    <2> QED BY <1>0, <1>3, <1>4, <1>5, <2>2, <2>3
  <1>6. CASE /\ j.stage = "staged" /\ RemovesUser(j) /\ backend = "json"
             /\ store' = [users |-> [store.users EXCEPT ![id] = None],
                          groups |-> store.groups]
             /\ job' = [job EXCEPT ![c].stage = "half"]
    <2>1. id \in UserIds
      <3>1. Prepared(c) /\ Holding(c)
        BY <1>0, <1>6 DEF JobsInv, Holding
      <3> QED BY <1>6, <3>1 DEF Prepared, RemovesUser
    <2>2. /\ store.users \in [UserIds -> User \cup {None}]
          /\ store.groups \in [GroupIds -> Group \cup {None}]
          /\ store'.users = [store.users EXCEPT ![id] = None]
          /\ store'.groups = store.groups
      BY <1>0, <1>6 DEF Store
    <2>3. store' \in Store
      BY <1>6, <2>1, <2>2 DEF Store
    <2>4. Existing(store'.users) = Existing(store.users) \ {id}
      BY <2>1, <2>2 DEF Existing
    <2>5. RowsDiffer(store)'
      <3>1. \A u \in Existing(store'.users) : store'.users[u] = store.users[u]
        BY <2>1, <2>2, <2>4 DEF Existing
      <3> QED BY <1>0, <2>2, <2>4, <3>1 DEF RowsDiffer
    <2>6. Dangling(store)' \subseteq Dangling(store) \cup {id}
      BY <2>2, <2>4 DEF Dangling, Members
    <2>7. Cut(c)' = {id} /\ Cut(c) = {}
      <3>1. job'[c] = [j EXCEPT !.stage = "half"]
        BY <1>0, <1>6 DEF TypeOK
      <3>2. job'[c].stage = "half" /\ job'[c].target = id
        BY <1>0, <3>1 DEF Jobs
      <3> QED BY <1>6, <3>2 DEF Cut
    <2>8. {id} \subseteq Excused'
      BY <2>7 DEF Excused
    <2> QED
      BY <1>0, <1>3, <1>4, <1>6, <2>2, <2>3, <2>5, <2>6, <2>7, <2>8
  <1>7. CASE /\ j.stage = "half"
             /\ store' = [users |-> store.users,
                          groups |-> Without(store.groups, id)]
    <2>1. Prepared(c)
      BY <1>0 DEF JobsInv
    <2>2. backend = "json" /\ Cut(c) = {id}
      BY <1>7, <2>1 DEF Prepared, Cut
    <2>3. /\ store.users \in [UserIds -> User \cup {None}]
          /\ store.groups \in [GroupIds -> Group \cup {None}]
          /\ store'.users = store.users
          /\ store'.groups = Without(store.groups, id)
      BY <1>0, <1>7 DEF Store
    <2>4. /\ store'.groups \in [GroupIds -> Group \cup {None}]
          /\ Existing(store'.groups) = Existing(store.groups)
          /\ \A g \in Existing(store.groups) :
                /\ store'.groups[g].members = store.groups[g].members \ {id}
                /\ store'.groups[g].name = store.groups[g].name
          /\ Acyclic(store.groups) => Acyclic(store'.groups)
      BY <2>3, WithoutGroups
    <2>5. store' \in Store
      BY <1>7, <2>3, <2>4 DEF Store
    <2>6. RowsDiffer(store)'
      BY <1>0, <2>3, <2>4 DEF RowsDiffer
    <2>7. Dangling(store)' \subseteq Dangling(store) \ {id}
      BY <2>3, <2>4 DEF Dangling, Members
    <2> QED BY <1>0, <1>3, <1>4, <2>2, <2>4, <2>5, <2>6, <2>7
  <1> QED BY <1>0, <1>5, <1>6, <1>7, Saves

\* The service starts with sound rows and nobody at work.
LEMMA DirectoryInit == Init => DirectoryInv
  <1> SUFFICES ASSUME Init PROVE DirectoryInv
    OBVIOUS
  <1> USE DEF Init
  <1>1. store \in Store /\ Acyclic(store.groups) /\ MembersExist(store)
        /\ RowsDiffer(store)
    BY InitialAssumption
  <1>2. used \subseteq UserIds \cup GroupIds
    BY <1>1 DEF Store, Existing
  <1>3. TypeOK
    BY <1>1, <1>2, IdleJob DEF TypeOK
  <1>4. JobsInv
    <2> SUFFICES ASSUME NEW c \in Clients
                 PROVE  Prepared(c) /\ Listed(job[c])
      BY DEF JobsInv
    <2>1. job[c] = Idle /\ Idle.stage = "idle" /\ lock # c
      BY DirectoryAssumption DEF Idle
    <2> QED BY <2>1, IdleJob DEF Prepared, Holding
  <1>5. DirectoryIsSound
    BY <1>1 DEF DirectoryIsSound, GroupsAreSound, NamesAreUnique, MembersExist,
                Members
  <1> QED BY <1>3, <1>4, <1>5 DEF DirectoryInv

\* Steps of a client, but for crashes.
LEMMA DirectoryClient ==
  ASSUME DirectoryInv, NEW c \in Clients,
         \/ \E r \in Requests : Submit(c, r)
         \/ Step(c) \/ SaveFails(c)
  PROVE  DirectoryInv'
  <1>0. TypeOK /\ JobsInv /\ DirectoryIsSound
    BY DEF DirectoryInv
  <1>1. /\ Works(c) /\ UNCHANGED backend /\ Prepared(c)'
        /\ store' = store \/ lock = c
        /\ lock' = lock \/ (lock \in {c, NoClient} /\ lock' \in {c, NoClient})
    BY <1>0, CallerPrepared
  <1>2. JobsInv'
    <2>1. \A d \in Clients \ {c} : Prepared(d)' /\ Listed(job[d])'
      BY <1>0, <1>1, OthersPrepared
    <2> QED BY <1>1, <2>1 DEF JobsInv, Works
  <1>3. /\ job' \in [Clients -> Jobs]
        /\ \A d \in Clients \ {c} : job'[d] = job[d]
        /\ lock' \in Clients \cup {NoClient}
        /\ backend' \in Backends
    BY <1>0, <1>1 DEF Works, TypeOK
  <1>4. CASE Commit(c) \/ SaveUsers(c) \/ SaveGroups(c)
    <2>1. DirectoryIsSound' /\ store' \in Store
      BY <1>1, <1>4, SavesSound
    <2>2. job[c].target \in UserIds \cup GroupIds
      <3>1. Holding(c) /\ Prepared(c)
        BY <1>0, <1>4 DEF Commit, SaveUsers, SaveGroups, Holding, JobsInv
      <3> QED BY <3>1 DEF Prepared
    <2>3. /\ used' = used \/ used' = used \cup {job[c].target}
          /\ UNCHANGED <<sessionVars, cut>>
      BY <1>4 DEF Commit, SaveUsers, SaveGroups, Done
    <2>4. TypeOK'
      BY <1>0, <1>3, <2>1, <2>2, <2>3 DEF TypeOK, sessionVars
    <2> QED BY <1>2, <2>1, <2>4 DEF DirectoryInv
  <1>5. CASE ~(Commit(c) \/ SaveUsers(c) \/ SaveGroups(c))
    <2>1. /\ UNCHANGED <<backend, store, used, sessionVars>>
          /\ \/ cut' = cut /\ Cut(c) = {}
             \/ cut' = cut \cup Cut(c)
      BY <1>5 DEF Step, Submit, Defer, Begin, Refuse, NextPass, GiveUp, Finish,
                  Answer, SaveFails, Running, PassIsOver, Cut
    <2>2. cut' \subseteq UserIds
      BY <1>0, <2>1, CutUsers DEF TypeOK
    <2>3. TypeOK'
      BY <1>0, <1>3, <2>1, <2>2 DEF TypeOK, sessionVars
    <2>4. Excused \subseteq Excused'
      BY <1>3, <2>1, OwnExcuse
    <2>5. DirectoryIsSound'
      BY <1>0, <2>1, <2>4, SoundUnsaved
    <2> QED BY <1>2, <2>3, <2>5 DEF DirectoryInv
  <1> QED BY <1>4, <1>5

\* Crashes.
LEMMA DirectoryCrash ==
  ASSUME DirectoryInv, NEW c \in Clients, Crash(c)
  PROVE  DirectoryInv'
  <1> DEFINE dead == IF backend = "json" THEN Clients ELSE {c}
  <1>0. TypeOK /\ JobsInv /\ DirectoryIsSound
    BY DEF DirectoryInv
  <1>1. JobsInv' /\ job' \in [Clients -> Jobs]
    BY <1>0, CrashPrepared
  <1>2. /\ cut' = cut \cup UNION {Cut(d) : d \in dead}
        /\ lock' \in {lock, NoClient}
        /\ job' = [d \in Clients |-> IF d \in dead THEN Idle ELSE job[d]]
        /\ UNCHANGED <<backend, store, used, sessionVars>>
        /\ dead \subseteq Clients
    BY DEF Crash
  <1> HIDE DEF dead
  <1>3. cut' \subseteq UserIds
    <2>1. \A d \in dead : Cut(d) \subseteq UserIds
      BY <1>0, <1>2, CutUsers
    <2> QED BY <1>0, <1>2, <2>1 DEF TypeOK
  <1>4. Excused \subseteq Excused'
    <2> SUFFICES ASSUME NEW x \in Excused, x \notin cut' PROVE x \in Excused'
      BY DEF Excused
    <2>1. PICK d \in Clients : x \in Cut(d)
      BY <1>2 DEF Excused
    <2>2. d \notin dead
      BY <1>2, <2>1
    <2>3. Cut(d)' = Cut(d)
      BY <1>2, <2>2 DEF Cut
    <2> QED BY <2>1, <2>3 DEF Excused
  <1>5. TypeOK'
    BY <1>0, <1>1, <1>2, <1>3 DEF TypeOK, sessionVars
  <1> QED BY <1>0, <1>1, <1>2, <1>4, <1>5, SoundUnsaved DEF DirectoryInv

\* What concerns sessions leaves the directory and the requests alone.
LEMMA DirectorySession ==
  ASSUME DirectoryInv, NEW x \in Subjects, Login(x) \/ Serve(x) \/ EndRequest(x)
  PROVE  DirectoryInv'
  <1>0. TypeOK /\ JobsInv /\ DirectoryIsSound
    BY DEF DirectoryInv
  <1>1. UNCHANGED <<backend, store, used, lock, job, cut>>
    BY DEF Login, Serve, EndRequest
  <1>2. SubjectIdentity(store, x) \in Assignments \cup {None}
    BY <1>0, SubjectIsEntitled DEF TypeOK, DirectoryIsSound, GroupsAreSound
  <1>3. /\ session' \in [Subjects -> Assignments \cup {None}]
        /\ serving' \in [Subjects -> Assignments \cup {None}]
    BY <1>0, <1>2 DEF Login, Serve, EndRequest, TypeOK
  <1>4. TypeOK'
    BY <1>0, <1>1, <1>3 DEF TypeOK
  <1>5. JobsInv'
    BY <1>0, <1>1 DEF JobsInv, Prepared, Holding
  <1>6. Excused' = Excused
    BY <1>1 DEF Excused, Cut
  <1> QED BY <1>0, <1>1, <1>4, <1>5, <1>6, SoundUnsaved DEF DirectoryInv

\* Every step.
LEMMA DirectoryNext == DirectoryInv /\ [Next]_vars => DirectoryInv'
  <1> SUFFICES ASSUME DirectoryInv, [Next]_vars PROVE DirectoryInv'
    OBVIOUS
  <1>1. CASE \E c \in Clients : \/ \E r \in Requests : Submit(c, r)
                                \/ Step(c) \/ SaveFails(c)
    BY <1>1, DirectoryClient
  <1>2. CASE \E c \in Clients : Crash(c)
    BY <1>2, DirectoryCrash
  <1>3. CASE \E x \in Subjects : Login(x) \/ Serve(x) \/ EndRequest(x)
    BY <1>3, DirectorySession
  <1>4. CASE UNCHANGED vars
    BY <1>4 DEF vars, sessionVars, DirectoryInv, TypeOK, JobsInv, Prepared, Holding,
                DirectoryIsSound, GroupsAreSound, NamesAreUnique, Cut
  <1> QED BY <1>1, <1>2, <1>3, <1>4 DEF Next

-----------------------------------------------------------------------------
(* Theorems.                                                                 *)

\* What the requests are about to save is what their operations make of the
\* rows as they are, and the rows are sound: no circle of groups, no
\* member without its row but the users whose removal is half done or was
\* interrupted, no name or subject twice; whatever the requests, replicas,
\* failures and crashes (_validate_group_graph, _check_uniqueness, delete_user).
THEOREM DirectoryInvariant == Spec => []DirectoryInv
  BY DirectoryInit, DirectoryNext, PTL DEF Spec

\* A user has an identity exactly if they are active and all that is assigned
\* to them, at any depth of groups, agrees (_resolved_identity).
THEOREM OneIdentity == Spec => []IdentityIsUnambiguous
  <1>1. ASSUME DirectoryInv PROVE IdentityIsUnambiguous
    <2>1. store \in Store /\ Acyclic(store.groups)
      BY <1>1 DEF DirectoryInv, TypeOK, DirectoryIsSound, GroupsAreSound
    <2> QED BY <2>1, IdentityIsEntitlement DEF IdentityIsUnambiguous, Entitled
  <1> QED BY <1>1, DirectoryInvariant, PTL

\* A request of an OIDC user starts only under an assignment the user has then
\* (_session_identity_is_enabled).
THEOREM SessionsAreChecked == Spec => SessionsFollowTheDirectory
  <1> DEFINE Checked == \A x \in Subjects :
                (serving[x] = None /\ serving'[x] # None) =>
                   \E u \in Existing(store.users) :
                       /\ store.users[u].subject = x
                       /\ Entitled(store, u, serving'[x])
  <1>1. ASSUME DirectoryInv, [Next]_vars PROVE Checked
    <2> SUFFICES ASSUME NEW x \in Subjects,
                        serving[x] = None, serving'[x] # None
                 PROVE  \E u \in Existing(store.users) :
                           /\ store.users[u].subject = x
                           /\ Entitled(store, u, serving'[x])
      OBVIOUS
    <2>0. /\ store \in Store /\ Acyclic(store.groups)
          /\ session \in [Subjects -> Assignments \cup {None}]
          /\ serving \in [Subjects -> Assignments \cup {None}]
      BY <1>1 DEF DirectoryInv, TypeOK, DirectoryIsSound, GroupsAreSound
    <2>1. serving' # serving
      OBVIOUS
    <2>2. PICK y \in Subjects : Serve(y) \/ EndRequest(y)
      BY <1>1, <2>1, ZenonT(60) DEF Next, Step, Submit, Defer, Begin, Refuse, Commit,
            SaveUsers, SaveGroups, SaveFails, Crash, NextPass, GiveUp, Finish,
            Answer, Login, vars, sessionVars
    <2>3. Serve(x)
      BY <2>0, <2>2 DEF Serve, EndRequest
    <2>4. /\ serving'[x] = session[x] /\ session[x] \in Assignments
          /\ SubjectIdentity(store, x) = session[x]
      BY <2>0, <2>3 DEF Serve
    <2> QED BY <2>0, <2>4, SubjectIsEntitled
  <1>2. DirectoryInv /\ [Next]_vars => [Checked]_vars
    BY <1>1
  <1> QED BY <1>2, DirectoryInvariant, PTL DEF Spec, SessionsFollowTheDirectory

\* What saving changes concerns the operation saved, and its version is the
\* one the request named.
LEMMA SavesWhatConcerns ==
  ASSUME DirectoryInv, NEW c \in Clients, Commit(c) \/ SaveUsers(c) \/ SaveGroups(c)
  PROVE  /\ Holding(c)
         /\ \A u \in UserIds : store'.users[u] # store.users[u] =>
               /\ job[c].target = u
               /\ (job[c].conditional /\ Op(job[c]).method # "POST"
                    /\ ~IsReference(Op(job[c]).id))
                       => job[c].seen.users[u] = store.users[u]
         /\ \A g \in GroupIds : store'.groups[g] # store.groups[g] =>
               /\ Concerns(c, store.groups, g)
               /\ (/\ job[c].conditional /\ Op(job[c]).method # "POST"
                   /\ ~IsReference(Op(job[c]).id) /\ job[c].target = g)
                       => job[c].seen.groups[g] = store.groups[g]
  <1> DEFINE j == job[c]  id == job[c].target  op == Op(job[c])
             Named == j.conditional /\ op.method # "POST"
                        /\ ~IsReference(op.id)
  <1>0. /\ TypeOK /\ JobsInv /\ Prepared(c) /\ Holding(c)
        /\ store.users \in [UserIds -> User \cup {None}]
        /\ store.groups \in [GroupIds -> Group \cup {None}]
        /\ store \in Store
    BY DEF DirectoryInv, TypeOK, Store, JobsInv, Commit, SaveUsers, SaveGroups, Holding
  <1>1. j.stage = "staged" /\ Named =>
           Rows(j.seen, op)[id] = Rows(store, op)[id]
    BY <1>0 DEF Prepared
  <1> SUFFICES
        /\ \A u \in UserIds : store'.users[u] # store.users[u] =>
              id = u /\ (Named => j.seen.users[u] = store.users[u])
        /\ \A g \in GroupIds : store'.groups[g] # store.groups[g] =>
              /\ Concerns(c, store.groups, g)
              /\ Named /\ id = g => j.seen.groups[g] = store.groups[g]
    BY <1>0
  <1>2. ASSUME NEW g \in GroupIds,
               Without(store.groups, id)[g] # store.groups[g]
        PROVE  id \in store.groups[g].members
    BY <1>0, <1>2, WithoutGroups
  <1>3. \A u \in UserIds : u \notin GroupIds
    BY RowsAssumption
  <1>4. CASE j.stage = "staged" /\ store' = j.staged
    <2> DEFINE after == j.staged
    <2>1. \/ PutsUser(store, op, id, after) \/ PutsGroup(store, op, id, after)
          \/ DropsUser(store, op, id, after) \/ DropsGroup(store, op, id, after)
      BY <1>0, <1>4, StagedRuns, FourChanges
    <2>2. CASE PutsUser(store, op, id, after)
      <3>1. \A u \in UserIds \ {id} : after.users[u] = store.users[u]
        BY <1>0, <2>2 DEF PutsUser
      <3>2. after.groups = store.groups /\ op.res = "User"
        BY <2>2 DEF PutsUser
      <3> QED BY <1>1, <1>4, <3>1, <3>2 DEF Rows
    <2>3. CASE PutsGroup(store, op, id, after)
      <3>1. \A g \in GroupIds \ {id} : after.groups[g] = store.groups[g]
        BY <1>0, <2>3 DEF PutsGroup
      <3>2. after.users = store.users /\ op.res = "Group"
        BY <2>3 DEF PutsGroup
      <3> QED BY <1>1, <1>4, <3>1, <3>2 DEF Rows, Concerns
    <2>4. CASE DropsUser(store, op, id, after)
      <3>1. /\ \A u \in UserIds \ {id} : after.users[u] = store.users[u]
            /\ after.groups = Without(store.groups, id)
            /\ op.res = "User" /\ op.method = "DELETE" /\ id \in UserIds
        BY <1>0, <2>4 DEF DropsUser
      <3> QED BY <1>1, <1>2, <1>3, <1>4, <3>1 DEF Rows, Concerns
    <2>5. CASE DropsGroup(store, op, id, after)
      <3> DEFINE mid == [store.groups EXCEPT ![id] = None]
      <3>1. /\ after.groups = Without(mid, id) /\ after.users = store.users
            /\ op.res = "Group" /\ op.method = "DELETE" /\ id \in GroupIds
        BY <2>5 DEF DropsGroup
      <3>2. ASSUME NEW g \in GroupIds \ {id},
                   after.groups[g] # store.groups[g]
            PROVE  id \in store.groups[g].members
        <4>1. mid \in [GroupIds -> Group \cup {None}] /\ mid[g] = store.groups[g]
          BY <1>0, <3>1
        <4> HIDE DEF mid
        <4> QED BY <3>1, <3>2, <4>1, WithoutGroups
      <3> QED BY <1>1, <1>4, <3>1, <3>2 DEF Rows, Concerns
    <2> QED BY <2>1, <2>2, <2>3, <2>4, <2>5
  <1>5. CASE /\ j.stage = "staged" /\ RemovesUser(j)
             /\ store' = [users |-> [store.users EXCEPT ![id] = None],
                          groups |-> store.groups]
    <2>1. /\ \A u \in UserIds \ {id} : store'.users[u] = store.users[u]
          /\ store'.groups = store.groups /\ op.res = "User"
      BY <1>0, <1>5 DEF RemovesUser
    <2> QED BY <1>1, <1>5, <2>1 DEF Rows
  <1>6. CASE /\ j.stage = "half"
             /\ store' = [users |-> store.users,
                          groups |-> Without(store.groups, id)]
    <2>1. RemovesUser(j) /\ id \in UserIds
      BY <1>0, <1>6 DEF Prepared, RemovesUser
    <2> QED BY <1>2, <1>3, <1>6, <2>1 DEF RemovesUser, Concerns
  <1> QED BY <1>0, <1>4, <1>5, <1>6, Saves

\* A row changes only by an operation about it, to what that operation made of
\* the row as it was, and a named version is the one replaced (mutation,
\* _if_match_denied).
THEOREM NoUpdateIsLost == Spec => NoLostUpdates
  <1> DEFINE Kept ==
        /\ \A u \in UserIds : store'.users[u] # store.users[u] =>
            \E c \in Clients :
                /\ Holding(c) /\ job[c].target = u
                /\ (job[c].conditional /\ Op(job[c]).method # "POST"
                     /\ ~IsReference(Op(job[c]).id))
                        => job[c].seen.users[u] = store.users[u]
        /\ \A g \in GroupIds : store'.groups[g] # store.groups[g] =>
            \E c \in Clients :
                /\ Holding(c) /\ Concerns(c, store.groups, g)
                /\ (/\ job[c].conditional /\ Op(job[c]).method # "POST"
                    /\ ~IsReference(Op(job[c]).id) /\ job[c].target = g)
                        => job[c].seen.groups[g] = store.groups[g]
  <1>1. ASSUME DirectoryInv, [Next]_vars PROVE Kept
    <2>1. CASE \E c \in Clients : Commit(c) \/ SaveUsers(c) \/ SaveGroups(c)
      <3>1. PICK c \in Clients : Commit(c) \/ SaveUsers(c) \/ SaveGroups(c)
        BY <2>1
      <3> HIDE DEF Kept
      <3>2. /\ Holding(c)
            /\ \A u \in UserIds : store'.users[u] # store.users[u] =>
                  /\ job[c].target = u
                  /\ (job[c].conditional /\ Op(job[c]).method # "POST"
                       /\ ~IsReference(Op(job[c]).id))
                          => job[c].seen.users[u] = store.users[u]
            /\ \A g \in GroupIds : store'.groups[g] # store.groups[g] =>
                  /\ Concerns(c, store.groups, g)
                  /\ (/\ job[c].conditional /\ Op(job[c]).method # "POST"
                      /\ ~IsReference(Op(job[c]).id) /\ job[c].target = g)
                          => job[c].seen.groups[g] = store.groups[g]
        BY <1>1, <3>1, SavesWhatConcerns
      <3> QED BY <3>2 DEF Kept
    <2>2. CASE store' = store
      BY <2>2
    <2> QED
      BY <1>1, <2>1, <2>2 DEF Next, Step, Submit, Defer, Begin, Refuse,
            SaveFails, Crash, NextPass, GiveUp, Finish, Answer, Login, Serve,
            EndRequest, vars
  <1>2. DirectoryInv /\ [Next]_vars => [Kept]_vars
    BY <1>1
  <1> QED BY <1>2, DirectoryInvariant, PTL DEF Spec, NoLostUpdates

\* What BulkAnswers says of one job.
AnswerIsTrue(j) ==
    /\ j.limit = 0 => j.ok \cup j.failed = 1..Len(j.ops)
    /\ j.limit # 0 => Cardinality(j.failed) <= j.limit
    /\ j.ok \cap j.failed = {}
    /\ \A i \in j.ok : References(j.ops[i]) \subseteq j.ok
    /\ \A i \in j.stuck : ~(References(j.ops[i]) \subseteq j.ok)

\* The first entries of a list are no more than their positions.
LEMMA FirstEntries ==
  ASSUME NEW s \in Seq(Nat), NEW n \in Int, n <= Len(s)
  PROVE  LET first == {s[i] : i \in 1..n} IN
         /\ first \subseteq Entries(s)
         /\ n = Len(s) => first = Entries(s)
         /\ IsFiniteSet(first) /\ Cardinality(first) \in Nat
         /\ Cardinality(first) <= IF n < 0 THEN 0 ELSE n
  <1> DEFINE I == 1..n
             first == {s[i] : i \in I}
             f == [i \in I |-> s[i]]
  <1>1. /\ first \subseteq Entries(s)
        /\ n = Len(s) => first = Entries(s)
    BY DEF Entries
  <1>2. /\ IsFiniteSet(I)
        /\ Cardinality(I) = IF n < 0 THEN 0 ELSE n
    <2>1. 1 \in Int /\ n \in Int
      OBVIOUS
    <2>2. /\ IsFiniteSet(1..n)
          /\ Cardinality(1..n) = IF 1 > n THEN 0 ELSE n - 1 + 1
      BY <2>1, FS_Interval
    <2> QED BY <2>2
  <1> HIDE DEF I
  <1>3. f \in Surjection(I, first)
    BY DEF Surjection
  <1> HIDE DEF f, first
  <1>4. IsFiniteSet(first) /\ Cardinality(first) <= Cardinality(I)
    BY <1>2, <1>3, FS_Surjection
  <1>5. Cardinality(first) \in Nat
    BY <1>4, FS_CardinalityType
  <1> QED BY <1>1, <1>2, <1>4, <1>5 DEF first, I

\* A list that ends is answered in full, or up to its limit.
LEMMA FinishAnswers ==
  ASSUME DirectoryInv, NEW c \in Clients, Finish(c)
  PROVE  AnswerIsTrue(job'[c])
  <1> DEFINE j == job[c]
             new == [j EXCEPT !.stage = "answered"]
  <1>0. j \in Jobs /\ Listed(j) /\ j.stage = "running"
    BY DEF DirectoryInv, TypeOK, JobsInv, Finish
  <1>1. job'[c] = new
    BY DEF DirectoryInv, Finish, TypeOK
  <1>2. Reached(j) \/ (j.todo = <<>> /\ j.later = <<>>)
    BY DEF Finish
  <1> HIDE DEF j
  <1>3. /\ new.ops = j.ops /\ new.limit = j.limit /\ new.ok = j.ok
        /\ new.failed = j.failed /\ new.stuck = j.stuck
    BY <1>0 DEF Jobs
  <1> HIDE DEF new
  <1>4. Sorted(j) /\ j.stuck = {}
    BY <1>0 DEF Listed
  <1>5. j.limit = 0 => j.ok \cup j.failed = 1..Len(j.ops)
    <2>1. j.limit = 0 => j.todo = <<>> /\ j.later = <<>>
      BY <1>2 DEF Reached
    <2>2. Entries(<<>>) = {}
      BY DEF Entries
    <2> QED BY <1>4, <2>1, <2>2 DEF Sorted
  <1>6. j.ok \cap j.failed = {}
    BY <1>4 DEF Sorted
  <1>7. /\ j.limit # 0 => Cardinality(j.failed) <= j.limit
        /\ \A i \in j.ok : References(j.ops[i]) \subseteq j.ok
    BY <1>0 DEF Listed
  <1> QED BY <1>1, <1>3, <1>4, <1>5, <1>6, <1>7 DEF AnswerIsTrue

\* What is given up after a pass without progress could not have been done, and
\* is not more than the limit allows.
LEMMA GiveUpAnswers ==
  ASSUME DirectoryInv, NEW c \in Clients, GiveUp(c)
  PROVE  AnswerIsTrue(job'[c])
  <1> DEFINE j == job[c]
             room == j.limit - Cardinality(j.failed)
             n == IF j.limit = 0 \/ Len(j.later) < room THEN Len(j.later)
                                                        ELSE room
             given == {j.later[i] : i \in 1..n}
             new == [j EXCEPT !.stage = "answered", !.stuck = given,
                              !.failed = @ \cup given]
  <1>0. j \in Jobs /\ Listed(j) /\ j.stage = "running"
    BY DEF DirectoryInv, TypeOK, JobsInv, GiveUp, PassIsOver
  <1>1. job'[c] = new
    BY DEF DirectoryInv, GiveUp, TypeOK
  <1>2. j.todo = <<>> /\ ~Reached(j) /\ ~j.progress
    BY DEF GiveUp, PassIsOver, Progressed
  <1> HIDE DEF j
  <1>3. /\ j.later \in Seq(Nat) /\ j.limit \in Nat /\ Len(j.later) \in Nat
        /\ Sorted(j)
    BY <1>0 DEF Jobs, Listed
  <1>4. IsFiniteSet(j.failed) /\ Cardinality(j.failed) \in Nat
    BY <1>0, <1>3, FailuresAreFinite
  <1>5. n \in Int /\ n <= Len(j.later) /\ (j.limit = 0 => n = Len(j.later))
    BY <1>3, <1>4
  <1>6. j.limit # 0 => n <= room /\ room > 0
    BY <1>2, <1>3, <1>4 DEF Reached
  <1>r. room = j.limit - Cardinality(j.failed)
    OBVIOUS
  <1> HIDE DEF n, room
  <1>7. /\ given \subseteq Entries(j.later)
        /\ n = Len(j.later) => given = Entries(j.later)
        /\ IsFiniteSet(given) /\ Cardinality(given) \in Nat
        /\ Cardinality(given) <= IF n < 0 THEN 0 ELSE n
    BY <1>3, <1>5, FirstEntries
  <1> HIDE DEF given
  <1>8. /\ new.ops = j.ops /\ new.limit = j.limit /\ new.ok = j.ok
        /\ new.failed = j.failed \cup given /\ new.stuck = given
    BY <1>0 DEF Jobs
  <1> HIDE DEF new
  <1>9. j.limit # 0 => Cardinality(j.failed \cup given) <= j.limit
    <2>1. j.failed \cap given = {}
      BY <1>3, <1>7 DEF Sorted
    <2>2. Cardinality(j.failed \cup given) =
             Cardinality(j.failed) + Cardinality(given)
               - Cardinality(j.failed \cap given)
      BY <1>4, <1>7, FS_Union
    <2>3. Cardinality(j.failed \cap given) = 0
      BY <2>1, FS_EmptySet
    <2> QED BY <1>3, <1>4, <1>5, <1>6, <1>7, <1>r, <2>2, <2>3
  <1>10. j.limit = 0 => j.ok \cup j.failed \cup given = 1..Len(j.ops)
    <2>1. Entries(<<>>) = {}
      BY DEF Entries
    <2> QED BY <1>2, <1>3, <1>5, <1>7, <2>1 DEF Sorted
  <1>11. j.ok \cap (j.failed \cup given) = {}
    BY <1>3, <1>7 DEF Sorted
  <1>12. \A i \in given : ~(References(j.ops[i]) \subseteq j.ok)
    BY <1>0, <1>2, <1>7 DEF Listed
  <1>13. \A i \in j.ok : References(j.ops[i]) \subseteq j.ok
    BY <1>0 DEF Listed
  <1> QED BY <1>1, <1>8, <1>9, <1>10, <1>11, <1>12, <1>13 DEF AnswerIsTrue

\* No other step of a client answers.
LEMMA OthersDoNotAnswer ==
  ASSUME DirectoryInv, NEW c \in Clients,
         \/ \E r \in Requests : Submit(c, r)
         \/ Step(c) \/ SaveFails(c),
         ~Finish(c), ~GiveUp(c)
  PROVE  job'[c].stage # "answered"
  <1>0. TypeOK /\ JobsInv
    BY DEF DirectoryInv
  <1>1. CASE \E r \in Requests : Submit(c, r)
    BY <1>0, <1>1, SubmitWorks
  <1>2. CASE Defer(c)
    BY <1>0, <1>2, DeferWorks
  <1>3. CASE Refuse(c) \/ SaveFails(c)
    <2>1. job'[c] = Failed(job[c]) /\ job[c] \in Jobs
      BY <1>0, <1>3 DEF TypeOK, Refuse, SaveFails
    <2> QED BY <2>1 DEF Failed, Leave, Jobs
  <1>4. CASE Begin(c)
    <2>1. job'[c] = [job[c] EXCEPT
                          !.stage = "staged", !.target = Target(job[c]),
                          !.staged = After(store, Op(job[c]), Target(job[c]),
                                           job[c].ids)]
      BY <1>0, <1>4, BeginWorks
    <2>2. job[c] \in Jobs
      BY <1>0 DEF TypeOK
    <2> QED BY <2>1, <2>2 DEF Jobs
  <1>5. CASE Commit(c) \/ SaveUsers(c) \/ SaveGroups(c)
    <2>1. Holding(c)
      BY <1>5 DEF Commit, SaveUsers, SaveGroups, Holding
    <2>2. CASE Done(c)
      BY <1>0, <2>1, <2>2, SucceededWorks DEF Done
    <2>3. CASE job' = [job EXCEPT ![c].stage = "half"]
      BY <1>0, <2>3 DEF TypeOK, Jobs
    <2> QED BY <1>0, <1>5, <2>2, <2>3, Saves
  <1>6. CASE NextPass(c)
    <2>1. /\ job'[c] = [job[c] EXCEPT !.todo = job[c].later, !.later = <<>>,
                                      !.progress = FALSE]
          /\ job[c].stage = "running" /\ job[c] \in Jobs
      BY <1>0, <1>6 DEF NextPass, PassIsOver, TypeOK
    <2> QED BY <2>1 DEF Jobs
  <1>7. CASE Answer(c)
    BY <1>0, <1>7 DEF Answer, TypeOK, Idle
  <1> QED BY <1>1, <1>2, <1>3, <1>4, <1>5, <1>6, <1>7 DEF Step

\* The answer to a list is complete up to its limit of errors and true to its
\* references, whatever other requests, failures and crashes do meanwhile
\* (execute_scim_bulk).
THEOREM ListsAreAnswered == Spec => []BulkAnswers
  <1> DEFINE Answers == \A c \in Clients :
                           job[c].stage = "answered" => AnswerIsTrue(job[c])
  <1>1. Init => Answers
    BY DEF Init, Idle
  <1>2. ASSUME DirectoryInv, Answers, [Next]_vars PROVE Answers'
    <2> SUFFICES ASSUME NEW d \in Clients, job'[d].stage = "answered"
                 PROVE  AnswerIsTrue(job'[d])
      OBVIOUS
    <2>0. job[d].stage = "answered" => AnswerIsTrue(job[d])
      BY <1>2
    <2>1. CASE job'[d] = job[d]
      BY <2>0, <2>1
    <2>2. CASE \E c \in Clients : Crash(c)
      <3>1. PICK c \in Clients : Crash(c)
        BY <2>2
      <3>2. job'[d] \in {Idle, job[d]}
        BY <3>1 DEF Crash
      <3> QED BY <2>1, <3>2 DEF Idle
    <2>3. CASE \E c \in Clients : \/ \E r \in Requests : Submit(c, r)
                                  \/ Step(c) \/ SaveFails(c)
      <3>1. PICK c \in Clients : \/ \E r \in Requests : Submit(c, r)
                                 \/ Step(c) \/ SaveFails(c)
        BY <2>3
      <3>2. CASE c # d
        <4>1. Works(c)
          BY <1>2, <3>1, CallerPrepared DEF DirectoryInv
        <4> QED BY <2>1, <3>2, <4>1 DEF Works
      <3>3. CASE c = d
        BY <1>2, <3>1, <3>3, FinishAnswers, GiveUpAnswers, OthersDoNotAnswer
      <3> QED BY <3>2, <3>3
    <2>4. CASE UNCHANGED job
      BY <2>1, <2>4
    <2> QED
      BY <1>2, <2>2, <2>3, <2>4 DEF Next, Login, Serve, EndRequest, vars
  <1>3. Answers => BulkAnswers
    BY DEF BulkAnswers, AnswerIsTrue
  <1>4. DirectoryInv /\ Answers /\ [Next]_vars => Answers'
    BY <1>2
  <1> QED BY <1>1, <1>3, <1>4, DirectoryInvariant, PTL DEF Spec
=============================================================================
