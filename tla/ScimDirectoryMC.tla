-------------------------- MODULE ScimDirectoryMC --------------------------
(* An instance of ScimDirectory for TLC: two clients, users ann and ben in   *)
(* nested groups, spare identifiers, requests that collide, refer to  *)
(* one another or undo one another.                                          *)
EXTENDS ScimDirectory, TLC

CONSTANTS u1, u2, u3, u4, u5, g1, g2, g3, g4, s1, A, B

Spellings == {"ann", "Ann", "ben", "cy", "staff", "Staff", "all", "ops"}
Lower == [n \in Spellings |-> CASE n = "Ann" -> "ann"
                                 [] n = "Staff" -> "staff"
                                 [] OTHER -> n]

UserRow(name, subject, active, a) ==
    [name |-> name, subject |-> subject, active |-> active, assignment |-> a]
GroupRow(name, members, a) ==
    [name |-> name, members |-> members, assignment |-> a]

Ann == UserRow("ann", s1, TRUE, NoAssignment)
Ben == UserRow("ben", NoSubject, FALSE, A)

\* ann is in staff, staff is in all, which gives everybody in it assignment A.
Populated == [users  |-> u1 :> Ann @@ u2 :> Ben @@ u3 :> None
                        @@ u4 :> None @@ u5 :> None,
              groups |-> g1 :> GroupRow("staff", {u1}, NoAssignment)
                      @@ g2 :> GroupRow("all", {g1, u2}, A) @@ g3 :> None
                      @@ g4 :> None]
Stores == {Populated}

Create(res, row)       == [method |-> "POST", res |-> res, id |-> None, data |-> row]
Replace(res, id, row)  == [method |-> "PUT", res |-> res, id |-> id, data |-> row]
Patch(res, id, change) == [method |-> "PATCH", res |-> res, id |-> id,
                           data |-> change]
Delete(res, id)        == [method |-> "DELETE", res |-> res, id |-> id,
                           data |-> <<>>]

Versioned ==
    {Patch("User", u1, [active |-> FALSE]),
     Delete("User", u1),
     Patch("Group", g2, [assignment |-> B])}

Singles == Versioned \cup
    {Replace("User", u2, UserRow("ben", s1, TRUE, A)),
     Patch("Group", g1, [add |-> {g2}]),
     Delete("Group", g1),
     Create("Group", GroupRow("ops", {g2}, B))}

\* A circle, then a user; an error, then a group before its member, and a
\* removal by reference.
Bulks ==
    {<<Create("Group", GroupRow("ops", {2}, B)),
       Create("Group", GroupRow("Staff", {1}, B)),
       Create("User", UserRow("cy", NoSubject, FALSE, A))>>,
     <<Create("User", UserRow("Ann", NoSubject, FALSE, A)),
       Patch("Group", g1, [add |-> {3}, remove |-> {u1}]),
       Create("User", UserRow("cy", NoSubject, FALSE, A)),
       Delete("User", 1)>>}

Lists ==
    [ops : {<<o>> : o \in Singles}, limit : {0}, conditional : {FALSE}]
    \cup [ops : {<<o>> : o \in Versioned}, limit : {0}, conditional : {TRUE}]
    \cup [ops : Bulks, limit : {0}, conditional : {FALSE}]
    \cup [ops : {b \in Bulks : Len(b) = 4}, limit : {1}, conditional : {FALSE}]
=============================================================================
