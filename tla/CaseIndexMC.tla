---------------------------- MODULE CaseIndexMC ----------------------------
(* Instances of CaseIndex for TLC: two threads of two processes.           *)
EXTENDS CaseIndex, TLC

CONSTANTS c1, c2, k1, k2, p1, p2, o1

TwoProcesses  == k1 :> p1 @@ k2 :> p2
OneOrg        == k1 :> o1 @@ k2 :> o1

Register(c)   == [kind |-> "register", case |-> c]
Touch(c)      == [kind |-> "update", case |-> c, status |-> "new"]
Lineage(c, s) == [kind |-> "lineage", case |-> c, source |-> s]
SetRemote(c)  == [kind |-> "set_remote", case |-> c]
ClearRemote(c) == [kind |-> "clear_remote", case |-> c]
DeleteCase(c, f) == [kind |-> "delete", case |-> c, files |-> f]
PruneTo(n, t, f) == [kind |-> "prune", keep |-> n, cutoff |-> t, files |-> f]
Restored(c)    == [kind |-> "mark_restored", case |-> c]
ArchiveCase(c) == [kind |-> "archive", case |-> c]

\* Each kind of request, enough of each for the others to matter.
AllRequests ==
    {Register(c1), Register(c2), Touch(c1), SetRemote(c1), ClearRemote(c1), ArchiveCase(c1),
     DeleteCase(c1, TRUE), DeleteCase(c2, FALSE), PruneTo(1, 2, TRUE), PruneTo(1, 1, FALSE),
     Lineage(c2, c1), Restored(c1), [kind |-> "list"]}

\* The two callers differ by nothing when their processes change places with them.
Swap == k1 :> k2 @@ k2 :> k1 @@ p1 :> p2 @@ p2 :> p1
Stay == [x \in DOMAIN Swap |-> x]
Symmetry == {d @@ s : d \in Permutations(Damages), s \in {Swap, Stay}}
=============================================================================
