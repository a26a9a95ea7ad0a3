--------------------------- MODULE HoldoutMergeMC ---------------------------
EXTENDS HoldoutMerge

\* Rows of the archive: an identity, a text, the windows the row is in.
Row(id, text, in) == [id |-> id, text |-> text, in |-> in]

\* Two members with distinct rows, one of which is outside the window.
Plain == << <<Row("a", "x", {"w", "v"}), Row("b", "y", {"w"})>>,
            <<Row("c", "x", {"v"}), Row("d", "z", {"w"})>> >>
\* One identity in both members, with one text and with two.
Repeated == << <<Row("a", "x", {"w"})>>, <<Row("a", "x", {"w"}), Row("b", "y", {"w"})>> >>
Colliding == << <<Row("a", "x", {"w"})>>, <<Row("b", "x", {"w"}), Row("a", "y", {"w"})>> >>
\* No row is in the window.
Empty == << <<Row("a", "x", {"v"})>>, <<>> >>

Archives == {Plain, Repeated, Colliding, Empty}
Merges == {"strict", "dedupe", "whole"}

MCJobs ==
  {[archive |-> a, window |-> "w", normalizer |-> n, merge |-> m, old |-> o] :
     a \in Archives, n \in {"pool", "sliced"}, m \in Merges, o \in {"none", "v"}}
  \ {[archive |-> a, window |-> "w", normalizer |-> "sliced", merge |-> "whole", old |-> o] :
     a \in Archives, o \in {"none", "v"}}
=============================================================================
