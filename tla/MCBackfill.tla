----------------------------- MODULE MCBackfill -----------------------------
(* Instances of Backfill for TLC: two sources that overlap, one release of  *)
(* the excluded studio, and one published late that pushes another off the  *)
(* first page; or all of them listed from the beginning.                    *)
EXTENDS Backfill

TwoSources == {1, 2}
ThreeReleases == {1, 2, 3}
Overlapping == [s \in Sources |-> IF s = 1 THEN Releases ELSE {2}]
Everything == [s \in Sources |-> Releases]
TwoDates == [r \in Releases |-> IF r = 3 THEN 2 ELSE 1]
OneExcluded == {3}
Nothing == {}
AllListed == Releases
SecondOne == {2}
TwoListed == {1, 3}
=============================================================================
