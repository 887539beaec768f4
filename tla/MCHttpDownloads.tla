-------------------------- MODULE MCHttpDownloads --------------------------
(* Instances of HttpDownloads for TLC: three rows, two of them of one      *)
(* release and the third one with a torrent to fall back to, and three     *)
(* calls of startHTTPDownload on two slots; or a single row.               *)
EXTENDS HttpDownloads, TLC

CONSTANTS r1, r2, r3, d1, d2, d3, q1, q2, x1

ThreeRuns == {r1, r2, r3}
OneDownload == {d1}
ThreeDownloads == {d1, d2, d3}
TwoRequests == {q1, q2}
OneRequest == {q1}
OneRemoval == {x1}
Nothing == {}
OnePriority == {1}
OneSlot == {1}
TwoSlots == {2}
AllAlike == [r \in Runs |-> 1]
OneRelease == [d \in Downloads |-> d1]
TwoReleases == [d \in Downloads |-> IF d = d3 THEN d3 ELSE d1]
OnlyTheThird == {d3}

RunSymmetry == Permutations(Runs) \cup Permutations(Requests)
=============================================================================
