--------------------------- MODULE MCScrapeDedup ---------------------------
(* Small instances of ScrapeDedup for TLC. *)
EXTENDS ScrapeDedup

\* Articles are numbered in the order of their publication, one a tick.
MCPub == [a \in Articles |-> a - 1]

\* Articles 1 and 2 tell the same story, or different ones.
MCNear == {<<1, 2>>, <<2, 1>>}
MCNoneNear == {}

\* Every source may show every article; wallstreetcn garbles the link of one.
MCShows == [s \in Sources |-> Articles]
MCAbsent == [s \in Sources |-> {}]
MCBroken == [s \in Sources |-> IF s = "wallstreetcn" THEN {<<2, "link">>} ELSE {}]
=============================================================================
