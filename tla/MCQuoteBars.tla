---------------------------- MODULE MCQuoteBars ----------------------------
(* Small instances of QuoteBars for TLC, and the arithmetic on all short   *)
(* series.                                                                 *)
EXTENDS QuoteBars

\* A ticker that moves and one that never does.
MCPrices == [t \in Tickers |-> IF t = "t" THEN {1, 2} ELSE {1}]

\* The ticker that moves may be listed a day before the first, or on it.
MCListed == [t \in Tickers |-> IF t = "t" THEN {1, 3, 4} ELSE {1}]

\* It may pay a dividend or double its shares.
MCRights ==
  [t \in Tickers |-> IF t = "t" THEN {[cash |-> 1, num |-> 1, den |-> 1],
                                       [cash |-> 0, num |-> 1, den |-> 2]}
                      ELSE {}]

MCPrevCloses == 1..1500

MCSeries == SeqOf({1, 2, 4}, 4)
MCLastPrices == {1, 2, 3}
MCMacdSpans == {<<2, 3, 2>>, <<1, 2, 1>>, <<2, 2, 1>>}
MCSpotLists == SeqOf([pct : {-3, -2, 0, 2, 3}, ratio : {NoRatio, 1, 3}], 3)
=============================================================================
