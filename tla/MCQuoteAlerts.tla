--------------------------- MODULE MCQuoteAlerts ---------------------------
(* Small instances of QuoteAlerts for TLC. *)
EXTENDS QuoteAlerts

Rule(id, kind, on, cooldown) ==
  [id |-> id, kind |-> kind, on |-> on, cooldown |-> cooldown]

\* One ticker has two rules; the second version moves one of them to another
\* kind with a longer cooldown and drops the other.  The third version, which
\* nobody turns into another, has two sectors and the portfolio: both loops
\* evaluate and send several messages in a round.
MCBurst ==
  [v1 |-> {Rule("a", "threshold", "t", 1), Rule("b", "event", "t", 1)},
   v2 |-> {Rule("a", "indicator", "t", 2)},
   v3 |-> {Rule("s", "sector", "bank", 1), Rule("z", "sector", "coal", 1),
           Rule("p", "portfolio", Portfolio, 1)}]
MCTurns == {<<"v1", "v2">>, <<"v2", "v1">>}

\* One rule about a holding, turned into one about its limit-up event.
MCOneRule ==
  [v1 |-> {Rule("a", "composite", "t", 1)}, v2 |-> {Rule("a", "event", "t", 1)}]

MCAnyEdit == (Versions \cup {Broken}) \X (Versions \cup {Broken})

\* The longest cooldown is 2.
MCMaxAge == [k \in Keys |-> IF k[1] = "a" THEN 2 ELSE 1]
MCMaxAgeOne == [k \in Keys |-> 1]

MCMoving == {<<"a", "t">>}
=============================================================================
