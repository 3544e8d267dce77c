--------------------------- MODULE MCPushChannel ---------------------------
(* Small instances of PushChannel for TLC. *)
EXTENDS PushChannel, TLC

ASSUME KeysSeparate /\ SecretsSeparate

Channel(enabled, subsystem, key) == [enabled |-> enabled, hook |-> <<subsystem, key>>]

\* Two channels for news, one for quotes whose key has the same name, and one
\* that is switched off.
MCChannels ==
  [cn |-> Channel(TRUE, "news_pipeline", "feishu"),
   wecom |-> Channel(TRUE, "news_pipeline", "wecom"),
   alert |-> Channel(TRUE, "quote_watcher", "feishu"),
   off |-> Channel(FALSE, "news_pipeline", "feishu")]

MCAlertKey == [k \in {"feishu", "wecom"} |-> k \o "_alert"]

\* The new layout for one webhook of the news and the old one for the rest; and
\* the old layout that has lost the key of the quotes and has no wecom.
MCMixed == [nested |-> <<"news_pipeline", "wecom">> :> "w",
            flat |-> ("feishu" :> "f" @@ "feishu_alert" :> "q")]
MCBare == [nested |-> <<>>, flat |-> "feishu" :> "f"]
MCSecrets == {MCMixed, MCBare}

\* A message that names its ticker twice and goes to two channels, and one
\* about two tickers that is routed to two markets.
MCMessages ==
  {[tickers |-> <<"t", "t">>, plans |-> <<{"cn", "wecom"}>>],
   [tickers |-> <<"u", "t">>, plans |-> <<{"wecom"}, {"cn"}>>]}
=============================================================================
