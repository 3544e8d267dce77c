--------------------------- MODULE MCNewsPipeline ---------------------------
(* Small instances of NewsPipeline for TLC. *)
EXTENDS NewsPipeline

\* Every article is Chinese: the digest rows compete for one message.
MCAllCn == [r \in Raws |-> "cn"]

\* Article 2 is American, the others Chinese.
MCMixed == [r \in Raws |-> IF r = 2 THEN "us" ELSE "cn"]

\* One channel each.
MCOneEach == [m \in Markets |-> IF m = "cn" THEN {"feishu_cn"} ELSE {"feishu_us"}]

\* Two channels for "cn", none enabled for "us".
MCOnlyCn == [m \in Markets |-> IF m = "cn" THEN {"feishu_cn", "wecom_cn"} ELSE {}]
=============================================================================
