------------------------------- MODULE Feeds -------------------------------
(***************************************************************************)
(* What each scraper of news_pipeline makes of the page its source shows,  *)
(* and which scrapers are registered.                                      *)
(*                                                                         *)
(* An item of a page is [pub, absent, broken]: when it was published, and  *)
(* which of its fields the page leaves out or gives in a form that does    *)
(* not parse.  A scraper is told apart by the fields without which it      *)
(* skips an item, those without which its whole fetch raises, and those    *)
(* whose text it parses.                                                   *)
(***************************************************************************)
EXTENDS Integers, FiniteSets

CONSTANT Hour      \* ticks of the clock in an hour

ASSUME HourOK == Hour \in Nat

Fields == {"time", "link", "title"}

Scraper(id, skips, raises, parses) ==
  [id |-> id, skips |-> skips, raises |-> raises, parses |-> parses,
   window |-> <<>>,      \* the ages <<youngest, oldest>> it can see, if limited
   swallows |-> FALSE,   \* an HTTP error counts as an empty page
   early |-> FALSE,      \* fetched_at is read before the request
   detects |-> FALSE]    \* it recognises anti-crawl answers

-----------------------------------------------------------------------------
(* akshare's global feeds have one base class. *)

AkshareGlobal(id) == Scraper(id, Fields, {}, {"time", "link"})

EastmoneyGlobal == AkshareGlobal("eastmoney_global")
ThsGlobal == AkshareGlobal("ths_global")
CjzcEm == AkshareGlobal("cjzc_em")
FutuGlobal == AkshareGlobal("futu_global")

\* Their links are made up from time and text.
SinaGlobal == Scraper("sina_global", {"time", "title"}, {}, {"time"})
CaixinTelegram == Scraper("caixin_telegram", {"time", "title"}, {}, {})

\* The transcript of yesterday, dated 19:30 in Beijing: it is seen from the
\* midnight after the broadcast to the next one.
CctvNews ==
  [Scraper("cctv_news", {"title"}, {}, {}) EXCEPT
     !.window = <<(9 * Hour) \div 2, (57 * Hour) \div 2>>]

\* The last hour of UTC, asked for as if it were Beijing's.
TushareNews ==
  [Scraper("tushare_news", {}, {"time", "title"}, {"time"}) EXCEPT
     !.window = <<8 * Hour, 9 * Hour>>]

AkshareNews ==
  [Scraper("akshare_news", {"link"}, {"time"}, {"time", "link"}) EXCEPT !.early = TRUE]
Juchao == [Scraper("juchao", {}, Fields, {"time"}) EXCEPT !.early = TRUE]
Kr36 == [Scraper("kr36", Fields, {}, {"link"}) EXCEPT !.swallows = TRUE]
Ths ==
  [Scraper("ths", Fields, {}, {"time"}) EXCEPT !.detects = TRUE, !.early = TRUE]
Xueqiu ==
  [Scraper("xueqiu", {}, {"time", "link"}, {"time"}) EXCEPT !.detects = TRUE,
                                                            !.early = TRUE]
Finnhub == Scraper("finnhub", {}, Fields, {"time", "link"})
SecEdgar == [Scraper("sec_edgar", {}, Fields, {"link"}) EXCEPT !.early = TRUE]
Wallstreetcn ==
  [Scraper("wallstreetcn", Fields, {}, {"time", "link"}) EXCEPT !.swallows = TRUE]
YfinanceNews ==
  [Scraper("yfinance_news", {}, Fields, {"time", "link"}) EXCEPT !.early = TRUE]

Scrapers ==
  {EastmoneyGlobal, ThsGlobal, CjzcEm, FutuGlobal, SinaGlobal, CaixinTelegram,
   CctvNews, TushareNews, AkshareNews, Juchao, Kr36, Ths, Xueqiu, Finnhub,
   SecEdgar, Wallstreetcn, YfinanceNews}

\* build_registry: the four that ask for each Chinese ticker need one, and
\* sec_edgar needs the table of CIKs.
Registered(enabled, cnTickers, ciks) ==
  {sc \in Scrapers :
     /\ sc.id \in enabled
     /\ sc.id \in {"akshare_news", "juchao", "xueqiu", "ths"} => cnTickers # {}
     /\ sc.id = "sec_edgar" => ciks # {}}

ASSUME ScrapersOK ==
  /\ \A a, b \in Scrapers : a.id = b.id => a = b
  /\ \A sc \in Scrapers : /\ sc.skips \cap sc.raises = {}
                          /\ sc.window # <<>> => sc.window[1] <= sc.window[2]

-----------------------------------------------------------------------------
(* One fetch *)

InWindow(sc, item, now) ==
  sc.window = <<>> \/ now - item.pub \in sc.window[1]..sc.window[2]

\* The time is read first; the rest only of what is not older than `since`.
Undated(sc, item) == "time" \in sc.skips /\ "time" \in item.absent
BadTime(sc, item) ==
  \/ "time" \in sc.raises /\ "time" \in item.absent
  \/ "time" \in sc.parses /\ "time" \in item.broken
Older(item, since) == item.pub < since

Incomplete(sc, item) == sc.skips \cap item.absent # {}
BadRest(sc, item) ==
  \/ sc.raises \cap item.absent # {}
  \/ ~Incomplete(sc, item) /\ "link" \in sc.parses \cap item.broken

\* An item that fails the whole page, and one that is answered.
Fatal(sc, item, since) ==
  /\ ~Undated(sc, item)
  /\ BadTime(sc, item) \/ (~Older(item, since) /\ BadRest(sc, item))

Kept(sc, item, since) == ~Older(item, since) /\ ~Incomplete(sc, item)
=============================================================================
