---------------------------- MODULE NewsVerdict ----------------------------
(***************************************************************************)
(* What news_pipeline computes about an article without asking a model:    *)
(* the watchlist as compiled to patterns, the keyword matcher, the verdict *)
(* of the RulesEngine, and the score and zone of the classifier.           *)
(*                                                                         *)
(* A text is a sequence of characters; only case, whether a character is   *)
(* ASCII and whether it is an ASCII letter or digit matter.  Lists whose   *)
(* order nothing reads are sets.                                           *)
(***************************************************************************)
EXTENDS Integers, Sequences, FiniteSets

CONSTANTS
  Ascii,             \* the ASCII characters
  WordChars,         \* those that are lower-case letters or digits
  LowerCase,         \* LowerCase[c]: c in lower case
  Space,             \* the blank between title and body
  FirstParty,        \* first_party_sources of the router
  AlwaysCritical,    \* sources_always_critical of the classifier
  SentimentRule,     \* sentiment_high_magnitude_critical
  GrayLow, GrayHigh  \* llm_fallback_when_score

ASSUME VerdictConstantsOK ==
  /\ WordChars \subseteq Ascii /\ Ascii \subseteq DOMAIN LowerCase
  /\ Space \in Ascii \ WordChars
  /\ \A c \in DOMAIN LowerCase : LowerCase[c] \in DOMAIN LowerCase
  /\ SentimentRule \in BOOLEAN
  /\ GrayLow \in 0..100 /\ GrayHigh \in GrayLow..100

WatchMarkets == {"us", "cn"}
Lower(text) == [i \in DOMAIN text |-> LowerCase[text[i]]]
IsAscii(text) == \A i \in DOMAIN text : text[i] \in Ascii
Texts == Seq(DOMAIN LowerCase)

-----------------------------------------------------------------------------
(* watchlist.yml: a record with, for each market, its entries and keyword  *)
(* lists; an entry is [ticker, names, sectors, macros], its texts as the   *)
(* file spells them.                                                       *)

TickerUnique(w) ==
  \A m \in WatchMarkets : \A e, f \in w.entries[m] : e.ticker = f.ticker => e = f

SectorMacroRefsValid(w) ==
  \A m \in WatchMarkets : \A e \in w.entries[m] :
    /\ e.sectors \subseteq w.sectors[m]
    /\ e.macros \subseteq w.macros[m]

AtLeastOneEnabled(w) == w.rules \/ w.llm

ValidUnchecked(w) == TickerUnique(w) /\ AtLeastOneEnabled(w)
Valid(w) == TickerUnique(w) /\ SectorMacroRefsValid(w) /\ AtLeastOneEnabled(w)

-----------------------------------------------------------------------------
(* _compile *)

Pattern(text, kind, market, owner) ==
  [text |-> Lower(text), english |-> IsAscii(text), kind |-> kind,
   market |-> market, owner |-> owner]

Keywords(texts, kind, market) == {Pattern(k, kind, market, k) : k \in texts}

\* Those of the codes and names, and all of a market.
EntryPatterns(e, m) ==
  {Pattern(n, "ticker", m, e.ticker) : n \in {e.ticker} \cup e.names}
TickerPatterns(w, m) == UNION {EntryPatterns(e, m) : e \in w.entries[m]}
MarketPatterns(w, m) ==
  TickerPatterns(w, m)
  \cup Keywords(w.sectors[m], "sector", m)
  \cup Keywords(w.macros[m], "macro", m)
  \cup Keywords(w.generic[m], "generic", m)

Patterns(w) == UNION {MarketPatterns(w, m) : m \in WatchMarkets}

Entries(w) == UNION {w.entries[m] : m \in WatchMarkets}

\* The reverse indexes: keyed by the keyword alone, whatever its market.
SectorToTickers(w, text) ==
  {e.ticker : e \in {f \in Entries(w) : \E s \in f.sectors : Lower(s) = text}}
MacroToTickers(w, text) ==
  {e.ticker : e \in {f \in Entries(w) : \E s \in f.macros : Lower(s) = text}}

-----------------------------------------------------------------------------
(* The matcher *)

WordBoundaryLeft(text, i, j) == i = 1 \/ text[i - 1] \notin WordChars
WordBoundary(text, i, j) ==
  /\ i = 1 \/ text[i - 1] \notin WordChars
  /\ j = Len(text) \/ text[j + 1] \notin WordChars

\* Every occurrence of every non-empty pattern, overlapping ones included; an
\* ASCII pattern must stand between boundaries.
FindAll(patterns, raw) ==
  LET text == Lower(raw)
  IN {p \in patterns :
        \E i \in DOMAIN text :
          LET j == i + Len(p.text) - 1
          IN /\ p.text # <<>> /\ j <= Len(text)
             /\ SubSeq(text, i, j) = p.text
             /\ p.english => WordBoundary(text, i, j)}

-----------------------------------------------------------------------------
(* RulesEngine.match *)

ArticleText(a) == a.title \o <<Space, Space>> \o a.body

Boost(tickers, sectors, macros) ==
  LET boost == (IF tickers # {} THEN 50 ELSE 0)
             + (IF sectors # {} THEN 20 ELSE 0)
             + (IF macros # {} THEN 15 ELSE 0)
  IN IF boost > 100 THEN 100 ELSE boost

Match(w, a) ==
  LET hits == FindAll(Patterns(w), ArticleText(a))
      Of(kind) == {p \in hits : p.kind = kind}
      tickers == {p.owner : p \in Of("ticker")}
      sectors == {p.text : p \in Of("sector")}
      macros == {p.text : p \in Of("macro")}
  IN [matched |-> hits # {},
      tickers |-> tickers,
      related |-> UNION ({SectorToTickers(w, s) : s \in sectors}
                         \cup {MacroToTickers(w, s) : s \in macros}) \ tickers,
      sectors |-> sectors, macros |-> macros,
      generic |-> {p.text : p \in Of("generic")},
      markets |-> {p.market : p \in hits},
      boost |-> Boost(tickers, sectors, macros)]

NoVerdict ==
  [matched |-> FALSE, tickers |-> {}, related |-> {}, sectors |-> {},
   macros |-> {}, generic |-> {}, markets |-> {}, boost |-> 0]

-----------------------------------------------------------------------------
(* Enriched news: what a tier answers, or what the rules stand in for it *)

EventTypes == {"earnings", "m_and_a", "policy", "price_move", "downgrade",
               "upgrade", "filing", "other"}
Sentiments == {"bullish", "bearish", "neutral"}
Magnitudes == {"low", "medium", "high"}

\* safe_event_type and its like: an answer outside the enum becomes the default.
Safe(value, enum, default) == IF value \in enum THEN value ELSE default

Coerce(answer) ==
  [event |-> Safe(answer.event, EventTypes, "other"),
   sentiment |-> Safe(answer.sentiment, Sentiments, "neutral"),
   magnitude |-> Safe(answer.magnitude, Magnitudes, "low")]

SynthEnriched == [event |-> "other", sentiment |-> "neutral", magnitude |-> "low"]

-----------------------------------------------------------------------------
(* The classifier *)

\* The weights of the rules that hit.
RuleScore(e, source) ==
  LET Weight(hit, weight) == IF hit THEN weight ELSE 0
  IN Weight(source \in AlwaysCritical, 30)
     + Weight(SentimentRule /\ e.magnitude = "high" /\ e.sentiment \in {"bullish", "bearish"}, 40)
     + Weight(e.event \in {"earnings", "m_and_a", "downgrade", "upgrade"}, 20)
     + Weight(e.event = "filing", 25)

Score(e, source, boost) ==
  LET rules == RuleScore(e, source)
      capped == IF rules > 100 THEN 100 ELSE rules
  IN IF capped + boost > 100 THEN 100 ELSE capped + boost

ZoneOpen(score) ==
  IF score > GrayHigh THEN "critical" ELSE IF score < GrayLow THEN "low" ELSE "gray"
Zone(score) ==
  IF score >= GrayHigh THEN "critical" ELSE IF score < GrayLow THEN "low" ELSE "gray"

\* The gray zone when no model may be asked.
GrayFate(action) ==
  IF action = "push" THEN "critical" ELSE IF action = "skip" THEN "dropped" ELSE "low"
=============================================================================
