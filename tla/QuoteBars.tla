----------------------------- MODULE QuoteBars -----------------------------
(***************************************************************************)
(* The daily bars behind the indicator rules of quote_watcher: the warm-up *)
(* of DailyKlineCache at each start, the table quote_bars_daily it leaves  *)
(* behind, and the polling of quotes that combines the stored closes with  *)
(* the price of the moment.                                                *)
(*                                                                         *)
(* The table outlives the process; the market moves on meanwhile, through  *)
(* the sessions of trading days and through closed days.  An alert's       *)
(* cooldown and dispatch are the subject of QuoteAlerts.                   *)
(***************************************************************************)
EXTENDS QuoteMath

CONSTANTS
  Tickers,
  Prices,        \* Prices[t]: the prices t may trade at
  TradingDays,   \* the days, counted from the epoch, that are no holidays
  FirstDay, LastDay,  \* the days the model looks at
  Listed,        \* Listed[t]: the first days on which t may have been listed
  Rights,        \* Rights[t]: what t may go without on a day, as [cash, num, den]
  BarDays,       \* days: how many bars a rule wants
  Retries,       \* max_retries of SinaFeed
  Fast, Slow,    \* two moving averages
  SpotLists,     \* answers of the market feed: sequences of [pct, ratio]
  TopNs, ScanThreshold,  \* what push_top_n may be, and only_when_score_above
  PrevCloses,    \* closes that a limit may be measured from
  Series, LastPrices, \* closes of the past, and prices of the moment after them
  Windows, MacdSpans, \* what indicators span: days; <<fast, slow, signal>>
  MaxFaults, MaxCrashes

ASSUME BarsConstantsOK ==
  /\ TradingDays \subseteq Nat /\ FirstDay \in Nat /\ LastDay \in Nat
  /\ BarDays \in Nat \ {0} /\ Retries \in Nat
  /\ Fast \in Nat \ {0} /\ Slow \in Nat \ {0}
  /\ MaxFaults \in Nat /\ MaxCrashes \in Nat
  /\ \A t \in Tickers : Prices[t] # {} /\ Prices[t] \subseteq Nat \ {0}
  /\ \A t \in Tickers : Listed[t] \subseteq 0..FirstDay /\ Listed[t] # {}

ASSUME RightsOK ==
  \A t \in Tickers : Rights[t] \subseteq [cash : Nat, num : Nat \ {0}, den : Nat \ {0}]

ASSUME ScanConstantsOK ==
  /\ SpotLists \subseteq Seq([pct : Int, ratio : Nat \cup {NoRatio}])
  /\ TopNs \subseteq Nat /\ ScanThreshold \in Nat /\ PrevCloses \subseteq Nat

ASSUME IndicatorConstantsOK ==
  /\ Series \subseteq Seq(Nat) /\ LastPrices \subseteq Nat /\ Windows \subseteq Nat
  /\ MacdSpans \subseteq (Nat \ {0}) \X (Nat \ {0}) \X (Nat \ {0})
  /\ \A m \in MacdSpans : m[1] <= m[2]

VARIABLES
  \* ---- the market
  today, session,
  price,         \* price[t]: the last trade
  closes,        \* closes[t][d]: the close of each past trading day, as akshare
                 \* shows it now: forward-adjusted (adjust="qfq")
  exDay,         \* exDay[t]: the last day t went without a right, or Never
  \* ---- the table
  table,         \* table[t][d]: the close of day d as it was stored
  \* ---- the process
  proc,          \* [pc, todo, answer, tries]: what the coroutine is about
  snaps,         \* the quotes of the round: a price for each ticker quoted
  \* ---- history
  loaded,        \* loaded[t]: the day of the last answer stored, or Never
  bootDay,       \* the day this process was started
  missed,        \* the tickers for which the last warm-up stored nothing
  faults, crashes

market  == <<today, session, price, closes, exDay>>
history == <<loaded, bootDay, missed, faults, crashes>>
vars    == <<market, table, proc, snaps, history>>

Never == -1
Proc(pc, todo, answer, tries) ==
  [pc |-> pc, todo |-> todo, answer |-> answer, tries |-> tries]
Down == Proc("down", {}, <<>>, 0)
Resting == Proc("run", {}, <<>>, 0)
Polling(tries) == Proc("quotes", {}, <<>>, tries)

-----------------------------------------------------------------------------
(* The market.  MarketCalendar.session: a closed day has no other session. *)

Sessions == <<"pre", "morning", "noon_break", "afternoon", "post">>
SessionAt(d, i) == IF d \in TradingDays THEN Sessions[i] ELSE "closed"
NextIndex == (CHOOSE i \in DOMAIN Sessions : Sessions[i] = session) + 1
IsOpen == session \in {"morning", "afternoon"}

\* The closes of the days of old and new, those of new first.
Over(new, old) ==
  [d \in DOMAIN new \cup DOMAIN old |-> IF d \in DOMAIN new THEN new[d] ELSE old[d]]
Today(t) == [d \in {today} |-> price[t]]

\* The days before d on which t was traded.
DaysBefore(t, d) == {x \in DOMAIN closes[t] : x < d}

Histories(t) ==
  UNION {[(TradingDays \cap first..FirstDay - 1) -> Prices[t]] : first \in Listed[t]}

Init ==
  /\ today = FirstDay /\ session = SessionAt(FirstDay, 1)
  /\ price \in [Tickers -> UNION {Prices[t] : t \in Tickers}]
  /\ \A t \in Tickers : price[t] \in Prices[t]
  /\ closes \in [Tickers -> UNION {Histories(t) : t \in Tickers}]
  /\ \A t \in Tickers : closes[t] \in Histories(t)
  /\ exDay = [t \in Tickers |-> Never]
  /\ table = [t \in Tickers |-> <<>>]
  /\ proc = Down /\ snaps = <<>>
  /\ loaded = [t \in Tickers |-> Never] /\ bootDay = FirstDay /\ missed = {}
  /\ faults = 0 /\ crashes = 0

Trade(t, p) ==
  /\ IsOpen /\ p # price[t]
  /\ price' = [price EXCEPT ![t] = p]
  /\ UNCHANGED <<today, session, closes, exDay, table, proc, snaps, history>>

\* The last trade of the afternoon is the close.
NextSession ==
  /\ session \notin {"post", "closed"}
  /\ session' = Sessions[NextIndex]
  /\ closes' = IF session = "afternoon"
               THEN [t \in Tickers |-> Over(Today(t), closes[t])] ELSE closes
  /\ UNCHANGED <<today, price, exDay, table, proc, snaps, history>>

\* A dividend in cash and an issue of shares lower the closes of all days before;
\* they may become zero or negative.
NoRight == [cash |-> 0, num |-> 1, den |-> 1]
Adjusted(close, right) == ((close - right.cash) * right.num) \div right.den
ExRights ==
  {ex \in [Tickers -> UNION {Rights[t] : t \in Tickers} \cup {NoRight}] :
     \A t \in Tickers : ex[t] \in Rights[t] \cup {NoRight}}

\* A new day, on which each ticker may go ex its right ex[t].  (The bound:
\* neither storing an answer nor a round of polling lasts till the next day.)
NextDay(ex) ==
  /\ session \in {"post", "closed"} /\ today < LastDay
  /\ proc.pc \notin {"upsert", "quotes", "eval"}
  /\ today + 1 \notin TradingDays => \A t \in Tickers : ex[t] = NoRight
  /\ today' = today + 1 /\ session' = SessionAt(today + 1, 1)
  /\ closes' = [t \in Tickers |->
                  IF ex[t] = NoRight THEN closes[t]
                  ELSE [d \in DOMAIN closes[t] |-> Adjusted(closes[t][d], ex[t])]]
  /\ exDay' = [t \in Tickers |-> IF ex[t] = NoRight THEN exDay[t] ELSE today + 1]
  /\ UNCHANGED <<price, table, proc, snaps, history>>

-----------------------------------------------------------------------------
(* DailyKlineCache.load_for *)

\* list_recent: the youngest n bars of t, oldest first.
DaysAscending(S) ==
  LET n == Cardinality(S)
  IN [i \in 1..n |-> CHOOSE x \in S : Cardinality({y \in S : y > x}) = n - i]
ClosesOn(closeOn, days) ==
  LET order == DaysAscending(days) IN [i \in DOMAIN order |-> closeOn[order[i]]]
LastDays(S, n) == {x \in S : Cardinality({y \in S : y > x}) < n}
RecentDays(t, n) == LastDays(DOMAIN table[t], n)
Bars(t) == ClosesOn(table[t], RecentDays(t, BarDays))

Boot ==
  /\ proc.pc = "down"
  /\ proc' = Proc("load", Tickers, <<>>, 0)
  /\ bootDay' = today /\ missed' = {}
  /\ UNCHANGED <<market, table, snaps, loaded, faults, crashes>>

\* The ticker whose turn it is (the watchlist is in some order).
Turn(t) == proc.pc = "load" /\ t = CHOOSE x \in proc.todo : TRUE

IsCachedSome(t) == DOMAIN table[t] # {}
IsCached(t) == Cardinality(RecentDays(t, BarDays)) >= BarDays

Left(t) == proc.todo \ {t}
AfterTicker(left) ==
  IF left = {} THEN Resting ELSE Proc("load", left, <<>>, 0)

UseCache(t) ==
  /\ Turn(t) /\ IsCached(t)
  /\ proc' = AfterTicker(Left(t))
  /\ UNCHANGED <<market, table, snaps, history>>

\* What akshare shows: the trading days of the last 2 * BarDays days, with
\* the last price as the close of a day that is not over.
Shown(t) ==
  LET past == {d \in DOMAIN closes[t] : d >= today - 2 * BarDays}
      intraday == session \in {"morning", "noon_break", "afternoon"}
      days == [d \in past |-> closes[t][d]]
  IN IF intraday THEN Over(days, Today(t)) ELSE days

Fault == faults < MaxFaults /\ faults' = faults + 1

Answered(t, answer) ==
  /\ Turn(t) /\ ~IsCached(t)
  /\ proc' = Proc("upsert", proc.todo, answer, 0)
  /\ UNCHANGED <<market, table, snaps, loaded, bootDay, missed, crashes>>

Fetch(t) == Answered(t, Shown(t)) /\ UNCHANGED faults

\* akshare answers with an empty frame.
FetchEmpty(t) == Answered(t, <<>>) /\ Fault

\* upsert_many: an existing bar is overwritten; of no bars nothing is stored.
UpsertKeeps(old, answer) == Over(old, answer)
UpsertMany(old, answer) == Over(answer, old)

Upsert ==
  LET t == CHOOSE x \in proc.todo : TRUE
  IN /\ proc.pc = "upsert"
     /\ table' = [table EXCEPT ![t] = UpsertMany(@, proc.answer)]
     /\ IF DOMAIN proc.answer # {}
        THEN loaded' = [loaded EXCEPT ![t] = today] /\ UNCHANGED missed
        ELSE missed' = missed \cup {t} /\ UNCHANGED loaded
     /\ proc' = AfterTicker(Left(t))
     /\ UNCHANGED <<market, snaps, bootDay, faults, crashes>>

\* The request raises: the next ticker is tried.
FetchFails(t) ==
  /\ Turn(t) /\ ~IsCached(t) /\ Fault
  /\ missed' = missed \cup {t}
  /\ proc' = AfterTicker(Left(t))
  /\ UNCHANGED <<market, table, snaps, loaded, bootDay, crashes>>

\* A malformed frame or a database error: the warm-up ends for all the rest.
LoadRaises ==
  /\ proc.pc \in {"load", "upsert"} /\ Fault
  /\ missed' = missed \cup proc.todo
  /\ proc' = Resting
  /\ UNCHANGED <<market, table, snaps, loaded, bootDay, crashes>>

Crash ==
  /\ proc.pc # "down" /\ crashes < MaxCrashes
  /\ crashes' = crashes + 1
  /\ proc' = Down /\ snaps' = <<>>
  /\ UNCHANGED <<market, table, loaded, bootDay, missed, faults>>

-----------------------------------------------------------------------------
(* poll_quotes *)

Poll ==
  /\ proc.pc = "run" /\ IsOpen
  /\ proc' = Polling(0)
  /\ UNCHANGED <<market, table, snaps, history>>

\* Suspended tickers and malformed lines are left out.
Quotes(quoted) ==
  /\ proc.pc = "quotes"
  /\ snaps' = [t \in quoted |-> price[t]]
  /\ proc' = IF quoted = {} THEN Resting ELSE Proc("eval", {}, <<>>, 0)
  /\ UNCHANGED <<market, table, history>>

\* A timeout or an error status: again, then no quotes in this round.
QuotesFail ==
  /\ proc.pc = "quotes"
  /\ proc' = IF proc.tries < Retries THEN Polling(proc.tries + 1) ELSE Resting
  /\ UNCHANGED <<market, table, snaps, history>>

RoundEnds ==
  /\ proc.pc = "eval"
  /\ proc' = Resting /\ snaps' = <<>>
  /\ UNCHANGED <<market, table, history>>

\* build_indicator_context: the price is today's close, the bars are the days
\* before; the rule cross_above(ma<Fast>, ma<Slow>, ma<Fast>_yday, ma<Slow>_yday).
Fires(prior, last) ==
  LET closesToday == Append(prior, last)
  IN CrossAbove(Ma(closesToday, Fast), Ma(closesToday, Slow), Ma(prior, Fast), Ma(prior, Slow))

RuleFires(t) == Fires(Bars(t), snaps[t])

\* preview_rules replays a stored day with the days before it (the 500 rows it
\* asks for are all of them here).
StoredBefore(t, d) == {x \in DOMAIN table[t] : x < d}
ReplayFires(t, d) == Fires(ClosesOn(table[t], StoredBefore(t, d)), table[t][d])

-----------------------------------------------------------------------------

World ==
  \/ NextSession
  \/ \E ex \in ExRights : NextDay(ex)
  \/ \E t \in Tickers : \E p \in Prices[t] : Trade(t, p)

Load == \E t \in Tickers : UseCache(t) \/ Fetch(t) \/ FetchEmpty(t) \/ FetchFails(t)

Next ==
  \/ World \/ Boot \/ Load \/ Upsert \/ LoadRaises \/ Crash
  \/ Poll \/ QuotesFail \/ RoundEnds
  \/ \E quoted \in SUBSET Tickers : Quotes(quoted)

Spec == Init /\ [][Next]_vars

-----------------------------------------------------------------------------
(* Properties *)

\* A close, adjusted or not, for each of some trading days.
IsBars(f) == DOMAIN f \subseteq TradingDays /\ f \in [DOMAIN f -> Int]

\* Every variable has its type.
TypeOK ==
  /\ today \in Nat /\ bootDay \in Nat /\ loaded \in [Tickers -> Nat \cup {Never}]
  /\ session \in IF today \in TradingDays THEN ToSet(Sessions) ELSE {"closed"}
  /\ \A t \in Tickers : price[t] \in Prices[t] /\ IsBars(closes[t]) /\ IsBars(table[t])
  /\ exDay \in [Tickers -> Nat \cup {Never}]
  /\ proc.pc \in {"down", "load", "upsert", "run", "quotes", "eval"}
  /\ proc.todo \subseteq Tickers /\ proc.tries \in 0..Retries
  /\ proc.pc = "upsert" => proc.todo # {} /\ IsBars(proc.answer)
  /\ \A t \in DOMAIN snaps : t \in Tickers /\ snaps[t] \in Prices[t]
  /\ missed \subseteq Tickers /\ faults \in 0..MaxFaults /\ crashes \in 0..MaxCrashes

\* After a warm-up the bars of a ticker reach the last day before the start, as
\* far back as akshare was asked, unless its load failed, was answered without
\* bars, or the table was full already: then they may end long before, and no
\* restart makes them younger.
LoadReaches ==
  proc.pc \in {"run", "quotes", "eval"} =>
    \A t \in Tickers \ missed :
      \/ \A d \in DaysBefore(t, bootDay) : d >= today - 2 * BarDays => d \in DOMAIN table[t]
      \/ Cardinality(DOMAIN table[t]) >= BarDays

\* A stored close is the one akshare shows for that day, with three exceptions:
\* the table was last loaded on that day itself, before its close; so late that
\* akshare was not asked for that day any more; or before the ticker last went
\* ex a right, which rescaled the closes.  A load on a later day repairs the rest.
WrongCloseIsExplained ==
  \A t \in Tickers : \A d \in DOMAIN table[t] :
    d \in DOMAIN closes[t] /\ table[t][d] # closes[t][d]
      => \/ loaded[t] = d
         \/ d < loaded[t] - 2 * BarDays
         \/ loaded[t] < exDay[t]

\* Those bars are the market's last ones before day d, enough for both averages.
Clean(t, days, d) ==
  /\ days \subseteq DaysBefore(t, d) /\ \A n \in {Fast, Slow} : Cardinality(days) >= n
  /\ \A x \in DaysBefore(t, d) : x \in days \/ \A y \in days : x < y
  /\ \A x \in days : table[t][x] = closes[t][x]

\* The adjusted closes of the last n trading days up to d.
DaysUpTo(t, d, n) == LastDays(DaysBefore(t, d) \cup {d}, n)
TrueSum(closeOn, t, d, n) == Total(ClosesOn(closeOn, DaysUpTo(t, d, n)))

\* The averages crossed upwards on day d, when t's price was last.
TrueCross(t, d, last) ==
  LET closeOn == Over([x \in {d} |-> last], closes[t])
      above(x) == TrueSum(closeOn, t, x, Fast) * Slow > TrueSum(closeOn, t, x, Slow) * Fast
  IN above(d) /\ ~above(Max(DaysBefore(t, d)))

\* With clean bars the rule reports a crossing exactly when the true averages
\* of the market crossed since the last trading day, live as in a replay.
CrossIsReal ==
  \A t \in Tickers :
    /\ proc.pc = "eval" /\ t \in DOMAIN snaps /\ Clean(t, RecentDays(t, BarDays), today)
         => (RuleFires(t) <=> TrueCross(t, today, snaps[t]))
    /\ \A d \in DOMAIN table[t] \cap DOMAIN closes[t] :
         Clean(t, StoredBefore(t, d), d) /\ table[t][d] = closes[t][d]
           => (ReplayFires(t, d) <=> TrueCross(t, d, closes[t][d]))

\* The formulas below do not depend on the state: TLC need not evaluate them in
\* every one.
BeforeStart == proc.pc = "down" /\ crashes = 0 /\ session = "pre"

\* From five yuan on the rounding to the cent never hides a limit; below, it may.
LimitsAreSeen == BeforeStart => \A prev \in PrevCloses : prev >= 500 => LimitIsSeen(prev)

\* A higher price of the moment never lowers an average, an extreme, the RSI or
\* the MACD, however many days were smoothed before, and the RSI stays between 0
\* and 100.
IndicatorsFollowPrice ==
  BeforeStart =>
  \A prior \in Series : \A p, q \in LastPrices : p < q =>
    /\ \A n \in Windows : PriceMoves(prior, p, q, n)
    /\ \A m \in MacdSpans : PriceMovesMacd(prior, p, q, m[1], m[2], m[3])

\* A list of the scan has as many rows as it may, all of the kept ones, and no
\* other kept row is more extreme than one of them.
Extremes(listed, rows, n, kept, key) ==
  /\ listed \subseteq {rows[i] : i \in kept} /\ Cardinality(listed) <= n
  /\ \A i, j \in kept : rows[i] \in listed /\ rows[j] \notin listed => key[j] <= key[i]
  /\ \/ listed = {rows[i] : i \in kept}
     \/ Cardinality({i \in kept : rows[i] \in listed}) >= n

ScanListsExtremes ==
  BeforeStart =>
  \A rows \in SpotLists : \A n \in TopNs :
    LET gainers == Gainers(rows, n, ScanThreshold)
        losers == Losers(rows, n, ScanThreshold)
    IN /\ Extremes(gainers, rows, n, Rising(rows, ScanThreshold), Pct(rows))
       /\ Extremes(losers, rows, n, Falling(rows, ScanThreshold), MinusPct(rows))
       /\ Extremes(Volumes(rows, n, ScanThreshold), rows, n, Traded(rows, ScanThreshold),
                   Ratio(rows))
       /\ gainers \cap losers = {}
=============================================================================
