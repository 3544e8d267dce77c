# Formal models of NewsProject

TLA+ models of the two programs of this repository, `news_pipeline` (scrape
news, judge it, push it to chats) and `quote_watcher` (poll quotes, evaluate
alert rules, push alerts), with TLC runs on small instances and TLAPS proofs
for all instances. Paths below are relative to the repository's `src/`
package directory; `PROJECT.json` maps each definition to its lines.

## 1. The system

Both programs are one asyncio event loop each, over one SQLite file each. Code
between two `await`s is atomic towards the other coroutines; every table
commit, HTTP request and chat message is an `await`, and there are no
transactions that span two of them. What makes the system hard is therefore
what can come between two awaits: another job, an exception, a crash, a
restart, or (in `quote_watcher`) the thread of the file observer.

| Component | State | Operations | What must be right |
|---|---|---|---|
| Scrape jobs (`news_pipeline/scheduler/jobs.py`, one job per source) | `source_state` (watermark, pause), locals of the job | `scrape_one_source` | nothing answered is passed by the watermark unhandled; a source that refused is left alone |
| Dedup (`news_pipeline/dedup`) | `raw_news` | `check_and_register` | one story, one row, although two sources race |
| `process_pending` | `raw_news.status`, `news_processed`, `digest_buffer`, `push_log`; the batch and the loop's locals | rules, LLM and classifier verdicts, insert, mark, route, suppress, dispatch, log, enqueue | an article takes one path, is announced at most once, and leaves `pending` |
| Digest jobs (`_digest_job_runner` in `news_pipeline/main.py`, one per period and market) | `digest_buffer` | list, dispatch, mark consumed | every row is shown, once, and retired |
| Dispatch router, push dispatcher | none | `route`, `dispatch` | messages go to the channels of their market |
| Scrapers (about 20 feeds) | none | `fetch(since)` | answer what is not older than `since` |
| LLM pipeline (`news_pipeline/llm`) | cost of each day, in memory only | tiered calls under a daily ceiling | the ceiling bounds a day's cost; a refused article is not lost |
| Rules engine, importance classifier | none | `match`, `score_news` | the verdict is the documented function of the text |
| Channels, retry, burst suppression (`shared/push`) | timestamps per ticker | `send`, `should_send` | a burst is cut, a retry does not repeat a delivery |
| Alerting (`shared/observability`) | time of the last alert per key | `send`, failure alert | an alert is not lost to its own throttle |
| Configuration (`news_pipeline/config`) | snapshot, debounce time | load, reload | the last saved content is loaded |
| Alert engine, cooldown (`quote_watcher/alerts/engine.py`, `state/tracker.py`) | rules in memory, `alert_state` | evaluate, check, bump, mark | a rule is silent for its cooldown only, and nobody's silence is unexplained |
| Hot reload (`quote_watcher/alerts/reloader.py`) | the observer's queue | read, swap | the rules follow the file |
| Loops of `quote_watcher/main.py` | stop event, round | poll, evaluate, dispatch | shutdown finishes rounds; one failure does not end the loop |
| Context, indicators, ranking | none | pure functions | agree with their definitions on short and empty input |
| Feeds, calendar, stores of `quote_watcher` | tick ring, bar cache | fetch, append, load | the ring is bounded, the bars are ordered and unique |
| Bot commands, charts, weekly report, migrations, health check | none of their own | | not started by `main.py`, rendering, or scripts |

Interaction: scrape jobs put rows into `raw_news`; `process_pending` takes
them, fills `news_processed`, `push_log` and `digest_buffer`, and talks to the
chats; digest jobs empty `digest_buffer` and talk to the chats. The jobs meet
in tables only. In `quote_watcher` the two evaluating loops share the engine's
rule list and `alert_state`; the observer thread replaces the rule list.

`PROJECT.json` lists the hazards, each at its line, with the properties
that would be violated if it went wrong.

## 2. Modules

| Module | Models | Role |
|---|---|---|
| `NewsLifecycle` | the promise about one article | abstract specification |
| `NewsPipeline` | `process_pending`, digest jobs, their tables | core model, implements `NewsLifecycle` |
| `NewsPipelineProofs`, `NewsDigestProofs` | | theorems about `NewsPipeline` |
| `NewsVerdict` | watchlist validation, keyword matcher, rules verdict, score and zone | pure operators |
| `NewsGate` | the fate of one article after another: rules gate, cost ceiling, tiers, judge, cost alerts | model, uses `NewsVerdict` |
| `NewsGateProofs` | | theorems about `NewsGate` |
| `PushChannel` | burst suppressor, concurrent posts with retries, `push_log`, failure alert, secrets | model |
| `PushChannelProofs` | | theorems about `PushChannel` |
| `Feeds` | what each of the 17 scrapers skips, refuses and sees, and which are registered | pure operators |
| `ScrapeDedup` | scrape jobs and Dedup | model, uses `Feeds` |
| `ScrapeDedupProofs` | | theorems about `ScrapeDedup` |
| `AlertContract` | the promise about the alerts of one key | abstract specification |
| `QuoteAlerts` | alert loops, cooldown table, hot reload, shutdown | model, implements `AlertContract` |
| `QuoteAlertsProofs` | | theorems about `QuoteAlerts` |
| `QuoteMath` | indicators, crossings, limit tests, scan ranking | pure operators |
| `QuoteMathProofs` | | theorems about the indicators, the limit tests, ranks in a finite order and the scan ranking |
| `QuoteBars` | calendar, daily-bar warm-up and its table, polling, replay | model, uses `QuoteMath` |
| `QuoteBarsProofs` | | theorems about `QuoteBars` |
| `MC...` | | constants of the instances |

How they fit together. A row that `ScrapeDedup` inserts is an `Ingest` of
`NewsPipeline`, in any order. Where `NewsPipeline` chooses a verdict freely,
`NewsGate` says which one it is and when a row is marked dead; where
`NewsPipeline` lets a dispatch succeed or fail, `PushChannel` says why. Where
`QuoteAlerts` leaves to the set `hot` whether an expression holds, `QuoteBars`
and `QuoteMath` say so for the indicator rules. Each model keeps the whole
control of its own part and the free choice for its neighbour's, so that each
is checked against every answer of the neighbour.

### NewsPipeline

One action is the code between two awaits that matter. `ListPending` reads the
batch (`Oldest(BatchSize, Pending)`, by `published_at`); `Reject`, `Score`,
`Insert`, `Mark` are the loop body up to `mark_status`; `Suppress`,
`Dispatch`, `WriteLog`, `Enqueue` are the loop over dispatch plans, with its
`continue` (suppressed) and `break` (enqueued). `InsertCollides` is the insert
that hits `uq_proc_raw`: it raises out of `process_pending`. `JobRaises` is
an exception at any other await, caught by the scheduler's wrapper. The
verdicts of rules, LLM and classifier are nondeterministic; which rejections
exist depends on the two `enable` flags, and the target markets come from the
rules verdict when rules are on, else from the article.

`DigestList`, `DigestDispatch`, `DigestConsume` are `_digest_job_runner`. The
job lists all rows of its key, sends the first 30 (`DigestCap`), ignores the
answers of the channels (any subset of them accepts) and retires all it listed.

`Crash` resets the coroutines and leaves the tables. SIGTERM is the same to the
tables: APScheduler cancels the job coroutines at their next await.

`pushed` and `digested` record what was sent to the chats, `refused` the
digests that no channel accepted; they are no state of the program.

### NewsVerdict and NewsGate

A text is a sequence of characters of which only case and class matter. `Valid`
is the set of validators of `WatchlistConfig`; `Patterns` is `_compile`, with
each pattern once per market and keyword list (`MarketPatterns`); `Match` is
`RulesEngine.match`: hits, the tickers reached through the reverse indexes,
sectors, macros, generic keywords, markets and boost. `Score` and `Zone` are
`score_news` and the thresholds of the classifier.

`NewsGate` runs them inside `process_pending`: `Take` is the rules gate (and,
with rules alone, the score), `Refuse` and `Admit` are `check_async` with its
two Bark alerts, `Classify`, `Extract`, `CallFails`, `CallUseless` are the
calls of the tiers with `record` after each answer, `Judge` and `JudgeFails`
the importance judge, which is neither checked nor recorded. Totals, warned
days and throttles are memory, lost in a `Crash`. A day is `DayLength` ticks;
a call that spans midnight is billed to the day its answer came.
`billed`, `warnings` and `lives` are history.

### PushChannel

`Take` gives `process_pending` an urgent message; `Suppress` and `Release` are
`BurstSuppressor.should_send` for one of its plans, tickers with multiplicity.
`Release` starts one post per channel; `Accepted`, `Refused`, `Fails` (which may
have been delivered all the same) and `Raises` are the outcomes of `send` under
`async_retry`; `Gather`, `WriteLog`, `PlanDone` are the rest of the loop.
`AlertJob` is `alert_on_push_failures` with the throttle of `BarkAlerter`;
`AlertMissed` is a run that APScheduler drops. `Lookup` is `_lookup_push` over
both layouts of `secrets.yml` and mixtures of them, with its fallback from the
`_alert` key of a quote channel to the bare one (`Borrows`). `copies` and `late`
count, per post, what the chat received and how many answers were lost;
`released` is history, which a crash leaves alone while it empties the buckets,
and notes the life of the process each message was sent in.

### Feeds and ScrapeDedup

`Feeds` has one record per scraper: the fields without which it skips an item,
those without which it raises, those it parses, the ages it can see
(`cctv_news`, `tushare_news`), whether an HTTP error becomes an empty page
(`kr36`, `wallstreetcn`), whether it recognises anti-crawl answers, and whether
it stamps `fetched_at` before its request.

`StartScrape`, `FetchOk`/`FetchSwallowed`/`FetchRaises`/`FetchAntiCrawl`/
`FetchError`, then per article `LookupUrl`, `LookupTitle`, `Insert`, `Metric`, and
`UpdateWatermark`. An article is its URL; closeness of titles (Hamming distance
of simhashes) is the relation `Near`. Time is a clock of coarse ticks.
`feed[s]` is what a source shows: an article may show up long after its
`published_at`. `returned`, `addedBy`, `checkedAt` and `banned` are history.

### QuoteAlerts

`loop["ticker"]` and `loop["sector"]` are the two coroutines. A round snapshots
the quotes (`seen`), then looks rules up kind by kind (`Selected`, in the order
threshold, composite, indicator, event), each time in the rule list of that
moment, since the observer thread may swap it (`ReadFile`, `SwapRules`).
`Check` is `is_in_cooldown`; `Bump` and `Mark` are the commits that follow;
`Dispatch` sends one message per ticker, or one per portfolio or sector
verdict. Whether an expression holds is the nondeterministic set `hot`. Time
is the age of the rows in minutes. `stop` lets a loop finish its round
(`EndLoop`), after which the process exits. `Edit` is a save of `alerts.yml`, in
place or by a rename: `on_modified` takes a `FileModifiedEvent` of that path
only, so that the second kind queues no event.

`owed`, `lost` and `quiet` are history: the keys armed and not yet sent, those
an interruption dropped, and the minutes since the last mark. Through them
`QuoteAlerts` maps to `AlertContract`: a key is armed while its verdict is in
flight, lost when an interruption dropped it, idle otherwise (`StageOf`), and
an interruption of the contract is a fault or a stop.

### QuoteMath and QuoteBars

Prices are integers and a quotient is a pair, so that every comparison is
exact; the program computes in floating point, whose rounding is left out.
The recursions of RSI and MACD are functions over the closes with a common
denominator. `IndicatorsFollowPrice` says what a reader expects of every
indicator: a higher price of the moment never lowers it. A list of the scan is the set of
rows that have fewer than `push_top_n` before them in the stable sort (`Before`,
`Top`); `ScanListsExtremes` and `LimitsAreSeen`, in `QuoteBars`, say what the
lists and the limit tests are good for. None of the three depends on the state:
the run evaluates them at the start only, over the constants `Series`,
`LastPrices`, `Windows`, `MacdSpans`, `SpotLists`, `TopNs`, `ScanThreshold` and
`PrevCloses`.

`QuoteBars`: `Boot`, then per ticker `UseCache` or `Fetch` and `Upsert`
(`DailyKlineCache.load_for`), then `Poll`, `Quotes` and the evaluation of a
crossing rule (`RuleFires`), which takes the price of the moment as today's
close and the stored bars as the days before. `ReplayFires` is `preview_rules`.
The market goes through the sessions of trading and closed days; an answer of
akshare shows the running day as if it were over, or is an empty frame
(`FetchEmpty`), of which nothing is stored and which no exception reports. The
closes are asked for forward-adjusted (`adjust="qfq"`): `closes` is what akshare
shows at present, and on the day a ticker goes ex a right (`NextDay`) all its
closes so far are rescaled (`Adjusted`: cash is taken off, then the ratio of
shares applied, rounded down), while the table keeps what was stored. That the
adjusted closes appear with the first session of that day is an assumption about
akshare; that they may become zero or negative is not excluded.

## 3. Runs

| Run | Instance | Shows |
|---|---|---|
| `pipeline_crashes` | 3 articles, both gates, batch 2, cap 2, an exception at `mark` and a crash anywhere | type, `OnePath`, `AtMostOncePush`, `AnnouncedIsProcessed`, `OrphansNeedInterruption`, `OnlyOverflowIsLost`, `StatusFinal`, refinement of `NewsLifecycle` |
| `pipeline_fair` | 2 articles in two markets, rules only, two channels and none, batch 1, two exceptions | `LogMatchesPushes`, `DigestRepeatsNeedInterruption`, `PendingDrains`, `BufferDrains` |
| `pipeline_rerun` (violated) | LLM only, one crash | `PendingDrains` fails: see findings |
| `pipeline_digest_loss` (violated) | 2 rows, cap 1, no fault | `NoDigestRowLost` fails: see findings |
| `gate` | 5 watchlists (one is refused), 17 articles over two ASCII letters, a Chinese one and the blank, ceiling 5, days of 2 ticks, a crash | `EachLifeOneCeiling`, `WarnedInTime`, `NamedInMarkets`, `FindsWhatIsMentioned`, `RulesOnlyFate` |
| `push` | 2 tickers, 3 enabled channels and one off, secrets in both layouts at once and flat ones without an `_alert` key, window 1, threshold 1, 2 attempts, 2 messages, one crash or missed run | `BurstBound`, `SuppressedInBurst`, `ResultsAreTrue`, `NoCrossTalk`, `FailuresAreNoticed` |
| `scrape_sources` | `xueqiu` and `wallstreetcn`, 2 close articles, one with a garbled link at the latter, two faults | type, `WatermarkCovers`, `NearDuplicatesNeedTwoSources`, `WatermarkAdvances`, `RestIsKept`, `FeedDrains` |
| `scrape_backfill` (violated) | 1 source, no fault | `OnlyOlderAreSkipped` fails: see findings |
| `quote_alerts` | 2 tickers, 3 versions of the rules: two on one ticker, turned into another kind with another cooldown and back, sector and portfolio rules; one fault, one stop | `CooldownKept`, refinement of `AlertContract` |
| `quote_fair` | 1 rule, 2 versions and a refused one, any edits in place or by rename, one fault, one stop | `HotIsReported`, `ReloadFollows`, `StopEnds`, `NoEditForgotten` |
| `quote_reload` (violated) | an edit during warm-up | `SavedIsInForce` fails: see findings |
| `bars` | 2 tickers, one of them listed long ago, the day before or on the first day, 3 days of which one is closed, 2 bars, a dividend or a split on any trading day, averages over 1 and 2, one load that fails, raises or is answered without bars, quotes that fail at any time, one crash; all series up to length 4 over 3 closes, windows up to 3 and three spans of the MACD, all lists up to length 3, previous closes from 5 to 15 yuan | `LoadReaches`, `WrongCloseIsExplained`, `CrossIsReal`, `IndicatorsFollowPrice`, `ScanListsExtremes`, `LimitsAreSeen` |

Bounds. The counters `faults`, `crashes`, `misses` and `stops` bound
interruptions: one interruption already separates every pair of steps, and two
(`pipeline_fair`, `scrape_sources`) let one hit the recovery from the other.
Three articles make a batch of two leave one behind and a digest of two
overflow. Two sources are the smallest race; the title window ends with the
tick, so that rows leave it. In `gate` a call costs one unit, an article at
most two calls, and the ceiling of five is reached within a day and again after
a crash; the alphabet makes a code that is part of a longer word, a name in
another case and a Chinese name inside a text. In `push` a message names two
tickers and goes to two markets, or one ticker twice and goes to two channels;
with a threshold of one the first fills a bucket, a mention over the threshold
is in it at once, and a crash within the window lets a second message out,
which is all that `BurstBound` grants it; a clock of five holds two windows, a
failure alert and its repetition. That each life has its own count for other
thresholds and several restarts is proved. Two rules on one ticker make a burst
message, two sector rules make two messages in a round; cooldowns of one and
two minutes with ages counted to the same limits make a reload lengthen and
shorten a running cooldown. A file that is refused and edits in any order are
in `quote_fair`. `MaxCount` caps `trigger_count_today`, which nothing reads. In
`bars` the slow average of yesterday needs two bars: a full table has them, a
new listing has one or none. A table that is full on the first day is not
loaded again on the third, one with a single bar is. No close is older than the
four days the warm-up asks for, so that "so late that akshare was not asked" of
`WrongCloseIsExplained` and "as far back as akshare was asked" of `LoadReaches`
do not bite there; the proofs cover them. `MaxClock`, `MaxMessages` and
`LastDay` bound time.

Fairness. `SchedulerRunner` registers every job with an interval or cron
trigger, `max_instances=1` and a wrapper that logs exceptions, so a job fires
again for ever and the event loop resumes a coroutine whose await is done:
`WF` on the steps of each job. Nothing is assumed of failures, crashes, arrivals
or the market. In `ScrapeDedup` time passes (`WF` on `Tick`), so that a rest
ends. In `QuoteAlerts` the loops are `while not stop` with a bounded
wait, the observer is a running thread, and `Exit` is a `gather`: `WF` on each.
Nobody promises to start a process that is down (`Boot`, `Start` are not fair).
Periods are abstracted: a fair job runs at any time. Every HTTP client has a
timeout, so that an await ends.

Deadlock is checked except in `push` and `bars`, where the end of time
(`MaxClock`, `LastDay`) stops a model whose messages are all sent.

## 4. Findings

1. `pipeline_digest_loss`: the digest job retires every listed row but shows
   the first 30; with more, rows are never shown. The design promises atomic
   consumption so that no push is missed. Rows are lost in the same way when
   every channel refuses the digest: the answers are not looked at
   (`news_pipeline/main.py:463`), the rows are retired, and nothing sends them
   again. `OnlyOverflowIsLost` names both ways, and a market without a channel,
   and says that there is no other. The other direction, a crash between dispatch
   and `mark_consumed`, repeats a digest (bounded by
   `DigestRepeatsNeedInterruption`).
2. `pipeline_rerun`: a crash between the insert into `news_processed` and
   `mark_status` leaves a row whose insert raises `uq_proc_raw` at every tick.
   The batch ends there, so younger rows wait as well. The design calls
   processing repeatable.
3. `scrape_backfill`: an empty answer sets the watermark to now, and an older
   article shown later is skipped; the comment at that place says the watermark
   is not "now" for exactly this reason.
4. `quote_reload`: the configuration is read before the kline warm-up, the
   observer starts after it; an edit in between is never loaded, although the
   manual promises hot reload.

Met while modelling, without a run:

- An article refused by the daily ceiling is marked `dead`
  (`scheduler/jobs.py:259`) and never taken again; the design speaks of the
  ceiling as recovering the next day (`Refuse`). The judge's call is neither
  checked nor counted, and a restart forgets the day's total: what the ceiling
  does promise is `EachLifeOneCeiling`.
- Once `quote_bars_daily` holds `days` rows of a ticker, no start fetches
  again, and the bars grow old; `LoadReaches` has that exception, and
  `CrossIsReal` speaks of clean bars only. Nor does such a table follow the
  forward adjustment (`store/kline.py:86`): after a dividend or a split the price
  of the moment is compared with closes of the old scale
  (`WrongCloseIsExplained`).
- A start that gets an empty frame for a ticker logs nothing and stores nothing
  (`store/kline.py:43`): its indicator rules have the bars they had before, or none.
- A restart forgets the buckets of the burst suppressor: within one window a
  ticker may be in `threshold` messages more for each restart (`BurstBound`).
- `_lookup_push` tries the `_alert` key first so as not to pick up the key of the
  news by accident, as the comment at `shared/push/factory.py:36` says; where
  that key is missing the fallback below it picks up the key of the news all
  the same, and alerts go to the news chat. `NoCrossTalk` says that this is the
  only way (`Borrows`).
- `kr36` and `wallstreetcn` take a failed request for an empty page: the
  watermark moves to now and passes what the failure hid. `cctv_news` and
  `tushare_news` see articles of certain ages only, so that after an empty
  answer, which moves the watermark to now, no article is ever both visible
  and younger than it until the window passes. `WatermarkCovers` and
  `FeedDrains` leave these four out (`Dependable`).
- Below five yuan the rounding of the limit price to the cent exceeds the
  tolerance of the limit test, so that some limit-ups are not seen.
- Articles without a title share one simhash, and all but the first of a
  window count as duplicates.
- The manual has the scan list moves of 8 % and more
  (`quote_watcher/README.md:79`); the code wants more than 8 (`Rising`,
  `Falling`), while a volume ratio of exactly 8 is listed.
- `watchlist.yml` is documented as hot reloaded but nothing calls
  `start_watching`; `trigger_count_today` is documented as reset daily and only
  grows; `AlertsReloader` reacts to `FileModifiedEvent` alone, so a save by
  rename is ignored, and so is the file until it is next written in place or
  the process restarts (`NoEditForgotten` says that it is the only save that is
  missed while the observer runs); `dead_letter` is documented and never written;
  `digest_max_items_per_section` of the configuration is not what the digest job
  uses (30).

## 5. Proofs

The proofs hold for every value of the constants that meets the named
assumptions (`ConstantsOK`, `RawsFinite`, `VerdictConstantsOK`,
`GateConstantsOK`, `TextsOK`, `PushConstantsOK`, `PlansOK`, `BarsConstantsOK`,
`RightsOK`, `ScanConstantsOK`, `IndicatorConstantsOK`, `QuoteConstantsOK`,
`ScrapeConstantsOK`): any number of articles, sources, markets, channels,
tickers, rules and rule files, any batch size, cap, window, ceiling and
calendar, any number of faults and crashes. Five theorems suppose something of
configuration files that no validator asks: four hypotheses are definitions
beside the properties, which the `MC` modules assert of the instances, the
fifth is the constant `HasChannels`, true in the runs. Each is explained below,
at its theorem.

`NewsPipelineProofs`. The invariant `IInv` is `TypeOK`, `TablesInv`, `JobInv`
and `DigestInv`. The announced properties (`OnePath`, `AtMostOncePush`,
`AnnouncedIsProcessed`) are not inductive alone: that a row is not announced
again needs the fact that the batch is not stale (its rows are still `pending`
although it was read long ago) and what the coroutine's `plans` say about the
current row. Proved from it: `TypeCorrect`, `OnePathHolds`,
`AtMostOncePushHolds`, `AnnouncedIsProcessedHolds`, `StatusFinalHolds`, and
`Refinement`: every step of `NewsPipeline` is a step of `NewsLifecycle` or a
stutter under `StageOf`. `LogInv` is a second invariant, about the log: every
row and every answer at hand is about a message that was sent; and while
nothing was interrupted, whatever was announced is logged for each channel of
its market, or its answer is at hand. Proved from both:
`LogMatchesPushesHolds`.

`NewsDigestProofs`. `DigestRowsInv` relates the rows a digest has listed, sent
and will retire to the ranks `addedAt` and to the interruptions so far. A row
that was never sent was over the cap or has no channel (`UnsentIsExplained`);
one that was sent and not seen was refused by all. Proved:
`DigestRepeatsHolds`, `OnlyOverflowHolds`, `OrphansHolds`.

`NewsGateProofs`. For each day, `LifeOK` says that the lives that are over have
spent their share each and the present one what its total says, and bounds that
total by where the current article stands (`Bound`): below the ceiling after
the check, one call more after each answer. An article that comes over from
yesterday finds an empty total, which is why midnight grants nothing extra.
`WarnOK` does the same for the 80 %. Proved: `EachLifeOneCeilingHolds`,
`WarnedInTimeHolds`, and `TypeCorrect`, for which a verdict is shown to name
watched tickers and listed keywords only (`VerdictTyped`). `SeenInv` carries
the verdict of the article at hand from the step that computed it to the step
that uses it: it is the one of that article under the watchlist in force, which
the validators let pass. Three theorems then are about what a verdict says.
`NamedInMarketsHolds` needs the validators (a keyword an entry names is listed
for the entry's own market) and `CaseKeepsAscii`: no character outside ASCII
has an ASCII lower case. Python has one, the Kelvin sign, which lowers to "k";
a keyword with it would match as a Chinese one and be spelled like an English
one. `FindsWhatIsMentionedHolds` compares the matcher with a reader
(`Mentions`), who takes an English name for mentioned where it stands in whole
words (`Torn`), several words included; it needs `PlainNames`: an English name
begins and ends with a letter or digit, since the matcher also refuses "C++"
before a digit. `RulesOnlyFateHolds` needs `GrayBetween`: the gray zone begins
above what keywords score (35) and no higher than a direct hit (50), and ends
no higher than a direct hit with its sector (70); `app.yml` says 40 to 70.

`PushChannelProofs`. `Covered` relates a bucket to the releases of the past:
the j-th youngest entry is at least as young as the j-th youngest release that
is still in the window and of this life of the process. With it a bucket that
is not full puts the release `Threshold` places back out of the window, unless
it is of an earlier life. It survives the expiry at the front, because buckets
are `Ordered`, a message that names a ticker twice, because its entries are
younger than all others, and a crash, after which every release is of an
earlier life. `Spaced` adds the lives up: the releases of any window are at
most `Threshold` times the lives of the process they belong to (`MoreLives`).
Proved: `BurstBoundHolds`; and from `PostInv`, which counts late answers,
`ResultsAreTrueHolds`. The converse, `SuppressedInBurstHolds`, needs that a
bucket holds nothing but releases (`MatchInv`): its entries can be matched with
mentions in released messages of the same times, one each.
`FailuresAreNoticedHolds` rests on `NoticeInv`: the next run is at most a
period away (`Timely`), the last alert of a channel was at least a period
before that run, and the throttle is shorter than the period; so failures that
lie close enough together were noticed already, or the next run, which nothing
throttles, comes while all of them are within its window (`Noticed`).
`NoCrossTalkHolds` rests on `SecretsInv` (a process holds some file of secrets)
and supposes `KeysSeparate` and `SecretsSeparate`: no key of the news is the
`_alert` key of a quote channel, and no webhook stands under two keys. That a
bare key of the quotes has its `_alert` key is not supposed: where it is
missing `_lookup_push` falls back to the bare key, which is the news' own, and
the theorem says that a webhook is shared in this case only. `TypeCorrect` puts
these invariants together; what they leave out (`PlanType`) is that a coroutine
on its way has a plan to go by and a post is tried again only below the last
attempt. It supposes `PlansOK`: a message without a plan is not sent at all,
since the loop over `route`'s plans does not begin.

`ScrapeDedupProofs`. `IInv` is `TypeOK`, `PastInv`, the two announced
invariants, and per source what the job holds between its awaits: `HoldsOK`
(what it holds was shown by the source and is no older than the watermark),
`RestOK` (the rest that is owed is in the table or about to be put there),
`TitleOK` (what the title lookup found holds until the insert, as far as rows
of the same source go), `CoverOK` (whatever the new watermark will pass is
handled). The watermark of an answer is a maximum, whose existence is a lemma.
Proved: `TypeCorrect`, `WatermarkCoversHolds`, `NearDuplicatesHolds`,
`WatermarkAdvancesHolds`, `RestIsKeptHolds`.

`QuoteAlertsProofs`. The invariant `IInv` adds to `TypeOK` and `MarkedIsSent`:
the table tells the truth about the past (`quiet = age`), a loop deals with its
own rules only (`OwnRules`), so that two loops never handle the same row, and
what `is_in_cooldown` found stays so until the mark (`LoopOK`). That last
conjunct is where an interleaving would bite: between check and mark the other
loop runs, minutes pass, and rules are swapped. Proved: `TypeCorrect`,
`MarkedIsSentHolds`, and the action property `CooldownKeptHolds`.
`NoEditForgottenHolds` needs no invariant: the event is taken before the file
is read, so an edit in place between the two queues one of its own, and what
was read stays at hand until it is swapped in. A save by rename is the one step
that it excepts. `ImplementsContractHolds` shows that the two loops implement
`AlertContract`, where an alert becomes owed and its cooldown starts in one
step. `ContractInv` adds to `MarkedIsSent` its converse (what is in flight or
lost is owed, and never both), that the rules of a file are about different
keys, and so are those a loop still deals with, where it sends them one by one
(`LoopApart`). `Effect` lists what a step can do to the alerts in flight; every
action has one of these effects, and `EffectSimulates` maps each of them to a
step of the contract or to a stutter. It supposes `HasChannels`: without
channels nothing is sent, while the portfolio is still evaluated and its
cooldown armed.

`QuoteBarsProofs`. `AnswerInv` says what an answer still says of the market
when it is stored, although the session has changed since, and that it may be
empty; `BarsInv` and `DaysInv` tie the table to the market's history as akshare
shows it, `LoadInv` to the start of the process. A right rescales all closes of
its ticker and is younger than any load so far, so that the third exception of
`BarsInv` holds from then on until the next load. Proved:
`WrongCloseIsExplainedHolds`, `LoadReachesHolds`, and `TypeCorrect`: whatever
is merged into the table, it holds integers on trading days (`OverTyped`,
`AdjustedTyped`). `CrossIsRealHolds` is for any two averages, the fast one need
not be the shorter: the bars of a ticker are a sequence, the market's history a
function on days, and the lemmas say when one is the other. `Ascending` and
`LastOnes`: the last `n` of the closes are those of the `n` last days;
`LastOfMore`: these are the same in the table and in the market when the table
ends where the market does; `AppendDay`: the price of the moment is one more
day. No sum is expanded: both sides add up the same sequence.
`LimitsAreSeenHolds` and `ScanListsExtremesHolds` lift the next two to the
specification; the latter supposes with `ScanConstantsOK` that `push_top_n` and
the threshold are not negative, which the schema does not ask.

`QuoteMathProofs`. `LimitSeenFromFive`: from five yuan on a limit price,
rounded to the cent, passes the limit test. `TopIsExtreme`: the first rows of a
stable sort by a key. It rests on `Ranks`: in a finite order the numbers of
those before are 0, 1, 2 and so on, each once (an injection into as many
numbers is onto), which `QuoteBarsProofs` uses for the days too.

`IndicatorsFollowPriceHolds` says what RSI and MACD do for every sequence of
closes: with all but the last close equal, a higher last close does not lower
them. They are recursive functions (`QuoteMath`), and the induction over the
closes is done with sets: a set of numbers that has members has a least one
(`LeastOf`), hence `SetInduction` and, up to a length, `BoundedInduction`.
`RecursionExists`, `RecursionTyped` and `RecursionAgrees` give such a function
its equation and its type, and say that two recursions agree as far as what
they are given does. For the RSI the rest is one step of its averages
(`ShareGrows`). For the MACD `IndicatorConstantsOK` asks that the fast window
is no longer than the slow one, without which `MacdGrows` is false; the program
uses 12, 26 and 9.

Only model-checked: liveness (`PendingDrains`, `BufferDrains`, `FeedDrains`,
`HotIsReported`, `ReloadFollows`, `StopEnds`), which is beyond the prover
together with fairness. Every invariant, action property and refinement of a
passing run is a theorem. The other way round, `MarkedIsSent` and the type
invariants of `NewsGate`, `PushChannel`, `QuoteAlerts` and `QuoteBars` are
proved and named by no run. What the first says is in `quote_alerts` all the
same: the refinement fails where an owed alert is neither in flight nor lost.

## 6. Not modelled

- Parsing of feeds, prompts, rendering of messages, cards and charts,
  signatures, backoff times: I/O and text without decisions the properties
  tell apart.
- Migrations, health check, the startup probe and the `--once` mode: scripts
  that run before or instead of the jobs.
- The bot command server and `send_digest` of `scheduler/jobs.py`: `main.py`
  does not start them. The debounced reload of `ConfigLoader` and tier 3 of the
  LLM pipeline: nothing calls them.
- The weekly report, the heartbeat, metrics, `audit_log`, entities, relations
  and the search index: written, and read by no decision.
- The tick ring and one-minute bars, written and never read; the market scan
  loop, which keeps no state (its ranking is in `QuoteMath`).
- The holding, portfolio and sector contexts, one expression per field, and
  volume averages, for which `main.py` supplies no data.
- Floating point.

## 7. Plan

Done, in the order of importance: `NewsPipeline` with refinement and proofs,
`ScrapeDedup`, `QuoteAlerts` with proofs, `NewsGate` over `NewsVerdict`,
`PushChannel`, `Feeds`, `QuoteBars` over `QuoteMath`, and proofs for each of
them. What could follow:

1. A composition of `ScrapeDedup` and `NewsPipeline` over `raw_news`, if an
   end-to-end property (shown by a source, hence announced or rejected) can be
   checked in a bound worth having.
2. Proofs: the step-by-step part of the liveness arguments (what never turns
   back until a row is taken).
3. The holding, portfolio and sector contexts, once `main.py` supplies what
   they read.
4. The bot commands and `start_watching`, once `main.py` starts them.
