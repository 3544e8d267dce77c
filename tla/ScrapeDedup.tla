---------------------------- MODULE ScrapeDedup ----------------------------
(***************************************************************************)
(* The scraping half of news_pipeline: one scrape_<source> job per source, *)
(* each fetching what its source shows since the source's watermark, and   *)
(* the Dedup that decides which of it becomes a row of raw_news.           *)
(*                                                                         *)
(* The jobs of different sources interleave at every await; a job never    *)
(* overlaps itself (max_instances=1).  Articles are identified by their    *)
(* URL, so two sources that show the same URL show the same article, one   *)
(* of them perhaps in a form its scraper cannot read.  Time is a clock of  *)
(* coarse ticks.                                                           *)
(***************************************************************************)
EXTENDS Feeds, FiniteSetsExt

CONSTANTS
  Enabled,       \* the sources switched on in sources.yml
  CnTickers,     \* the Chinese tickers of the watchlist
  Ciks,          \* the CIKs main.py knows
  Articles,
  NoArticle,     \* no article
  Pub,           \* Pub[a]: published_at of article a
  Shows,         \* Shows[s]: the articles source s may show
  Absent,        \* Absent[s]: pairs <<a, field>> that s shows without the field
  Broken,        \* Broken[s]: pairs <<a, field>> that s shows garbled
  Near,          \* pairs of articles whose titles are within the distance
  Lookback,      \* lookback_minutes: how far back a first fetch goes
  Window,        \* window_hours of list_recent_simhashes
  Pause,         \* the 30 minutes a source rests after anti-crawl
  MaxClock,      \* bound on time
  MaxFaults      \* bound on failed fetches, exceptions and crashes

\* The jobs main.py schedules: one for each registered scraper.
Sources == {sc.id : sc \in Registered(Enabled, CnTickers, Ciks)}
ScraperOf == [s \in Sources |-> CHOOSE sc \in Scrapers : sc.id = s]

ASSUME ScrapeConstantsOK ==
  /\ NoArticle \notin Articles
  /\ Shows \in [Sources -> SUBSET Articles]
  /\ Absent \in [Sources -> SUBSET (Articles \X Fields)]
  /\ Broken \in [Sources -> SUBSET (Articles \X Fields)]
  /\ Pub \in [Articles -> Nat]
  /\ Near \subseteq Articles \X Articles
  /\ \A a, b \in Articles : <<a, b>> \in Near => <<b, a>> \in Near
  /\ Lookback \in Nat /\ Window \in Nat /\ Pause \in Nat
  /\ MaxClock \in Nat /\ MaxFaults \in Nat

VARIABLES
  clock,
  feed,          \* feed[s]: the articles source s shows (outside the program)
  \* ---- tables
  rows,          \* the articles that have a raw_news row
  fetchedAt,     \* fetchedAt[a]: RawNews.fetched_at
  watermark,     \* watermark[s]: SourceState.last_fetched_at, or Never
  pausedUntil,   \* pausedUntil[s]: SourceState.paused_until (0: not paused)
  \* ---- the coroutines (a local is reset when it is no longer read)
  job,           \* job[s]: [pc, since, at, items, todo, art]
  \* ---- history
  returned,      \* returned[s]: what s answered since it has a watermark, and
                 \* in the run that is to give it the first one
  addedBy,       \* addedBy[a]: the source whose job inserted a
  checkedAt,     \* checkedAt[a]: when that job looked for similar titles
  banned,        \* banned[s]: when the last anti-crawl rest is over
  faults

tables  == <<rows, fetchedAt, watermark, pausedUntil>>
history == <<returned, addedBy, checkedAt, banned>>
vars    == <<clock, feed, tables, job, history, faults>>

Never == -1                     \* no row of source_state, or no last_fetched_at
JobPCs == {"idle", "fetch", "pause", "url", "title", "insert",
           "metric", "mark"}
Resting == [pc |-> "idle", since |-> 0, at |-> 0, items |-> {}, todo |-> {},
            art |-> NoArticle]

Init ==
  /\ clock = 0
  /\ feed = [s \in Sources |-> {}]
  /\ rows = {}
  /\ fetchedAt = [a \in Articles |-> 0]
  /\ watermark = [s \in Sources |-> Never]
  /\ pausedUntil = [s \in Sources |-> 0]
  /\ job = [s \in Sources |-> Resting]
  /\ returned = [s \in Sources |-> {}]
  /\ addedBy = [a \in Articles |-> {}]
  /\ checkedAt = [a \in Articles |-> 0]
  /\ banned = [s \in Sources |-> 0]
  /\ faults = 0

Goto(s, pc) == job' = [job EXCEPT ![s].pc = pc]

-----------------------------------------------------------------------------
(* The world *)

\* (The bound: every rest must end before MaxClock.)
Tick ==
  /\ clock < MaxClock
  /\ \A s \in Sources : job[s].pc = "pause" => clock + Pause < MaxClock
  /\ clock' = clock + 1
  /\ UNCHANGED <<feed, tables, job, history, faults>>

\* A source shows an article, at once or some time after it was published.
Publish(s, a) ==
  /\ a \in Shows[s] \ feed[s] /\ Pub[a] <= clock
  /\ feed' = [feed EXCEPT ![s] = @ \cup {a}]
  /\ UNCHANGED <<clock, tables, job, history, faults>>

-----------------------------------------------------------------------------
(* scrape_one_source *)

SkipPaused(s) ==
  /\ job[s].pc = "idle" /\ pausedUntil[s] > clock
  /\ UNCHANGED vars

SinceLookback(s) == clock - Lookback
Since(s) == IF watermark[s] = Never THEN clock - Lookback ELSE watermark[s]

\* is_paused and get read the source's own row, which no other job writes.
StartScrape(s) ==
  /\ job[s].pc = "idle" /\ pausedUntil[s] <= clock
  /\ job' = [job EXCEPT ![s].pc = "fetch", ![s].since = Since(s),
                        ![s].at = IF ScraperOf[s].early THEN clock ELSE 0]
  /\ returned' = [returned EXCEPT ![s] = IF watermark[s] = Never THEN {} ELSE @]
  /\ UNCHANGED <<clock, feed, tables, addedBy, checkedAt, banned, faults>>

\* The watermark an answer stands for: `now` is read after the answer came.
WatermarkOfLookback(items) ==
  IF items = {} THEN clock - Lookback ELSE Max({Pub[a] : a \in items})
WatermarkOf(items) == IF items = {} THEN clock ELSE Max({Pub[a] : a \in items})

\* Article a as source s shows it, and the page the scraper gets.
Item ==
  [s \in Sources |-> [a \in Articles |->
     [pub |-> Pub[a], absent |-> {f \in Fields : <<a, f>> \in Absent[s]},
      broken |-> {f \in Fields : <<a, f>> \in Broken[s]}]]]
Page(s) == {a \in feed[s] : InWindow(ScraperOf[s], Item[s][a], clock)}

\* What the scraper keeps of it, unless an item fails the whole page.
AnswerStrict(s) == {a \in Page(s) : Pub[a] > job[s].since}
Answer(s) == {a \in Page(s) : Kept(ScraperOf[s], Item[s][a], job[s].since)}
Fails(s, since) == \E a \in Page(s) : Fatal(ScraperOf[s], Item[s][a], since)

Answered(s, items) ==
  /\ job' = [job EXCEPT ![s].pc = IF items = {} THEN "mark" ELSE "url",
                        ![s].since = 0,
                        ![s].at = IF ScraperOf[s].early THEN @ ELSE clock,
                        ![s].items = items, ![s].todo = items]
  /\ returned' = [returned EXCEPT ![s] = @ \cup items]
  /\ UNCHANGED <<clock, feed, tables, addedBy, checkedAt, banned>>

FetchOk(s) ==
  /\ job[s].pc = "fetch" /\ ~Fails(s, job[s].since)
  /\ Answered(s, Answer(s)) /\ UNCHANGED faults

\* The request fails, and the scraper makes an empty answer of it.
FetchSwallowed(s) ==
  /\ job[s].pc = "fetch" /\ ScraperOf[s].swallows /\ faults < MaxFaults
  /\ faults' = faults + 1
  /\ Answered(s, {})

\* An unreadable item: a structural error, at this tick and at the next one.
FetchRaises(s) ==
  /\ job[s].pc = "fetch" /\ Fails(s, job[s].since)
  /\ job' = [job EXCEPT ![s] = Resting]
  /\ UNCHANGED <<clock, feed, tables, history, faults>>

\* AntiCrawlError; the rest must fit before the end of time.
FetchAntiCrawl(s) ==
  /\ job[s].pc = "fetch" /\ ScraperOf[s].detects
  /\ faults < MaxFaults /\ clock + Pause <= MaxClock
  /\ Goto(s, "pause")
  /\ banned' = [banned EXCEPT ![s] = clock + Pause]
  /\ faults' = faults + 1
  /\ UNCHANGED <<clock, feed, tables, returned, addedBy, checkedAt>>

PauseEndNow == clock
PauseEnd == clock + Pause

SetPaused(s) ==
  /\ job[s].pc = "pause"
  /\ pausedUntil' = [pausedUntil EXCEPT ![s] = PauseEnd]
  /\ job' = [job EXCEPT ![s] = Resting]
  /\ UNCHANGED <<clock, feed, rows, fetchedAt, watermark, history, faults>>

\* Any other error of the fetch: it is recorded, and the next tick retries.
FetchError(s) ==
  /\ job[s].pc = "fetch" /\ faults < MaxFaults
  /\ job' = [job EXCEPT ![s] = Resting]
  /\ faults' = faults + 1
  /\ UNCHANGED <<clock, feed, tables, history>>

\* check_and_register, first await: find_by_url_hash.
LookupUrl(s, a) ==
  /\ job[s].pc = "url" /\ a \in job[s].todo
  /\ job' = [job EXCEPT ![s].pc = IF a \in rows THEN "metric" ELSE "title",
                        ![s].art = a]
  /\ UNCHANGED <<clock, feed, tables, history, faults>>

\* list_recent_simhashes and hamming: a row close to `a` in the window.
SimilarOld(a) == {b \in rows : <<a, b>> \in Near /\ fetchedAt[b] < clock - Window}
Similar(a) == {b \in rows : <<a, b>> \in Near /\ fetchedAt[b] >= clock - Window}

LookupTitle(s) ==
  /\ job[s].pc = "title"
  /\ IF Similar(job[s].art) # {}
     THEN Goto(s, "metric") /\ UNCHANGED checkedAt
     ELSE /\ Goto(s, "insert")
          /\ checkedAt' = IF job[s].art \in rows THEN checkedAt
                          ELSE [checkedAt EXCEPT ![job[s].art] = clock]
  /\ UNCHANGED <<clock, feed, tables, returned, addedBy, banned, faults>>

\* insert: uq_raw_url_hash turns the loser of a race into a reader.
Insert(s) ==
  LET a == job[s].art
  IN /\ job[s].pc = "insert"
     /\ IF a \in rows
        THEN UNCHANGED <<rows, fetchedAt, addedBy>>
        ELSE /\ rows' = rows \cup {a}
             /\ fetchedAt' = [fetchedAt EXCEPT ![a] = job[s].at]
             /\ addedBy' = [addedBy EXCEPT ![a] = {s}]
     /\ Goto(s, "metric")
     /\ UNCHANGED <<clock, feed, watermark, pausedUntil, returned, checkedAt,
                    banned, faults>>

AfterArticle(left) == IF left = {} THEN "mark" ELSE "url"

\* metrics.increment, then the next article or the watermark.
Metric(s) ==
  LET left == job[s].todo \ {job[s].art}
  IN /\ job[s].pc = "metric"
     /\ job' = [job EXCEPT ![s].pc = AfterArticle(left), ![s].todo = left,
                           ![s].art = NoArticle]
     /\ UNCHANGED <<clock, feed, tables, history, faults>>

UpdateWatermark(s) ==
  /\ job[s].pc = "mark"
  /\ watermark' = [watermark EXCEPT ![s] = WatermarkOf(job[s].items)]
  /\ job' = [job EXCEPT ![s] = Resting]
  /\ UNCHANGED <<clock, feed, rows, fetchedAt, pausedUntil, history, faults>>

JobRaisesMarked(s) ==
  /\ job[s].pc # "idle" /\ faults < MaxFaults
  /\ faults' = faults + 1
  /\ job' = [job EXCEPT ![s] = Resting]
  /\ watermark' = [watermark EXCEPT ![s] = WatermarkOf(job[s].items)]
  /\ UNCHANGED <<clock, feed, rows, fetchedAt, pausedUntil, history>>

\* A read or a commit raises: the scheduler logs job_failed.
JobRaises(s) ==
  /\ job[s].pc # "idle" /\ faults < MaxFaults
  /\ faults' = faults + 1
  /\ job' = [job EXCEPT ![s] = Resting]
  /\ banned' = [banned EXCEPT ![s] = IF job[s].pc = "pause" THEN 0 ELSE @]
  /\ UNCHANGED <<clock, feed, tables, returned, addedBy, checkedAt>>

\* The process dies and is restarted.
Crash ==
  /\ faults < MaxFaults
  /\ faults' = faults + 1
  /\ job' = [s \in Sources |-> Resting]
  /\ banned' = [s \in Sources |-> IF job[s].pc = "pause" THEN 0 ELSE banned[s]]
  /\ UNCHANGED <<clock, feed, tables, returned, addedBy, checkedAt>>

-----------------------------------------------------------------------------

Failures(s) == FetchAntiCrawl(s) \/ FetchSwallowed(s) \/ FetchError(s) \/ JobRaises(s)

Step(s) ==
  \/ StartScrape(s) \/ FetchOk(s) \/ FetchRaises(s) \/ SetPaused(s)
  \/ \E a \in Articles : LookupUrl(s, a)
  \/ LookupTitle(s) \/ Insert(s) \/ Metric(s) \/ UpdateWatermark(s)

Next ==
  \/ Tick \/ Crash
  \/ \E s \in Sources, a \in Articles : Publish(s, a)
  \/ \E s \in Sources : SkipPaused(s) \/ Step(s) \/ Failures(s)

Spec == Init /\ [][Next]_vars

\* Time passes, and the scheduler starts and runs every job again and again.
FairSpec == Spec /\ WF_vars(Tick) /\ \A s \in Sources : WF_vars(Step(s))

-----------------------------------------------------------------------------
(* Properties *)

\* Every variable has its type.
TypeOK ==
  /\ clock \in Nat /\ faults \in Nat
  /\ feed \in [Sources -> SUBSET Articles]
  /\ rows \subseteq Articles
  /\ fetchedAt \in [Articles -> Nat]
  /\ watermark \in [Sources -> Nat \cup {Never}]
  /\ pausedUntil \in [Sources -> Nat]
  /\ job \in [Sources -> [pc : JobPCs, since : Int, at : Nat,
                          items : SUBSET Articles, todo : SUBSET Articles,
                          art : Articles \cup {NoArticle}]]
  /\ returned \in [Sources -> SUBSET Articles]
  /\ addedBy \in [Articles -> SUBSET Sources]
  /\ checkedAt \in [Articles -> Nat]
  /\ banned \in [Sources -> Nat]

\* The article, or one with a title close to it, is in raw_news.
Known(a) == a \in rows \/ \E b \in rows : <<a, b>> \in Near

\* The sources whose scraper neither takes a failed request for an empty page
\* nor sees articles of some ages only.
Dependable == {s \in Sources : ~ScraperOf[s].swallows /\ ScraperOf[s].window = <<>>}

\* The watermark passes nothing that was answered and not handled: what a
\* failed or interrupted run leaves over is fetched again.  (Before the first
\* watermark a failed run's articles may fall out of the lookback; and one
\* swallowed failure after the interruption is enough to lose them.)
WatermarkCovers ==
  \A s \in Dependable : \A a \in returned[s] : Pub[a] < watermark[s] => Known(a)

\* Two rows with close titles within the window come from two sources whose
\* jobs overlapped; one source never stores the same story twice.
NearDuplicatesNeedTwoSources ==
  \A a, b \in rows : a # b /\ <<a, b>> \in Near /\ addedBy[a] = addedBy[b] =>
    \/ fetchedAt[a] < checkedAt[b] - Window
    \/ fetchedAt[b] < checkedAt[a] - Window

\* A source never goes back in time.
WatermarkAdvances ==
  [][\A s \in Sources : watermark'[s] >= watermark[s]]_vars

\* A source that refused to be crawled is left alone for the whole rest, in
\* particular after a restart.
RestIsKept ==
  [][\A s \in Sources :
       job[s].pc = "idle" /\ job'[s].pc = "fetch" => clock >= banned[s]]_vars

\* With time and the scheduler fair, what a dependable source shows between
\* two scrapes, no older than its watermark, ends up in raw_news, whatever
\* fails meanwhile, unless it comes to show an item that fails its page.
FeedDrains ==
  \A s \in Dependable : \A a \in Shows[s] :
    /\ a \in feed[s] /\ job[s].pc = "idle"
    /\ watermark[s] # Never /\ Kept(ScraperOf[s], Item[s][a], watermark[s])
    ~> Known(a) \/ Fails(s, Since(s))

\* The comment on the watermark: an article may be skipped only if the source
\* answered a younger one before.
OnlyOlderAreSkipped ==
  \A s \in Sources : \A a \in feed[s] :
    Pub[a] < watermark[s] => Known(a) \/ \E b \in returned[s] : Pub[a] < Pub[b]
=============================================================================
