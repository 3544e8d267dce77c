---------------------------- MODULE NewsPipeline ----------------------------
(***************************************************************************)
(* The processing half of news_pipeline: the process_pending job, the      *)
(* digest jobs, and the tables through which they meet (raw_news,          *)
(* news_processed, digest_buffer, push_log).                               *)
(*                                                                         *)
(* All jobs are coroutines of one asyncio loop, so an action is the code   *)
(* between two awaits that matter: every commit of a table and every call  *)
(* to a chat channel is an action of its own, and a crash, a restart or an *)
(* exception can fall between any two of them.  The scheduler runs each    *)
(* job with max_instances=1.                                               *)
(***************************************************************************)
EXTENDS Integers, FiniteSets

CONSTANTS
  Raws,          \* rows of raw_news, numbered in published_at order
  Markets,       \* the markets ("us", "cn")
  MarketOf,      \* MarketOf[r]: RawNews.market of row r
  Channels,      \* Channels[m]: DispatchRouter._by_market[m]
  RulesEnabled,  \* config: rules.enable
  LlmEnabled,    \* config: llm.enable
  BatchSize,     \* process_pending's batch_size (25)
  DigestCap,     \* rows one digest message shows (30)
  FailPoints,    \* where an await may raise: values of pc, and "digest"
  MaxFaults,     \* bound on the exceptions raised
  MaxCrashes     \* bound on process crashes and restarts

None == << >>                                \* no digest_buffer row
Periods == {"morning", "evening"}
Keys == Periods \X Markets                    \* scheduled_digest
AllChannels == UNION {Channels[m] : m \in Markets}

\* Why process_pending drops a row; which of these can happen depends on the
\* two enable flags.
Rejections ==
     (IF RulesEnabled THEN {"skipped_rules"} ELSE {})
  \cup (IF LlmEnabled THEN {"skipped", "dead"} ELSE {"skipped_grayzone"})

Statuses == {"absent", "pending", "processed"} \cup Rejections
JobPCs   == {"idle", "next", "insert", "mark", "route", "log"}

ASSUME ConstantsOK ==
  /\ Raws \subseteq Nat
  /\ MarketOf \in [Raws -> Markets]
  /\ DOMAIN Channels = Markets
  /\ RulesEnabled \in BOOLEAN /\ LlmEnabled \in BOOLEAN
  /\ RulesEnabled \/ LlmEnabled               \* config: at_least_one_enabled
  /\ BatchSize \in Nat \ {0} /\ DigestCap \in Nat \ {0}
  /\ FailPoints \subseteq (JobPCs \ {"idle"}) \cup {"digest"}
  /\ MaxFaults \in Nat /\ MaxCrashes \in Nat

ASSUME RawsFinite == IsFiniteSet(Raws)

VARIABLES
  \* ---- tables (survive a crash)
  status,        \* status[r]: RawNews.status, "absent" before the row exists
  proc,          \* the rows that have a news_processed row (unique raw_id)
  digestOf,      \* digestOf[r]: key of r's digest_buffer row, or None
  addedAt,       \* addedAt[r]: its added_at, as a rank
  consumed,      \* the digest_buffer rows whose consumed_at is set
  pushLog,       \* rows <<r, channel, ok>> of push_log
  \* ---- the process_pending coroutine
  pc, todo,      \* where it is; the rows of its batch still to be handled
  critical,      \* ScoredNews.is_critical of the current row
  plans,         \* markets of the dispatch plans still to be carried out
  answers,       \* pairs <<channel, ok>> still to be written to push_log
  \* ---- the digest coroutines
  dig,           \* dig[k]: [pc, ids, items]
  \* ---- what the chats saw (no variable of the program)
  pushed,        \* pushed[r][m]: immediate messages sent to m's channels
  digested,      \* digested[r]: digest messages with r that were sent
  refused,       \* refused[r]: those of them that every channel refused
  \* ---- counters of the bounds
  faults, crashes

tables == <<status, proc, digestOf, addedAt, consumed, pushLog>>
job    == <<pc, todo, critical, plans, answers>>
chats  == <<pushed, digested, refused>>
vars   == <<tables, job, dig, chats, faults, crashes>>

Asleep == [pc |-> "idle", ids |-> {}, items |-> {}]

Init ==
  /\ status = [r \in Raws |-> "absent"]
  /\ proc = {} /\ consumed = {} /\ pushLog = {}
  /\ digestOf = [r \in Raws |-> None]
  /\ addedAt = [r \in Raws |-> 0]
  /\ pc = "idle" /\ todo = {} /\ critical = FALSE /\ plans = {} /\ answers = {}
  /\ dig = [k \in Keys |-> Asleep]
  /\ pushed = [r \in Raws |-> [m \in Markets |-> 0]]
  /\ digested = [r \in Raws |-> 0] /\ refused = [r \in Raws |-> 0]
  /\ faults = 0 /\ crashes = 0

-----------------------------------------------------------------------------
(* Queries *)

PendingAnyFailed == {r \in Raws : status[r] \notin {"absent", "processed"}}
Pending == {r \in Raws : status[r] = "pending"}

\* ORDER BY published_at LIMIT n
Oldest(n, S) == {r \in S : Cardinality({x \in S : x < r}) < n}

Rows(k) == {r \in Raws : digestOf[r] = k /\ r \notin consumed}

\* ORDER BY added_at, then [:n]
Earliest(n, S) == {r \in S : Cardinality({x \in S : addedAt[x] < addedAt[r]}) < n}

Buffered == {r \in Raws : digestOf[r] # None}

\* RawNewsDAO.mark_status
SetStatusLost(r, s) == UNCHANGED status
SetStatusUnknown(r, s) == status' = [status EXCEPT ![r] = "done"]
SetStatus(r, s) == status' = [status EXCEPT ![r] = s]

-----------------------------------------------------------------------------
(* process_pending *)

\* The row of the batch being handled: they come in published_at order.
Least(S) == CHOOSE r \in S : \A x \in S : r <= x
Cur == Least(todo)

JobEnds ==
  /\ pc' = "idle" /\ todo' = {}
  /\ critical' = FALSE /\ plans' = {} /\ answers' = {}

\* The body of the loop is done with Cur: the next row, or return.
NextRow ==
  IF todo = {Cur}
  THEN JobEnds
  ELSE /\ pc' = "next" /\ todo' = todo \ {Cur}
       /\ critical' = FALSE /\ plans' = {} /\ answers' = {}

\* Dedup inserted a row: articles arrive in any order of publication.
Ingest(r) ==
  /\ status[r] = "absent"
  /\ status' = [status EXCEPT ![r] = "pending"]
  /\ UNCHANGED <<proc, digestOf, addedAt, consumed, pushLog,
                 job, dig, chats, faults, crashes>>

EmptyTick == pc = "idle" /\ Pending = {} /\ UNCHANGED vars

ListPending ==
  /\ pc = "idle" /\ Pending # {}
  /\ pc' = "next" /\ todo' = Oldest(BatchSize, Pending)
  /\ UNCHANGED <<critical, plans, answers, tables, dig, chats, faults, crashes>>

\* The rules gate, the LLM or the gray zone drops the row.
Reject(outcome) ==
  /\ pc = "next"
  /\ SetStatus(Cur, outcome)
  /\ NextRow
  /\ UNCHANGED <<proc, digestOf, addedAt, consumed, pushLog,
                 dig, chats, faults, crashes>>

\* The row is enriched and scored; nothing is stored yet.
Score(crit) ==
  /\ pc = "next"
  /\ pc' = "insert" /\ critical' = crit
  /\ UNCHANGED <<todo, plans, answers, tables, dig, chats, faults, crashes>>

Insert ==
  /\ pc = "insert" /\ Cur \notin proc
  /\ proc' = proc \cup {Cur} /\ pc' = "mark"
  /\ UNCHANGED <<status, digestOf, addedAt, consumed, pushLog,
                 todo, critical, plans, answers, dig, chats, faults, crashes>>

\* uq_proc_raw: the insert raises, nobody catches it, the whole batch ends.
InsertCollides ==
  /\ pc = "insert" /\ Cur \in proc
  /\ JobEnds
  /\ UNCHANGED <<tables, dig, chats, faults, crashes>>

\* The markets a message is routed to: those of the rules verdict when the
\* rules are on, else the article's own.
Targets(r) ==
  IF RulesEnabled THEN SUBSET Markets \ {{}} ELSE {{MarketOf[r]}}

\* mark_status "processed", then build, route and enter the loop over plans.
Mark(target) ==
  /\ pc = "mark"
  /\ SetStatus(Cur, "processed")
  /\ LET routed == {m \in target : Channels[m] # {}}
     IN  IF routed = {} THEN NextRow
         ELSE /\ pc' = "route" /\ plans' = routed
              /\ UNCHANGED <<todo, critical, answers>>
  /\ UNCHANGED <<proc, digestOf, addedAt, consumed, pushLog,
                 dig, chats, faults, crashes>>

\* Plan m is done with: the next plan, or the next row.
NextPlan(m) ==
  IF plans = {m} THEN NextRow
  ELSE /\ pc' = "route" /\ plans' = plans \ {m} /\ answers' = {}
       /\ UNCHANGED <<todo, critical>>

\* DispatchPlan.immediate is false: the message waits for a digest.
WaitsAlways == TRUE
Waits == ~critical

\* The plans left once plan m has been sent to the channels `ok`.
PlansLeftRetry(m, ok) == IF ok = {} THEN plans ELSE plans \ {m}
PlansLeft(m, ok) == plans \ {m}

\* The push_log row of one answer.
LogRowFailures(a) == IF a[2] THEN {} ELSE {<<Cur, a[1], a[2]>>}
LogRow(a) == {<<Cur, a[1], a[2]>>}

\* BurstSuppressor.should_send said no: the plan is dropped.
Suppress(m) ==
  /\ pc = "route" /\ critical /\ m \in plans
  /\ NextPlan(m)
  /\ UNCHANGED <<tables, dig, chats, faults, crashes>>

\* Send to the channels of m at once; `ok` are those that accept.
Dispatch(m, ok) ==
  /\ pc = "route" /\ critical /\ m \in plans
  /\ pushed' = [pushed EXCEPT ![Cur][m] = @ + 1]
  /\ answers' = (ok \X {TRUE}) \cup ((Channels[m] \ ok) \X {FALSE})
  /\ plans' = PlansLeft(m, ok) /\ pc' = "log"
  /\ UNCHANGED <<todo, critical, tables, dig, digested, refused, faults, crashes>>

\* One push_log row per channel, each its own commit.
WriteLog(a) ==
  /\ pc = "log" /\ a \in answers
  /\ pushLog' = pushLog \cup LogRow(a)
  /\ IF answers # {a}
     THEN answers' = answers \ {a} /\ UNCHANGED <<pc, todo, critical, plans>>
     ELSE IF plans = {} THEN NextRow
     ELSE pc' = "route" /\ answers' = {} /\ UNCHANGED <<todo, critical, plans>>
  /\ UNCHANGED <<status, proc, digestOf, addedAt, consumed,
                 dig, chats, faults, crashes>>

\* A message that can wait: one digest row under the article's OWN market,
\* then `break`, whatever the other plans are.
Enqueue(period) ==
  /\ pc = "route" /\ Waits
  /\ digestOf' = [digestOf EXCEPT ![Cur] = <<period, MarketOf[Cur]>>]
  /\ addedAt' = [addedAt EXCEPT ![Cur] = Cardinality(Buffered)]
  /\ NextRow
  /\ UNCHANGED <<status, proc, consumed, pushLog, dig, chats, faults, crashes>>

\* An await of the job raises; the scheduler's wrapper logs job_failed.
JobRaises ==
  /\ pc \in FailPoints /\ faults < MaxFaults
  /\ faults' = faults + 1
  /\ JobEnds
  /\ UNCHANGED <<tables, dig, chats, crashes>>

-----------------------------------------------------------------------------
(* _digest_job_runner, one coroutine per key *)

EmptyDigest(k) == dig[k].pc = "idle" /\ Rows(k) = {} /\ UNCHANGED vars

\* list_pending, and the lookup of the rows it will show.
DigestList(k) ==
  LET rows  == Rows(k)
      shown == Earliest(DigestCap, rows) \cap proc
  IN /\ dig[k].pc = "idle" /\ rows # {}
     /\ dig' = [dig EXCEPT ![k] =
                  [pc |-> IF shown = {} THEN "consume" ELSE "dispatch",
                   ids |-> rows, items |-> shown]]
     /\ UNCHANGED <<tables, job, chats, faults, crashes>>

\* The message goes to the channels of the key's market, if there are any;
\* `ok` are those that accept.  Their answers are not looked at: a refusal is
\* no exception, and the rows are retired all the same.
CountUp(f, rows) == [r \in Raws |-> IF r \in rows THEN f[r] + 1 ELSE f[r]]

DigestDispatch(k, ok) ==
  LET sent == IF Channels[k[2]] # {} THEN dig[k].items ELSE {}
  IN /\ dig[k].pc = "dispatch"
     /\ digested' = CountUp(digested, sent)
     /\ refused' = IF ok = {} THEN CountUp(refused, sent) ELSE refused
     /\ dig' = [dig EXCEPT ![k].pc = "consume"]
     /\ UNCHANGED <<tables, job, pushed, faults, crashes>>

\* consumed_ids: every row that was listed, shown or not.
ConsumedIdsLate(k) == Rows(k)
ConsumedIdsNone(k) == {}
ConsumedIds(k) == dig[k].ids

\* mark_consumed(consumed_ids)
DigestConsume(k) ==
  /\ dig[k].pc = "consume"
  /\ consumed' = consumed \cup ConsumedIds(k)
  /\ dig' = [dig EXCEPT ![k] = Asleep]
  /\ UNCHANGED <<status, proc, digestOf, addedAt, pushLog,
                 job, chats, faults, crashes>>

\* A lookup, the dispatch or mark_consumed raises: the rows stay as they are.
DigestRaises(k) ==
  /\ "digest" \in FailPoints /\ faults < MaxFaults
  /\ dig[k].pc # "idle"
  /\ faults' = faults + 1
  /\ dig' = [dig EXCEPT ![k] = Asleep]
  /\ UNCHANGED <<tables, job, chats, crashes>>

\* The process dies (or SIGTERM cancels its jobs) and is restarted: the
\* tables stay, the coroutines are gone.
Crash ==
  /\ crashes < MaxCrashes
  /\ crashes' = crashes + 1
  /\ JobEnds
  /\ dig' = [k \in Keys |-> Asleep]
  /\ UNCHANGED <<tables, chats, faults>>

-----------------------------------------------------------------------------

JobStep ==
  \/ ListPending
  \/ \E o \in Rejections : Reject(o)
  \/ \E crit \in BOOLEAN : Score(crit)
  \/ Insert \/ InsertCollides
  \/ pc = "mark" /\ \E target \in Targets(Cur) : Mark(target)
  \/ \E m \in Markets : Suppress(m)
  \/ \E m \in Markets : \E ok \in SUBSET Channels[m] : Dispatch(m, ok)
  \/ \E a \in answers : WriteLog(a)
  \/ \E p \in Periods : Enqueue(p)

DigestStep(k) ==
  \/ DigestList(k) \/ DigestConsume(k)
  \/ \E ok \in SUBSET Channels[k[2]] : DigestDispatch(k, ok)

Next ==
  \/ \E r \in Raws : Ingest(r)
  \/ EmptyTick \/ JobStep \/ JobRaises
  \/ \E k \in Keys : EmptyDigest(k) \/ DigestStep(k) \/ DigestRaises(k)
  \/ Crash

Spec == Init /\ [][Next]_vars

\* The scheduler fires every job again and again, and a coroutine that can
\* run is run: no job step waits for ever.
Fairness == WF_vars(JobStep) /\ \A k \in Keys : WF_vars(DigestStep(k))
FairSpec == Spec /\ Fairness

-----------------------------------------------------------------------------
(* Properties *)

Announced(r) == r \in Buffered \/ \E m \in Markets : pushed[r][m] > 0

\* Every variable has its type.
TypeOK ==
  /\ status \in [Raws -> Statuses]
  /\ proc \subseteq Raws /\ consumed \subseteq Raws
  /\ digestOf \in [Raws -> Keys \cup {None}]
  /\ addedAt \in [Raws -> Nat]
  /\ pushLog \subseteq Raws \X AllChannels \X BOOLEAN
  /\ pc \in JobPCs /\ todo \subseteq Raws /\ critical \in BOOLEAN
  /\ plans \subseteq Markets /\ answers \subseteq AllChannels \X BOOLEAN
  /\ dig \in [Keys -> [pc : {"idle", "dispatch", "consume"},
                       ids : SUBSET Raws, items : SUBSET Raws]]
  /\ pushed \in [Raws -> [Markets -> Nat]]
  /\ digested \in [Raws -> Nat] /\ refused \in [Raws -> Nat]
  /\ faults \in Nat /\ crashes \in Nat

\* An article is announced along one path: a row of digest_buffer is never
\* also an immediate message, whatever markets and crashes came between.
OnePath == \A r \in Buffered : \A m \in Markets : pushed[r][m] = 0

\* However often the job is interrupted and run again, the channels of a
\* market get an article at once at most once.
AtMostOncePush == \A r \in Raws, m \in Markets : pushed[r][m] <= 1

\* What the readers were shown (or will be, in a digest) is what raw_news
\* calls processed: no dropped or retried row was ever announced.
AnnouncedIsProcessed ==
  \A r \in Raws : Announced(r) => status[r] = "processed" /\ r \in proc

\* A news_processed row without a "processed" raw row (on which the job
\* will stumble) is the trace of one interruption each.
Orphans == {r \in proc : status[r] # "processed" /\ ~(pc = "mark" /\ r = Cur)}
OrphansNeedInterruption == Cardinality(Orphans) <= faults + crashes

\* A row is listed in a second digest only after an exception or a restart,
\* in one more for each.
DigestRepeatsNeedInterruption ==
  \A r \in Raws : digested[r] <= 1 + faults + crashes

\* A digest row is retired unseen only by the cap on one message, because the
\* article's market has no channel (it was routed by the channels of another),
\* or because every channel refused its message, for which nobody tries again:
\* the rows that arrive while a digest is being sent stay.
Ahead(r) == {x \in Raws : digestOf[x] = digestOf[r] /\ addedAt[x] < addedAt[r]}
Seen(r) == digested[r] > refused[r]
OnlyOverflowIsLost ==
  \A r \in consumed : ~Seen(r) =>
    \/ Cardinality(Ahead(r)) >= DigestCap
    \/ Channels[MarketOf[r]] = {}
    \/ refused[r] > 0

\* Without interruptions push_log has a row for every channel of every
\* immediate message once the job is at rest, and in any case for no other:
\* the failure alert counts on it.
LogMatchesPushes ==
  /\ \A row \in pushLog : \E m \in Markets :
       row[2] \in Channels[m] /\ pushed[row[1]][m] > 0
  /\ pc = "idle" /\ faults + crashes = 0 =>
       \A r \in Raws, m \in Markets : pushed[r][m] > 0 =>
         \A c \in Channels[m] : \E ok \in BOOLEAN : <<r, c, ok>> \in pushLog

\* A row that has left "pending" never changes its status again.
StatusFinal ==
  [][\A r \in Raws : status[r] \notin {"absent", "pending"}
                        => status'[r] = status[r]]_vars

\* How far an article has come, as NewsLifecycle tells it.
StageOf(r) ==
  IF r \in consumed THEN "digested"
  ELSE IF r \in Buffered THEN "queued"
  ELSE IF \E m \in Markets : pushed[r][m] > 0 THEN "pushed"
  ELSE IF r \in proc THEN "accepted"
  ELSE IF status[r] \in {"absent", "pending"} THEN status[r]
  ELSE "rejected"

Lifecycle == INSTANCE NewsLifecycle WITH stage <- [r \in Raws |-> StageOf(r)]

\* Whatever the jobs and the crashes do, an article moves through the stages
\* of NewsLifecycle: no step of the pipeline takes one back or across.
ImplementsLifecycle == Lifecycle!Spec

\* Under the scheduler's fairness no article waits in raw_news for ever.
PendingDrains == \A r \in Raws : status[r] = "pending" ~> status[r] # "pending"

\* Under the scheduler's fairness every digest row is retired.
BufferDrains == \A r \in Raws : r \in Buffered ~> r \in consumed

\* The design's "consumed atomically, so that no push is missed": every
\* digest row that is retired was sent in a digest.
NoDigestRowLost == \A r \in consumed : digested[r] > 0

-----------------------------------------------------------------------------
(* The inductive invariant behind the safety properties *)

\* A row that is not "processed" was never announced, one that is has its
\* news_processed row, and no row is announced twice or on two paths.
TablesInv ==
  /\ \A r \in Raws : status[r] # "processed" => ~Announced(r)
  /\ \A r \in Raws : status[r] = "processed" => r \in proc
  /\ \A r \in proc : status[r] # "absent"
  /\ OnePath
  /\ AtMostOncePush
  /\ consumed \subseteq Buffered

\* The batch is never stale: its rows stay "pending" until the job comes to
\* them, and the job knows what it has already done for the current one.
JobInv ==
  /\ pc = "idle" <=> todo = {}
  /\ \A r \in todo : r # Cur \/ pc \in {"next", "insert", "mark"}
                        => status[r] = "pending"
  /\ pc \in {"mark", "route", "log"} => Cur \in proc
  /\ pc \in {"route", "log"} =>
       /\ status[Cur] = "processed" /\ Cur \notin Buffered
       /\ \A m \in plans : pushed[Cur][m] = 0
       /\ critical \/ \A m \in Markets : pushed[Cur][m] = 0
  /\ pc = "log" => critical

\* A digest holds rows of the buffer only.
DigestInv == \A k \in Keys : dig[k].items \subseteq dig[k].ids /\ dig[k].ids \subseteq Buffered

IInv == TypeOK /\ TablesInv /\ JobInv /\ DigestInv

\* A digest holds rows of its own key; those it will not show are over the
\* cap, and the others are shown before they are retired.
Held(k) ==
  /\ \A r \in dig[k].ids : digestOf[r] = k
  /\ \A r \in dig[k].ids \ dig[k].items : Cardinality(Ahead(r)) >= DigestCap
  /\ dig[k].pc = "dispatch" =>
       \A r \in dig[k].items : digested[r] <= faults + crashes
  /\ dig[k].pc = "consume" /\ Channels[k[2]] # {} =>
       \A r \in dig[k].items : digested[r] > 0
  /\ dig[k].pc = "idle" => dig[k].ids = {}

\* What is retired without having been sent at all.
UnsentIsExplained ==
  \A r \in consumed : digested[r] = 0 =>
    Cardinality(Ahead(r)) >= DigestCap \/ Channels[MarketOf[r]] = {}

\* A row shown once more than the interruptions explain is about to be
\* retired or is retired.
DigestRowsInv ==
  /\ \A r \in Buffered : digestOf[r][2] = MarketOf[r]
  /\ \A k \in Keys : Held(k)
  /\ \A r \in Raws : digested[r] > faults + crashes =>
       r \in consumed \/ \E k \in Keys : dig[k].pc = "consume" /\ r \in dig[k].ids
  /\ UnsentIsExplained
  /\ DigestRepeatsNeedInterruption
=============================================================================
