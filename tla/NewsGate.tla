------------------------------ MODULE NewsGate ------------------------------
(***************************************************************************)
(* How process_pending decides the fate of one article after another: the  *)
(* rules gate, the daily cost ceiling with its two Bark alerts, the model  *)
(* calls of the tiers, the classifier and the importance judge.            *)
(*                                                                         *)
(* One coroutine does all of it, article by article; around it the clock   *)
(* moves on, past midnight too, and the process may die: totals, warnings  *)
(* and alert throttles live in memory only.  Money is counted in coarse    *)
(* units, time in ticks of which DayLength make a UTC day.  What happens   *)
(* to the rows is the subject of NewsPipeline.                             *)
(***************************************************************************)
EXTENDS NewsVerdict, FiniteSetsExt

CONSTANTS
  Watchlists,      \* contents watchlist.yml may have
  Articles,        \* records [source, title, body]
  Answers,         \* what a model may extract: [event, sentiment, magnitude]
  Ceiling,         \* daily_cost_ceiling_cny
  CallCosts,       \* what a priced call may cost
  PricedModels,    \* the keys of PRICING
  Tier2Model, CheapModel,  \* tier2_model, and the model of every other call
  ClaudeModels,    \* the models whose name starts with claude-
  HasAnthropic,    \* is_anthropic_configured
  HasBark,         \* a bark_url is configured
  Throttle,        \* throttle_seconds of the BarkAlerter
  DayLength,
  MaxClock,        \* bound on time
  MaxCrashes,
  None

ASSUME GateConstantsOK ==
  /\ Ceiling \in Nat \ {0} /\ CallCosts \subseteq Nat
  /\ \E dearest \in CallCosts : \A c \in CallCosts : c <= dearest
  /\ Throttle \in Nat /\ DayLength \in Nat \ {0}
  /\ MaxClock \in Nat /\ MaxCrashes \in Nat
  /\ HasAnthropic \in BOOLEAN /\ HasBark \in BOOLEAN
  /\ None \notin Watchlists

\* The file and the articles hold texts.
ASSUME TextsOK ==
  /\ \A w \in Watchlists : \A m \in WatchMarkets :
       /\ w.sectors[m] \cup w.macros[m] \subseteq Texts
       /\ \A e \in w.entries[m] :
            {e.ticker} \cup e.names \cup e.sectors \cup e.macros \subseteq Texts
  /\ \A a \in Articles : a.title \in Texts /\ a.body \in Texts

VARIABLES
  clock,
  \* ---- the process
  list,          \* the watchlist in force, or None when the process is down
  total,         \* CostTracker._daily_total
  warned,        \* CostTracker._warned_today
  lastSent,      \* BarkAlerter._last_sent of the two alerts, or Never
  job,           \* process_pending: [pc, art, verdict]; of article and verdict,
                 \* an admitted article keeps what is still read
  \* ---- history
  last,          \* how the last article ended, until the next one is taken:
                 \* [fate, art, verdict], the latter two without a model only
  billed,        \* billed[d]: what the recorded calls of day d cost, all lives
  warnings,      \* warnings[d]: the llm_cost_warn sent on day d
  lives,         \* lives[d]: how many processes have run on day d
  crashes

memory  == <<list, total, warned, lastSent>>
history == <<last, billed, warnings, lives>>
vars    == <<clock, memory, job, history, crashes>>

Never == -1
Day(t) == t \div DayLength
Days == 0..Day(MaxClock)
Alerts == {"llm_cost_exceeded", "llm_cost_warn"}
Tiers == {"tier0", "tier1", "tier2"}
NoArticle == [source |-> None, title |-> <<>>, body |-> <<>>]
Untitled(a) == [NoArticle EXCEPT !.source = a.source]
Idle == [pc |-> "idle", art |-> NoArticle, verdict |-> NoVerdict]
Fated(fate) == [fate |-> fate, art |-> NoArticle, verdict |-> NoVerdict]
NoFate == Fated("none")

NoTotals == [d \in Days |-> 0]
NoAlerts == [a \in Alerts |-> Never]

Init ==
  /\ clock = 0 /\ list = None
  /\ total = NoTotals /\ warned = {} /\ lastSent = NoAlerts
  /\ job = Idle
  /\ last = NoFate
  /\ billed = NoTotals /\ warnings = NoTotals /\ lives = NoTotals
  /\ crashes = 0

-----------------------------------------------------------------------------
(* The world *)

Tick ==
  /\ clock < MaxClock
  /\ clock' = clock + 1
  /\ lives' = IF list # None /\ Day(clock + 1) # Day(clock)
              THEN [lives EXCEPT ![Day(clock + 1)] = @ + 1] ELSE lives
  /\ UNCHANGED <<memory, job, last, billed, warnings, crashes>>

\* ConfigLoader.load: the process starts only with a watchlist that validates.
Boot(w) ==
  /\ list = None /\ Valid(w)
  /\ list' = w
  /\ lives' = [lives EXCEPT ![Day(clock)] = @ + 1]
  /\ UNCHANGED <<clock, total, warned, lastSent, job, last, billed, warnings,
                 crashes>>

Crash ==
  /\ list # None /\ crashes < MaxCrashes
  /\ crashes' = crashes + 1
  /\ list' = None /\ total' = NoTotals /\ warned' = {} /\ lastSent' = NoAlerts
  /\ job' = Idle /\ last' = NoFate
  /\ UNCHANGED <<clock, billed, warnings, lives>>

-----------------------------------------------------------------------------
(* One article *)

Finish(fate) == last' = Fated(fate) /\ job' = Idle

\* What the rules say of each article (none, unless they are enabled).
VerdictOf ==
  [w \in Watchlists |->
     [a \in Articles |-> IF w.rules THEN Match(w, a) ELSE NoVerdict]]

\* The rules gate, and with rules alone the score as well.
Take(a) ==
  LET v == VerdictOf[list][a]
      score == Score(SynthEnriched, a.source, v.boost)
      zone == Zone(score)
  IN /\ list # None /\ job.pc = "idle"
     /\ IF list.rules /\ ~v.matched
        THEN last' = [fate |-> "skipped_rules", art |-> a, verdict |-> v] /\ job' = Idle
        ELSE IF list.llm
        THEN last' = NoFate /\ job' = [pc |-> "check", art |-> a, verdict |-> v]
        ELSE /\ last' = [fate |-> IF zone = "gray" THEN GrayFate(list.action) ELSE zone,
                         art |-> a, verdict |-> v]
             /\ job' = Idle
     /\ UNCHANGED <<clock, memory, billed, warnings, lives, crashes>>

\* BarkAlerter.send: the throttle is armed before the request, which may fail.
Sends(alert) ==
  HasBark /\ (lastSent[alert] = Never \/ clock - lastSent[alert] >= Throttle)
Alerted(alert) ==
  lastSent' = IF Sends(alert) THEN [lastSent EXCEPT ![alert] = clock] ELSE lastSent

TodayCost == total[Day(clock)]
OverCeilingStrict == TodayCost > Ceiling
OverCeiling == TodayCost >= Ceiling
WarnAgain == 10 * TodayCost >= 8 * Ceiling
WarnDue == 10 * TodayCost >= 8 * Ceiling /\ Day(clock) \notin warned

\* process_with_rules, or process: the rules stand in for tier 0.
FirstTier ==
  IF ~job.verdict.matched THEN "tier0"
  ELSE IF job.verdict.tickers # {} \/ job.art.source \in FirstParty THEN "tier2"
  ELSE "tier1"

\* check_async: over the ceiling the article is refused, and marked dead.
Refuse ==
  /\ job.pc = "check" /\ OverCeiling
  /\ Alerted("llm_cost_exceeded")
  /\ Finish("dead")
  /\ UNCHANGED <<clock, list, total, warned, billed, warnings, lives, crashes>>

Admit ==
  /\ job.pc = "check" /\ ~OverCeiling
  /\ IF WarnDue
     THEN /\ warned' = warned \cup {Day(clock)} /\ Alerted("llm_cost_warn")
          /\ warnings' = IF Sends("llm_cost_warn")
                         THEN [warnings EXCEPT ![Day(clock)] = @ + 1] ELSE warnings
     ELSE UNCHANGED <<warned, lastSent, warnings>>
  /\ job' = [pc |-> FirstTier, art |-> Untitled(job.art),
             verdict |-> [NoVerdict EXCEPT !.boost = job.verdict.boost]]
  /\ UNCHANGED <<clock, list, total, last, billed, lives, crashes>>

\* pick_client_and_model, and the models of the prompts.
ModelOf(tier) ==
  IF tier # "tier2" THEN CheapModel
  ELSE IF Tier2Model \in ClaudeModels /\ ~HasAnthropic THEN CheapModel
  ELSE Tier2Model

\* record: on the day the answer came, unless the model has no price.
Record(tier, cost) ==
  IF ModelOf(tier) \in PricedModels
  THEN /\ total' = [total EXCEPT ![Day(clock)] = @ + cost]
       /\ billed' = [billed EXCEPT ![Day(clock)] = @ + cost]
  ELSE UNCHANGED <<total, billed>>

\* The request fails: no answer, no record.
CallFails ==
  /\ job.pc \in Tiers
  /\ Finish("dead")
  /\ UNCHANGED <<clock, memory, billed, warnings, lives, crashes>>

\* An answer without usable JSON has been paid for.
CallUseless(cost) ==
  /\ job.pc \in Tiers
  /\ Record(job.pc, cost)
  /\ Finish("dead")
  /\ UNCHANGED <<clock, list, warned, lastSent, warnings, lives, crashes>>

\* LLMRouter.decide
Decide(source, relevant, deep) ==
  IF source \in FirstParty THEN "tier2"
  ELSE IF ~relevant THEN "skip"
  ELSE IF deep THEN "tier2" ELSE "tier1"

Classify(relevant, deep, cost) ==
  LET tier == Decide(job.art.source, relevant, deep)
  IN /\ job.pc = "tier0"
     /\ Record("tier0", cost)
     /\ IF tier = "skip"
        THEN Finish("skipped")
        ELSE /\ job' = [pc |-> tier, art |-> job.art, verdict |-> job.verdict]
             /\ UNCHANGED last
     /\ UNCHANGED <<clock, list, warned, lastSent, warnings, lives, crashes>>

\* Tier 1 or 2 answers; the score follows at once, unless the judge is asked.
Extract(answer, cost) ==
  LET score == Score(Coerce(answer), job.art.source, job.verdict.boost)
      zone == Zone(score)
  IN /\ job.pc \in {"tier1", "tier2"}
     /\ Record(job.pc, cost)
     /\ IF zone = "gray"
        THEN job' = [Idle EXCEPT !.pc = "judge"] /\ UNCHANGED last
        ELSE Finish(zone)
     /\ UNCHANGED <<clock, list, warned, lastSent, warnings, lives, crashes>>

\* LLMJudge.judge: neither checked nor recorded.
Judge(critical) ==
  /\ job.pc = "judge"
  /\ Finish(IF critical THEN "critical" ELSE "low")
  /\ UNCHANGED <<clock, memory, billed, warnings, lives, crashes>>

\* The judge's request or its answer fails outside the try: the round is
\* aborted, and the article stays pending.
JudgeFails ==
  /\ job.pc = "judge"
  /\ Finish("pending")
  /\ UNCHANGED <<clock, memory, billed, warnings, lives, crashes>>

-----------------------------------------------------------------------------

Answered ==
  \/ \E c \in CallCosts :
       \/ CallUseless(c)
       \/ \E relevant, deep \in BOOLEAN : Classify(relevant, deep, c)
       \/ \E ans \in Answers : Extract(ans, c)
  \/ \E critical \in BOOLEAN : Judge(critical)

Step == Refuse \/ Admit \/ CallFails \/ JudgeFails \/ Answered

Next ==
  \/ Tick \/ Crash
  \/ \E w \in Watchlists : Boot(w)
  \/ \E a \in Articles : Take(a)
  \/ Step

Spec == Init /\ [][Next]_vars

-----------------------------------------------------------------------------
(* Properties *)

Verdicts ==
  [matched : BOOLEAN, tickers : SUBSET UNION {{e.ticker : e \in Entries(w)} : w \in Watchlists},
   related : SUBSET UNION {{e.ticker : e \in Entries(w)} : w \in Watchlists},
   sectors : SUBSET {p.text : p \in UNION {Patterns(w) : w \in Watchlists}},
   macros : SUBSET {p.text : p \in UNION {Patterns(w) : w \in Watchlists}},
   generic : SUBSET {p.text : p \in UNION {Patterns(w) : w \in Watchlists}},
   markets : SUBSET WatchMarkets, boost : 0..100]

Fates == {"none", "skipped_rules", "skipped", "dead", "dropped", "pending",
          "critical", "low"}

\* Every variable has its type.
TypeOK ==
  /\ clock \in 0..MaxClock /\ crashes \in Nat
  /\ list \in Watchlists \cup {None}
  /\ total \in [Days -> Nat] /\ warned \subseteq Days
  /\ lastSent \in [Alerts -> 0..MaxClock \cup {Never}]
  /\ job \in [pc : {"idle", "check", "judge"} \cup Tiers,
              art : Articles \cup {NoArticle} \cup {Untitled(a) : a \in Articles},
              verdict : Verdicts]
  /\ last \in [fate : Fates, art : Articles \cup {NoArticle}, verdict : Verdicts]
  /\ billed \in [Days -> Nat] /\ warnings \in [Days -> Nat] /\ lives \in [Days -> Nat]

MaxCost == Max(CallCosts)

\* One check admits the two calls of an article, and the totals are in memory:
\* each process that runs on a day may spend the ceiling and the price of that
\* last article again, midnight or not, and no more than that.
EachLifeOneCeiling ==
  \A d \in Days : billed[d] <= lives[d] * (Ceiling - 1 + 2 * MaxCost)

\* The warning is due before a day is more than one article past 80 %, and goes
\* out once on that day as long as the process lives.
WarnedInTime ==
  \A d \in Days :
    /\ 10 * (total[d] - 2 * MaxCost) >= 8 * Ceiling => d \in warned
    /\ warnings[d] <= lives[d]

\* The article whose text is at hand, and its verdict.
Seen == IF job.pc = "check" THEN job.art ELSE last.art
SeenVerdict == IF job.pc = "check" THEN job.verdict ELSE last.verdict

\* Every ticker a verdict names, be it through a sector or macro keyword of
\* either market, is watched in a market the article will be routed to.
NamedInMarkets ==
  \A t \in SeenVerdict.tickers \cup SeenVerdict.related :
    \E m \in SeenVerdict.markets : \E e \in list.entries[m] : e.ticker = t

\* Two adjacent letters or digits of a text, only one of them in i..j.
Torn(text, i, j) ==
  \E k \in 1..Len(text) - 1 :
    {text[k], text[k + 1]} \subseteq WordChars /\ (k \in i..j) # (k + 1 \in i..j)

\* How a reader finds a name: an English one in whole words, a Chinese one
\* anywhere.
Mentions(text, name) ==
  \E i \in DOMAIN text : \E j \in i..Len(text) :
    /\ SubSeq(Lower(text), i, j) = Lower(name)
    /\ IsAscii(name) => ~Torn(Lower(text), i, j)

\* The matcher finds the tickers whose code or name a reader would find.
FindsWhatIsMentioned ==
  Seen # NoArticle /\ Seen.title # <<>> /\ list # None /\ list.rules =>
    SeenVerdict.tickers =
      {e.ticker : e \in {f \in Entries(list) :
         \E n \in {f.ticker} \cup f.names : Mentions(ArticleText(Seen), n)}}

\* With rules alone: a direct hit is never filed as unimportant, and is urgent
\* when its sector is named too or its source is a first party; keywords alone
\* are never urgent.
RulesOnlyFate ==
  last.art # NoArticle /\ last.fate # "skipped_rules" =>
    LET v == last.verdict
        first == last.art.source \in AlwaysCritical
    IN /\ v.tickers # {} /\ (v.sectors # {} \/ first) => last.fate = "critical"
       /\ v.tickers # {} => last.fate \in {"critical", GrayFate(list.action)}
       /\ v.tickers = {} /\ ~first => last.fate = "low"

-----------------------------------------------------------------------------
(* What three of them suppose of the files, beyond what the validators ask *)

\* No character outside ASCII has an ASCII lower case.
CaseKeepsAscii == \A c \in DOMAIN LowerCase : LowerCase[c] \in Ascii <=> c \in Ascii

\* The codes and names in English letters begin and end with a letter or digit.
PlainNames ==
  \A w \in Watchlists : \A e \in Entries(w) : \A n \in {e.ticker} \cup e.names :
    IsAscii(n) /\ n # <<>> => {LowerCase[n[1]], LowerCase[n[Len(n)]]} \subseteq WordChars

\* The gray zone of the configuration as shipped is 40 to 70: one direct hit
\* reaches it, a hit with its sector passes it, keywords do not reach it.
GrayBetween == GrayLow \in 36..50 /\ GrayHigh \in GrayLow..70
=============================================================================
