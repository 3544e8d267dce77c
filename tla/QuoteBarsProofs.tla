--------------------------- MODULE QuoteBarsProofs ---------------------------
(***************************************************************************)
(* Theorems about QuoteBars: what the table of daily bars holds, for any   *)
(* calendar, tickers, prices, failures and restarts; the truth of the      *)
(* crossings reported from it, for any two averages; the limits; and the   *)
(* lists of a scan, for any rows.                                          *)
(***************************************************************************)
EXTENDS QuoteBars, QuoteMathProofs, SequenceTheorems

-----------------------------------------------------------------------------
(* The inductive invariant *)

Trading == {"morning", "noon_break", "afternoon"}

MarketInv ==
  /\ today \in Nat /\ bootDay \in Nat /\ bootDay <= today
  /\ session \in Trading \cup {"pre", "post", "closed"}
  /\ closes = [t \in Tickers |-> closes[t]] /\ table = [t \in Tickers |-> table[t]]
  /\ loaded \in [Tickers -> Int]

\* The market has closed on days up to today, on today only when it is over;
\* the table knows those days, and today while it is traded.
DaysInv(t) ==
  /\ \A d \in DOMAIN closes[t] :
       d \in Nat /\ d <= today /\ (d = today => session = "post")
  /\ \A d \in DOMAIN table[t] :
       d \in DOMAIN closes[t] \/ (d = today /\ session \in Trading)
  /\ loaded[t] <= today

\* The bar of a past day is its close, unless it has not been loaded again since
\* the day was over or the closes were adjusted.
BarsInv(t) ==
  \A d \in DOMAIN table[t] :
    \/ d \in DOMAIN closes[t] /\ table[t][d] = closes[t][d]
    \/ loaded[t] = d
    \/ d < loaded[t] - 2 * BarDays
    \/ loaded[t] < exDay[t]

\* What akshare answered, while it is being stored.
AnswerInv(t) ==
  proc.pc = "upsert" /\ t = (CHOOSE x \in proc.todo : TRUE) =>
    /\ \A d \in DOMAIN proc.answer :
         \/ d \in DOMAIN closes[t] /\ proc.answer[d] = closes[t][d]
         \/ d = today /\ (session \in Trading \/ d \in DOMAIN closes[t])
    /\ DOMAIN proc.answer # {} => \A d \in DOMAIN closes[t] :
         d < today /\ d >= today - 2 * BarDays => d \in DOMAIN proc.answer

ProcInv ==
  /\ proc.pc \in {"down", "load", "upsert", "run", "quotes", "eval"}
  /\ proc.todo \subseteq Tickers
  /\ proc.pc \notin {"load", "upsert"} => proc.todo = {}
  /\ proc.pc = "upsert" => proc.todo # {}
  /\ proc.pc = "load" /\ Tickers # {} => proc.todo # {}

\* The table of t reaches back from the start of the process as far as the
\* warm-up asks for, or is full.
Reaches(t) ==
  \/ \A d \in DaysBefore(t, bootDay) : d >= today - 2 * BarDays => d \in DOMAIN table[t]
  \/ Cardinality(DOMAIN table[t]) >= BarDays

LoadInv(t) == proc.pc # "down" /\ t \notin missed /\ t \notin proc.todo => Reaches(t)

IInv ==
  /\ MarketInv /\ ProcInv
  /\ \A t \in Tickers : DaysInv(t) /\ BarsInv(t) /\ AnswerInv(t) /\ LoadInv(t)

-----------------------------------------------------------------------------
(* Lemmas *)

\* The bars of a ticker are finitely many.
LEMMA FiniteBars ==
  ASSUME today \in Nat, NEW t \in Tickers, DaysInv(t)
  PROVE  IsFiniteSet(DOMAIN table[t]) /\ DOMAIN table[t] \subseteq 0..today
<1>1. DOMAIN table[t] \subseteq 0..today
  BY DEF DaysInv
<1>2. IsFiniteSet(0..today)
  BY FS_Interval
<1> QED
  BY <1>1, <1>2, FS_Subset

\* More days, not fewer.
LEMMA MoreDays ==
  ASSUME NEW S, NEW T, IsFiniteSet(T), S \subseteq T
  PROVE  Cardinality(S) \in Nat /\ Cardinality(T) \in Nat
         /\ Cardinality(S) <= Cardinality(T)
BY FS_Subset, FS_CardinalityType

\* The sessions come in their order.
LEMMA SessionFacts ==
  /\ session = "pre" => Sessions[NextIndex] = "morning"
  /\ session = "morning" => Sessions[NextIndex] = "noon_break"
  /\ session = "noon_break" => Sessions[NextIndex] = "afternoon"
  /\ session = "afternoon" => Sessions[NextIndex] = "post"
<1>1. /\ DOMAIN Sessions = 1..5
      /\ Sessions[1] = "pre" /\ Sessions[2] = "morning" /\ Sessions[3] = "noon_break"
      /\ Sessions[4] = "afternoon" /\ Sessions[5] = "post"
  BY DEF Sessions
<1>2. DOMAIN Sessions = {1, 2, 3, 4, 5}
  BY <1>1
<1> DEFINE i == CHOOSE k \in DOMAIN Sessions : Sessions[k] = session
<1>3. CASE session = "pre"
  <2>1. i = 1
    BY <1>1, <1>2, <1>3
  <2> QED
    BY <1>1, <1>3, <2>1 DEF NextIndex
<1>4. CASE session = "morning"
  <2>1. i = 2
    BY <1>1, <1>2, <1>4
  <2> QED
    BY <1>1, <1>4, <2>1 DEF NextIndex
<1>5. CASE session = "noon_break"
  <2>1. i = 3
    BY <1>1, <1>2, <1>5
  <2> QED
    BY <1>1, <1>5, <2>1 DEF NextIndex
<1>6. CASE session = "afternoon"
  <2>1. i = 4
    BY <1>1, <1>2, <1>6
  <2> QED
    BY <1>1, <1>6, <2>1 DEF NextIndex
<1> QED
  BY <1>3, <1>4, <1>5, <1>6

LEMMA Constants ==
  ASSUME BarsConstantsOK
  PROVE  /\ FirstDay \in Nat /\ BarDays \in Nat /\ BarDays >= 1 /\ TradingDays \subseteq Nat
         /\ 2 * BarDays \in Nat
BY DEF BarsConstantsOK

-----------------------------------------------------------------------------
(* The steps *)

LEMMA InitIInv ==
  ASSUME BarsConstantsOK, Init
  PROVE  IInv
<1>1. /\ today = FirstDay /\ bootDay = FirstDay /\ FirstDay \in Nat
      /\ session \in {"pre", "closed"}
      /\ table = [t \in Tickers |-> <<>>] /\ loaded = [t \in Tickers |-> Never]
      /\ proc = Down
      /\ closes \in [Tickers -> UNION {Histories(t) : t \in Tickers}]
      /\ \A t \in Tickers : closes[t] \in Histories(t)
  BY Constants DEF Init, SessionAt, Sessions
<1>2. MarketInv
  BY <1>1 DEF MarketInv, Never, Trading
<1>3. ProcInv
  BY <1>1 DEF ProcInv, Down, Proc
<1>4. ASSUME NEW t \in Tickers PROVE DaysInv(t) /\ BarsInv(t) /\ AnswerInv(t) /\ LoadInv(t)
  <2>1. DOMAIN table[t] = {} /\ loaded[t] = Never /\ proc.pc = "down"
    BY <1>1 DEF Down, Proc
  <2>2. PICK first \in Listed[t] :
          closes[t] \in [(TradingDays \cap first..FirstDay - 1) -> Prices[t]]
    BY <1>1 DEF Histories
  <2>3. \A d \in DOMAIN closes[t] : d \in Nat /\ d < today
    <3>1. first \in Nat
      BY DEF BarsConstantsOK
    <3> QED
      BY <1>1, <2>2, <3>1
  <2>4. DaysInv(t)
    BY <1>1, <2>1, <2>3 DEF DaysInv, Never
  <2> QED
    BY <2>1, <2>4 DEF BarsInv, AnswerInv, LoadInv
<1> QED
  BY <1>2, <1>3, <1>4 DEF IInv

\* Nobody but the market changes, and it only trades.
LEMMA FrameStep ==
  ASSUME IInv, UNCHANGED <<today, session, closes, exDay, table, loaded, bootDay, proc, missed>>
  PROVE  IInv'
BY DEF IInv, MarketInv, ProcInv, DaysInv, BarsInv, AnswerInv, LoadInv, Reaches, DaysBefore

LEMMA SessionStep ==
  ASSUME BarsConstantsOK, IInv, NextSession
  PROVE  IInv'
<1>1. /\ session \notin {"post", "closed"} /\ session' = Sessions[NextIndex]
      /\ closes' = IF session = "afternoon"
                   THEN [t \in Tickers |-> Over(Today(t), closes[t])] ELSE closes
      /\ UNCHANGED <<today, exDay, table, loaded, bootDay, proc, missed>>
  BY DEF NextSession, history
<1>2. /\ session' \in Trading \cup {"post"}
      /\ session' = "post" <=> session = "afternoon"
      /\ today \in Nat /\ bootDay \in Nat /\ bootDay <= today
  BY <1>1, SessionFacts DEF IInv, MarketInv, Trading
<1>3. MarketInv'
  <2>1. closes' = [t \in Tickers |-> closes'[t]]
    BY <1>1 DEF IInv, MarketInv
  <2> QED
    BY <1>1, <1>2, <2>1 DEF IInv, MarketInv
<1>4. ProcInv'
  BY <1>1 DEF IInv, ProcInv
<1>5. ASSUME NEW t \in Tickers
      PROVE  DaysInv(t)' /\ BarsInv(t)' /\ AnswerInv(t)' /\ LoadInv(t)'
  <2>1. DaysInv(t) /\ BarsInv(t) /\ AnswerInv(t) /\ LoadInv(t)
    BY DEF IInv
  <2>2. today \notin DOMAIN closes[t]
    BY <1>1, <2>1 DEF DaysInv
  <2>3. /\ DOMAIN closes[t] \subseteq DOMAIN closes'[t]
        /\ \A d \in DOMAIN closes'[t] :
             d \in DOMAIN closes[t] \/ (d = today /\ session = "afternoon")
        /\ \A d \in DOMAIN closes[t] : closes'[t][d] = closes[t][d]
        /\ session = "afternoon" => today \in DOMAIN closes'[t]
    <3>1. CASE session = "afternoon"
      <4>1. closes'[t] = Over(Today(t), closes[t])
        BY <1>1, <3>1
      <4>2. DOMAIN Today(t) = {today}
        BY DEF Today
      <4> DEFINE f == Today(t)
                 c == Over(f, closes[t])
      <4>3. /\ DOMAIN c = DOMAIN f \cup DOMAIN closes[t]
            /\ \A x \in DOMAIN closes[t] : x \notin DOMAIN f => c[x] = closes[t][x]
        <5> HIDE DEF f
        <5> QED
          BY DEF Over
      <4>4. closes'[t] = c
        BY <4>1
      <4> HIDE DEF f, c
      <4>5. DOMAIN c = {today} \cup DOMAIN closes[t]
        BY <4>2, <4>3 DEF f
      <4>6. \A d \in DOMAIN closes[t] : c[d] = closes[t][d]
        BY <2>2, <4>2, <4>3 DEF f
      <4> QED
        BY <3>1, <4>4, <4>5, <4>6
    <3>2. CASE session # "afternoon"
      BY <1>1, <3>2
    <3> QED
      BY <3>1, <3>2
  <2>4. DaysInv(t)'
    BY <1>1, <1>2, <2>1, <2>3 DEF DaysInv, Trading
  <2>5. BarsInv(t)'
    BY <1>1, <2>1, <2>3 DEF BarsInv
  <2>6. AnswerInv(t)'
    <3> SUFFICES ASSUME proc.pc = "upsert", t = (CHOOSE x \in proc.todo : TRUE)
                 PROVE  /\ \A d \in DOMAIN proc.answer :
                             \/ d \in DOMAIN closes'[t] /\ proc.answer[d] = closes'[t][d]
                             \/ d = today /\ (session' \in Trading \/ d \in DOMAIN closes'[t])
                        /\ DOMAIN proc.answer # {} => \A d \in DOMAIN closes'[t] :
                             d < today /\ d >= today - 2 * BarDays => d \in DOMAIN proc.answer
      BY <1>1 DEF AnswerInv
    <3>1. /\ \A d \in DOMAIN proc.answer :
               \/ d \in DOMAIN closes[t] /\ proc.answer[d] = closes[t][d]
               \/ d = today /\ (session \in Trading \/ d \in DOMAIN closes[t])
          /\ DOMAIN proc.answer # {} => \A d \in DOMAIN closes[t] :
               d < today /\ d >= today - 2 * BarDays => d \in DOMAIN proc.answer
      BY <2>1 DEF AnswerInv
    <3>2. session' \in Trading \/ today \in DOMAIN closes'[t]
      BY <1>2, <2>3
    <3>3. ASSUME NEW d \in DOMAIN closes'[t], d < today PROVE d \in DOMAIN closes[t]
      BY <1>2, <2>3, <3>3
    <3> QED
      BY <2>3, <3>1, <3>2, <3>3
  <2>7. LoadInv(t)'
    BY <1>1, <1>2, <2>1, <2>3 DEF LoadInv, Reaches, DaysBefore
  <2> QED
    BY <2>4, <2>5, <2>6, <2>7
<1> QED
  BY <1>3, <1>4, <1>5 DEF IInv

LEMMA DayStep ==
  ASSUME BarsConstantsOK, IInv, NEW ex, NextDay(ex)
  PROVE  IInv'
<1>1. /\ session \in {"post", "closed"} /\ proc.pc # "upsert"
      /\ today' = today + 1 /\ session' \in {"pre", "closed"}
      /\ UNCHANGED <<table, loaded, bootDay, proc, missed>>
  BY DEF NextDay, history, SessionAt, Sessions
<1>2. today \in Nat /\ bootDay \in Nat /\ bootDay <= today /\ 2 * BarDays \in Nat
  BY Constants DEF IInv, MarketInv
<1>3. closes' = [t \in Tickers |-> closes'[t]]
  BY DEF NextDay
<1>4. ASSUME NEW t \in Tickers
      PROVE  /\ DOMAIN closes'[t] = DOMAIN closes[t]
             /\ \/ closes'[t] = closes[t] /\ exDay'[t] = exDay[t]
                \/ exDay'[t] = today + 1
  BY DEF NextDay
<1>5. MarketInv' /\ ProcInv'
  BY <1>1, <1>2, <1>3 DEF IInv, MarketInv, ProcInv
<1>6. ASSUME NEW t \in Tickers
      PROVE  DaysInv(t)' /\ BarsInv(t)' /\ AnswerInv(t)' /\ LoadInv(t)'
  <2>1. DaysInv(t) /\ BarsInv(t) /\ AnswerInv(t) /\ LoadInv(t) /\ loaded[t] \in Int
    BY DEF IInv, MarketInv
  <2>2. DaysInv(t)'
    BY <1>1, <1>2, <1>4, <2>1 DEF DaysInv, Trading
  <2>3. BarsInv(t)'
    <3>1. CASE closes'[t] = closes[t] /\ exDay'[t] = exDay[t]
      BY <1>1, <2>1, <3>1 DEF BarsInv
    <3>2. CASE exDay'[t] = today + 1
      <4>1. loaded'[t] < exDay'[t]
        BY <1>1, <1>2, <2>1, <3>2 DEF DaysInv
      <4> QED
        BY <4>1 DEF BarsInv
    <3> QED
      BY <1>4, <3>1, <3>2
  <2>4. AnswerInv(t)'
    BY <1>1 DEF AnswerInv
  <2>5. LoadInv(t)'
    <3>1. \A d \in DOMAIN closes[t] : d >= today' - 2 * BarDays => d >= today - 2 * BarDays
      BY <1>1, <1>2, <2>1 DEF DaysInv
    <3> QED
      BY <1>1, <1>4, <2>1, <3>1 DEF LoadInv, Reaches, DaysBefore
  <2> QED
    BY <2>2, <2>3, <2>4, <2>5
<1> QED
  BY <1>5, <1>6 DEF IInv

LEMMA BootStep ==
  ASSUME BarsConstantsOK, IInv, Boot
  PROVE  IInv'
<1>1. /\ proc' = Proc("load", Tickers, <<>>, 0) /\ bootDay' = today
      /\ UNCHANGED <<today, session, closes, exDay, table, loaded>>
  BY DEF Boot, market
<1>2. proc'.pc = "load" /\ proc'.todo = Tickers
  BY <1>1 DEF Proc
<1> QED
  BY <1>1, <1>2 DEF IInv, MarketInv, ProcInv, DaysInv, BarsInv, AnswerInv, LoadInv

\* The end of a process, or of a round, and the steps of a round.
LEMMA IdleStep ==
  ASSUME BarsConstantsOK, IInv,
         UNCHANGED <<today, session, closes, exDay, table, loaded, bootDay>>,
         missed \subseteq missed', proc'.pc \in {"down", "run", "quotes", "eval"},
         proc'.todo = {}, proc'.pc # "down" => proc.pc # "down" /\ proc.todo \subseteq missed'
  PROVE  IInv'
<1>1. MarketInv' /\ ProcInv'
  BY DEF IInv, MarketInv, ProcInv
<1>2. ASSUME NEW t \in Tickers
      PROVE  DaysInv(t)' /\ BarsInv(t)' /\ AnswerInv(t)' /\ LoadInv(t)'
  <2>1. DaysInv(t) /\ BarsInv(t) /\ LoadInv(t)
    BY DEF IInv
  <2>2. DaysInv(t)' /\ BarsInv(t)' /\ AnswerInv(t)'
    BY <2>1 DEF DaysInv, BarsInv, AnswerInv
  <2>3. LoadInv(t)'
    BY <2>1 DEF LoadInv, Reaches, DaysBefore
  <2> QED
    BY <2>2, <2>3
<1> QED
  BY <1>1, <1>2 DEF IInv

\* One ticker is done with; the others stay as they are.
LEMMA TickerDone ==
  ASSUME BarsConstantsOK, IInv, NEW s \in Tickers, proc.pc \in {"load", "upsert"},
         UNCHANGED <<today, session, closes, exDay, bootDay>>,
         proc' = AfterTicker(Left(s)), missed \subseteq missed', MarketInv',
         \A t \in Tickers : t # s => table'[t] = table[t] /\ loaded'[t] = loaded[t],
         DaysInv(s)', BarsInv(s)', s \notin missed' => Reaches(s)'
  PROVE  IInv'
<1>1. /\ proc'.pc \in {"load", "run"} /\ proc'.todo = proc.todo \ {s}
      /\ (proc'.pc = "load") <=> (proc'.todo # {})
  BY DEF AfterTicker, Left, Resting, Proc
<1>2. ProcInv'
  BY <1>1 DEF IInv, ProcInv
<1>3. ASSUME NEW t \in Tickers
      PROVE  DaysInv(t)' /\ BarsInv(t)' /\ AnswerInv(t)' /\ LoadInv(t)'
  <2>1. AnswerInv(t)'
    BY <1>1 DEF AnswerInv
  <2>2. CASE t = s
    BY <2>1, <2>2 DEF LoadInv
  <2>3. CASE t # s
    <3>1. DaysInv(t) /\ BarsInv(t) /\ LoadInv(t) /\ table'[t] = table[t] /\ loaded'[t] = loaded[t]
      BY <2>3 DEF IInv
    <3>2. DaysInv(t)' /\ BarsInv(t)'
      BY <3>1 DEF DaysInv, BarsInv
    <3>3. LoadInv(t)'
      BY <1>1, <2>3, <3>1 DEF LoadInv, Reaches, DaysBefore
    <3> QED
      BY <2>1, <3>2, <3>3
  <2> QED
    BY <2>2, <2>3
<1> QED
  BY <1>2, <1>3 DEF IInv

LEMMA CacheStep ==
  ASSUME BarsConstantsOK, IInv, NEW s \in Tickers, UseCache(s)
  PROVE  IInv'
<1>1. /\ proc.pc = "load" /\ IsCached(s) /\ proc' = AfterTicker(Left(s))
      /\ UNCHANGED <<today, session, closes, exDay, table, loaded, bootDay, missed>>
  BY DEF UseCache, Turn, market, history
<1>2. MarketInv' /\ DaysInv(s) /\ BarsInv(s) /\ today \in Nat
  BY <1>1 DEF IInv, MarketInv
<1>3. DaysInv(s)' /\ BarsInv(s)'
  BY <1>1, <1>2 DEF DaysInv, BarsInv
<1>4. Reaches(s)'
  <2>1. RecentDays(s, BarDays) \subseteq DOMAIN table[s]
    BY DEF RecentDays, LastDays
  <2>2. Cardinality(RecentDays(s, BarDays)) >= BarDays
    BY <1>1 DEF IsCached
  <2> HIDE DEF RecentDays
  <2>3. Cardinality(DOMAIN table[s]) >= BarDays
    BY <1>2, <2>1, <2>2, FiniteBars, MoreDays, Constants
  <2> QED
    BY <1>1, <2>3 DEF Reaches
<1> QED
  BY <1>1, <1>2, <1>3, <1>4, TickerDone

\* What akshare shows of s is the closes of the days asked for, and today's
\* last price.
LEMMA ShownFacts ==
  ASSUME NEW s
  PROVE  /\ \A d \in DOMAIN Shown(s) :
              \/ d \in DOMAIN closes[s] /\ Shown(s)[d] = closes[s][d]
              \/ d = today /\ (session \in Trading \/ d \in DOMAIN closes[s])
         /\ \A d \in DOMAIN closes[s] :
              d < today /\ d >= today - 2 * BarDays => d \in DOMAIN Shown(s)
<1> DEFINE past == {d \in DOMAIN closes[s] : d >= today - 2 * BarDays}
           f == [d \in past |-> closes[s][d]]
<1>1. Shown(s) = IF session \in Trading THEN Over(f, Today(s)) ELSE f
  BY DEF Shown, Trading
<1>2. DOMAIN f = past /\ \A d \in past : f[d] = closes[s][d]
  OBVIOUS
<1>3. DOMAIN Today(s) = {today}
  BY DEF Today
<1> HIDE DEF f
<1>4. /\ DOMAIN f \subseteq DOMAIN Shown(s)
      /\ \A d \in DOMAIN f : Shown(s)[d] = f[d]
      /\ \A d \in DOMAIN Shown(s) :
           d \in DOMAIN f \/ (d = today /\ session \in Trading)
  <2>1. CASE session \in Trading
    <3>1. /\ DOMAIN Over(f, Today(s)) = DOMAIN f \cup DOMAIN Today(s)
          /\ \A x \in DOMAIN f : Over(f, Today(s))[x] = f[x]
      BY DEF Over
    <3> QED
      BY <1>1, <1>3, <2>1, <3>1
  <2>2. CASE session \notin Trading
    BY <1>1, <2>2
  <2> QED
    BY <2>1, <2>2
<1> QED
  BY <1>2, <1>4 DEF past

\* An answer waits to be stored: the market's closes, or no bars.
LEMMA AnsweredStep ==
  ASSUME BarsConstantsOK, IInv, NEW s \in Tickers, NEW answer, Answered(s, answer),
         \/ answer = Shown(s)
         \/ DOMAIN answer = {}
  PROVE  IInv'
<1>1. /\ proc.pc = "load" /\ s = (CHOOSE x \in proc.todo : TRUE)
      /\ proc' = Proc("upsert", proc.todo, answer, 0)
      /\ UNCHANGED <<today, session, closes, exDay, table, loaded, bootDay, missed>>
  BY DEF Answered, Turn, market
<1>2. proc'.pc = "upsert" /\ proc'.todo = proc.todo /\ proc'.answer = answer
  BY <1>1 DEF Proc
<1>3. MarketInv' /\ ProcInv'
  BY <1>1, <1>2 DEF IInv, MarketInv, ProcInv
<1>4. ASSUME NEW t \in Tickers
      PROVE  DaysInv(t)' /\ BarsInv(t)' /\ AnswerInv(t)' /\ LoadInv(t)'
  <2>1. DaysInv(t) /\ BarsInv(t) /\ LoadInv(t)
    BY DEF IInv
  <2>2. DaysInv(t)' /\ BarsInv(t)'
    BY <1>1, <2>1 DEF DaysInv, BarsInv
  <2>3. LoadInv(t)'
    BY <1>1, <1>2, <2>1 DEF LoadInv, Reaches, DaysBefore
  <2>4. AnswerInv(t)'
    <3>1. t = (CHOOSE x \in proc'.todo : TRUE) => t = s
      BY <1>1, <1>2
    <3>2. CASE t # s
      BY <3>1, <3>2 DEF AnswerInv
    <3>3. CASE t = s /\ answer = Shown(s)
      <4>1. /\ \A d \in DOMAIN answer :
                 \/ d \in DOMAIN closes[t] /\ answer[d] = closes[t][d]
                 \/ d = today /\ (session \in Trading \/ d \in DOMAIN closes[t])
            /\ \A d \in DOMAIN closes[t] :
                 d < today /\ d >= today - 2 * BarDays => d \in DOMAIN answer
        BY <3>3, ShownFacts
      <4> QED
        BY <1>1, <1>2, <4>1 DEF AnswerInv
    <3>4. CASE DOMAIN answer = {}
      BY <1>1, <1>2, <3>4 DEF AnswerInv
    <3> QED
      BY <3>2, <3>3, <3>4
  <2> QED
    BY <2>2, <2>3, <2>4
<1> QED
  BY <1>3, <1>4 DEF IInv

LEMMA FetchStep ==
  ASSUME BarsConstantsOK, IInv, NEW s \in Tickers, Fetch(s) \/ FetchEmpty(s)
  PROVE  IInv'
<1>1. CASE Fetch(s)
  BY <1>1, AnsweredStep DEF Fetch
<1>2. CASE FetchEmpty(s)
  <2>1. DOMAIN <<>> = {}
    OBVIOUS
  <2> QED
    BY <1>2, <2>1, AnsweredStep DEF FetchEmpty
<1> QED
  BY <1>1, <1>2

\* A load repairs the days akshare was asked for; of no bars nothing is stored.
LEMMA UpsertStep ==
  ASSUME BarsConstantsOK, IInv, Upsert
  PROVE  IInv'
<1>0. PICK s \in Tickers : s = CHOOSE x \in proc.todo : TRUE
  BY DEF Upsert, IInv, ProcInv
<1>2. s \in Tickers
  OBVIOUS
<1> DEFINE f == Over(proc.answer, table[s])
           at == IF DOMAIN proc.answer # {} THEN today ELSE loaded[s]
<1>1. /\ proc.pc = "upsert" /\ proc' = AfterTicker(Left(s))
      /\ table' = [table EXCEPT ![s] = f]
      /\ \/ /\ DOMAIN proc.answer # {} /\ loaded' = [loaded EXCEPT ![s] = today]
            /\ UNCHANGED missed
         \/ /\ DOMAIN proc.answer = {} /\ missed' = missed \cup {s}
            /\ UNCHANGED loaded
      /\ UNCHANGED <<today, session, closes, exDay, bootDay>>
  BY <1>0 DEF Upsert, UpsertMany, market
<1>3. /\ DOMAIN f = DOMAIN proc.answer \cup DOMAIN table[s]
      /\ \A x \in DOMAIN proc.answer : f[x] = proc.answer[x]
      /\ \A x \in DOMAIN table[s] : x \notin DOMAIN proc.answer => f[x] = table[s][x]
  BY DEF Over
<1>4. /\ \A d \in DOMAIN proc.answer :
           \/ d \in DOMAIN closes[s] /\ proc.answer[d] = closes[s][d]
           \/ d = today /\ (session \in Trading \/ d \in DOMAIN closes[s])
      /\ DOMAIN proc.answer # {} => \A d \in DOMAIN closes[s] :
           d < today /\ d >= today - 2 * BarDays => d \in DOMAIN proc.answer
  BY <1>0, <1>1 DEF IInv, AnswerInv
<1> HIDE DEF f
<1>5. /\ table = [t \in Tickers |-> table[t]] /\ loaded \in [Tickers -> Int]
      /\ today \in Nat /\ bootDay \in Nat /\ bootDay <= today
      /\ DaysInv(s) /\ BarsInv(s)
  BY <1>2 DEF IInv, MarketInv
<1>6. /\ table' = [t \in Tickers |-> table'[t]] /\ loaded' \in [Tickers -> Int]
      /\ table'[s] = f /\ loaded'[s] = at
      /\ \A t \in Tickers : t # s => table'[t] = table[t] /\ loaded'[t] = loaded[t]
  <2>1. \A g : table' = [table EXCEPT ![s] = g] =>
          table' = [t \in Tickers |-> table'[t]] /\ table'[s] = g
          /\ \A t \in Tickers : t # s => table'[t] = table[t]
    BY <1>2, <1>5
  <2>2. /\ loaded' \in [Tickers -> Int] /\ loaded'[s] = at
        /\ \A t \in Tickers : t # s => loaded'[t] = loaded[t]
    <3>1. CASE loaded' = [loaded EXCEPT ![s] = today] /\ DOMAIN proc.answer # {}
      BY <1>2, <1>5, <3>1
    <3>2. CASE loaded' = loaded /\ DOMAIN proc.answer = {}
      BY <1>2, <1>5, <3>2
    <3> QED
      BY <1>1, <3>1, <3>2
  <2> QED
    BY <1>1, <2>1, <2>2
<1>7. MarketInv'
  BY <1>1, <1>6 DEF IInv, MarketInv
<1>8. DaysInv(s)'
  <2>1. at <= today
    BY <1>5 DEF DaysInv
  <2>2. \A d \in DOMAIN f : d \in DOMAIN closes[s] \/ (d = today /\ session \in Trading)
    BY <1>3, <1>4, <1>5 DEF DaysInv
  <2> QED
    BY <1>1, <1>5, <1>6, <2>1, <2>2 DEF DaysInv
<1>9. BarsInv(s)'
  <2>1. CASE DOMAIN proc.answer # {}
    <3> SUFFICES ASSUME NEW d \in DOMAIN f
                 PROVE  \/ d \in DOMAIN closes[s] /\ f[d] = closes[s][d]
                        \/ today = d \/ d < today - 2 * BarDays
      BY <1>1, <1>6, <2>1 DEF BarsInv
    <3>1. CASE d \in DOMAIN proc.answer
      BY <1>3, <1>4, <3>1
    <3>2. CASE d \notin DOMAIN proc.answer
      <4>1. d \in DOMAIN table[s] /\ f[d] = table[s][d]
        BY <1>3, <3>2
      <4>2. d = today \/ (d \in DOMAIN closes[s] /\ d \in Nat /\ d < today)
        BY <1>5, <4>1 DEF DaysInv
      <4>3. d = today \/ d < today - 2 * BarDays
        BY <1>4, <1>5, <2>1, <3>2, <4>2, Constants
      <4> QED
        BY <4>3
    <3> QED
      BY <3>1, <3>2
  <2>2. CASE DOMAIN proc.answer = {}
    <3>1. DOMAIN f = DOMAIN table[s] /\ \A d \in DOMAIN table[s] : f[d] = table[s][d]
      BY <1>3, <2>2
    <3>2. loaded'[s] = loaded[s]
      BY <1>6, <2>2
    <3> HIDE DEF at
    <3> QED
      BY <1>1, <1>5, <1>6, <3>1, <3>2 DEF BarsInv
  <2> QED
    BY <2>1, <2>2
<1>10. s \notin missed' => Reaches(s)'
  <2> SUFFICES ASSUME DOMAIN proc.answer # {} PROVE Reaches(s)'
    BY <1>1
  <2>1. ASSUME NEW d \in DaysBefore(s, bootDay), d >= today - 2 * BarDays PROVE d \in DOMAIN f
    <3>1. d \in DOMAIN closes[s] /\ d < bootDay /\ d \in Nat
      BY <1>5 DEF DaysBefore, DaysInv
    <3> QED
      BY <1>3, <1>4, <1>5, <2>1, <3>1
  <2> QED
    BY <1>1, <1>6, <2>1 DEF Reaches, DaysBefore
<1>11. missed \subseteq missed'
  BY <1>1
<1> HIDE DEF at
<1> QED
  BY <1>1, <1>2, <1>6, <1>7, <1>8, <1>9, <1>10, <1>11, TickerDone

LEMMA FetchFailsStep ==
  ASSUME BarsConstantsOK, IInv, NEW s \in Tickers, FetchFails(s)
  PROVE  IInv'
<1>1. /\ proc.pc = "load" /\ missed' = missed \cup {s} /\ proc' = AfterTicker(Left(s))
      /\ UNCHANGED <<today, session, closes, exDay, table, loaded, bootDay>>
  BY DEF FetchFails, Turn, market
<1>2. MarketInv' /\ DaysInv(s) /\ BarsInv(s)
  BY <1>1 DEF IInv, MarketInv
<1>3. DaysInv(s)' /\ BarsInv(s)'
  BY <1>1, <1>2 DEF DaysInv, BarsInv
<1> QED
  BY <1>1, <1>2, <1>3, TickerDone

LEMMA NextIInv ==
  ASSUME BarsConstantsOK, IInv, [Next]_vars
  PROVE  IInv'
<1> USE DEF market, history
<1>1. CASE UNCHANGED vars
  BY <1>1, FrameStep DEF vars
<1>2. CASE \E t \in Tickers : \E p \in Prices[t] : Trade(t, p)
  <2>1. UNCHANGED <<today, session, closes, exDay, table, loaded, bootDay, proc, missed>>
    BY <1>2 DEF Trade
  <2> QED
    BY <2>1, FrameStep
<1>3. CASE NextSession \/ Boot \/ Upsert \/ \E ex \in ExRights : NextDay(ex)
  BY <1>3, SessionStep, DayStep, BootStep, UpsertStep
<1>4. CASE Load
  BY <1>4, CacheStep, FetchStep, FetchFailsStep DEF Load
<1>5. CASE LoadRaises
  <2>1. /\ UNCHANGED <<today, session, closes, exDay, table, loaded, bootDay>>
        /\ missed' = missed \cup proc.todo /\ proc.pc # "down" /\ proc' = Resting
    BY <1>5 DEF LoadRaises
  <2>2. proc'.pc = "run" /\ proc'.todo = {}
    BY <2>1 DEF Resting, Proc
  <2> QED
    BY <2>1, <2>2, IdleStep
<1>6. CASE Crash
  <2>1. /\ UNCHANGED <<today, session, closes, exDay, table, loaded, bootDay, missed>>
        /\ proc' = Down
    BY <1>6 DEF Crash
  <2>2. proc'.pc = "down" /\ proc'.todo = {}
    BY <2>1 DEF Down, Proc
  <2> QED
    BY <2>1, <2>2, IdleStep
<1>7. CASE Poll \/ QuotesFail \/ RoundEnds \/ \E quoted \in SUBSET Tickers : Quotes(quoted)
  <2>1. /\ UNCHANGED <<today, session, closes, exDay, table, loaded, bootDay, missed>>
        /\ proc.pc \in {"run", "quotes", "eval"}
    BY <1>7 DEF Poll, QuotesFail, RoundEnds, Quotes
  <2>2. proc'.pc \in {"run", "quotes", "eval"} /\ proc'.todo = {}
    BY <1>7 DEF Poll, QuotesFail, RoundEnds, Quotes, Resting, Polling, Proc
  <2>3. proc.todo = {}
    BY <2>1 DEF IInv, ProcInv
  <2> QED
    BY <2>1, <2>2, <2>3, IdleStep
<1> QED
  BY <1>1, <1>2, <1>3, <1>4, <1>5, <1>6, <1>7 DEF Next, World

-----------------------------------------------------------------------------
(* The steps keep the types *)

\* What IInv leaves out.
PriceType ==
  /\ session \in IF today \in TradingDays THEN ToSet(Sessions) ELSE {"closed"}
  /\ price = [t \in Tickers |-> price[t]] /\ loaded \in [Tickers -> Nat \cup {Never}]
  /\ \A t \in Tickers :
       price[t] \in Prices[t] /\ IsBars(closes[t]) /\ IsBars(table[t])
  /\ exDay \in [Tickers -> Nat \cup {Never}]
  /\ proc.tries \in 0..Retries
  /\ proc.pc = "upsert" => IsBars(proc.answer)
  /\ \A t \in DOMAIN snaps : t \in Tickers /\ snaps[t] \in Prices[t]
  /\ missed \subseteq Tickers /\ faults \in 0..MaxFaults /\ crashes \in 0..MaxCrashes

\* Days put over days are days again.
LEMMA OverTyped ==
  ASSUME NEW new, NEW old, IsBars(new), IsBars(old)
  PROVE  IsBars(Over(new, old))
<1> DEFINE o == Over(new, old)
<1>1. /\ DOMAIN o = DOMAIN new \cup DOMAIN old
      /\ o = [d \in DOMAIN o |-> o[d]]
      /\ \A d \in DOMAIN o : o[d] = IF d \in DOMAIN new THEN new[d] ELSE old[d]
  BY DEF Over
<1> HIDE DEF o
<1>2. /\ DOMAIN new \subseteq TradingDays /\ \A d \in DOMAIN new : new[d] \in Int
      /\ DOMAIN old \subseteq TradingDays /\ \A d \in DOMAIN old : old[d] \in Int
  BY DEF IsBars
<1>3. IsBars(o)
  BY <1>1, <1>2 DEF IsBars
<1> QED
  BY <1>3 DEF o

\* The price of the moment is a day on a day of trading.
LEMMA TodayTyped ==
  ASSUME BarsConstantsOK, PriceType, NEW t \in Tickers, session # "closed"
  PROVE  IsBars(Today(t))
<1> DEFINE f == Today(t)
<1>1. /\ DOMAIN f = {today} /\ f = [d \in DOMAIN f |-> f[d]] /\ f[today] = price[t]
  BY DEF Today
<1>2. today \in TradingDays /\ price[t] \in Int
  BY DEF PriceType, BarsConstantsOK
<1> HIDE DEF f
<1>3. IsBars(f)
  BY <1>1, <1>2 DEF IsBars
<1> QED
  BY <1>3 DEF f

LEMMA ShownTyped ==
  ASSUME BarsConstantsOK, PriceType, NEW t \in Tickers
  PROVE  IsBars(Shown(t))
<1> DEFINE past == {d \in DOMAIN closes[t] : d >= today - 2 * BarDays}
           days == [d \in past |-> closes[t][d]]
<1>1. /\ DOMAIN days = past /\ days = [d \in DOMAIN days |-> days[d]]
      /\ \A d \in past : days[d] = closes[t][d]
  OBVIOUS
<1>2. past \subseteq DOMAIN closes[t]
  OBVIOUS
<1>3. Shown(t) = days \/ (session # "closed" /\ Shown(t) = Over(days, Today(t)))
  BY DEF Shown
<1> HIDE DEF days, past
<1>4. DOMAIN closes[t] \subseteq TradingDays /\ \A d \in DOMAIN closes[t] : closes[t][d] \in Int
  BY DEF PriceType, IsBars
<1>5. IsBars(days)
  BY <1>1, <1>2, <1>4 DEF IsBars
<1> QED
  BY <1>3, <1>5, TodayTyped, OverTyped

\* An adjusted close is a number, of the same day.
LEMMA AdjustedTyped ==
  ASSUME RightsOK, NEW t \in Tickers, NEW right \in Rights[t], NEW f, IsBars(f)
  PROVE  IsBars([d \in DOMAIN f |-> Adjusted(f[d], right)])
<1>1. right.cash \in Nat /\ right.num \in Nat /\ right.den \in Nat \ {0}
  BY DEF RightsOK
<1>2. ASSUME NEW c \in Int PROVE Adjusted(c, right) \in Int
  <2>1. \A a \in Int : \A b \in Nat \ {0} : a \div b \in Int
    OBVIOUS
  <2>2. (c - right.cash) * right.num \in Int
    BY <1>1
  <2> QED
    BY <1>1, <2>1, <2>2 DEF Adjusted
<1> DEFINE g == [d \in DOMAIN f |-> Adjusted(f[d], right)]
<1>3. /\ DOMAIN g = DOMAIN f /\ g = [d \in DOMAIN g |-> g[d]]
      /\ \A d \in DOMAIN f : g[d] = Adjusted(f[d], right)
  OBVIOUS
<1>4. DOMAIN f \subseteq TradingDays /\ \A d \in DOMAIN f : f[d] \in Int
  BY DEF IsBars
<1> HIDE DEF g
<1>5. IsBars(g)
  BY <1>2, <1>3, <1>4 DEF IsBars
<1> QED
  BY <1>5 DEF g

LEMMA InitTyped ==
  ASSUME BarsConstantsOK, Init
  PROVE  PriceType
<1>1. session \in IF today \in TradingDays THEN ToSet(Sessions) ELSE {"closed"}
  <2>1. Sessions[1] \in ToSet(Sessions)
    BY DEF Sessions, ToSet
  <2> QED
    BY <2>1 DEF Init, SessionAt
<1>2. ASSUME NEW t \in Tickers
      PROVE  price[t] \in Prices[t] /\ IsBars(closes[t]) /\ IsBars(table[t])
  <2>1. PICK first \in Listed[t] :
          closes[t] \in [(TradingDays \cap first..FirstDay - 1) -> Prices[t]]
    BY DEF Init, Histories
  <2>2. IsBars(closes[t])
    <3>1. Prices[t] \subseteq Int
      BY DEF BarsConstantsOK
    <3> QED
      BY <2>1, <3>1 DEF IsBars
  <2>3. IsBars(table[t])
    <3>1. table[t] = <<>> /\ DOMAIN <<>> = {} /\ <<>> \in [{} -> Int]
      BY DEF Init
    <3> QED
      BY <3>1 DEF IsBars
  <2> QED
    BY <2>2, <2>3 DEF Init
<1>3. /\ proc.pc = "down" /\ proc.tries = 0 /\ DOMAIN snaps = {}
      /\ 0 \in 0..Retries /\ 0 \in 0..MaxFaults /\ 0 \in 0..MaxCrashes
  BY DEF Init, Down, Proc, BarsConstantsOK
<1> QED
  BY <1>1, <1>2, <1>3 DEF Init, PriceType, Never

\* Where only the coroutine moves on, or the faults and what was missed.
LEMMA ProcTyped ==
  ASSUME BarsConstantsOK, PriceType,
         UNCHANGED <<today, session, price, closes, exDay, table, loaded>>,
         proc'.tries \in 0..Retries,
         proc'.pc = "upsert" => IsBars(proc'.answer),
         snaps' = snaps \/ snaps' = <<>>,
         missed' \subseteq Tickers,
         faults' = faults \/ Fault,
         crashes' = crashes \/ (crashes < MaxCrashes /\ crashes' = crashes + 1)
  PROVE  PriceType'
<1>1. faults' \in 0..MaxFaults /\ crashes' \in 0..MaxCrashes
  BY DEF PriceType, Fault, BarsConstantsOK
<1>2. \A t \in DOMAIN snaps' : t \in Tickers /\ snaps'[t] \in Prices[t]
  BY DEF PriceType
<1> QED
  BY <1>1, <1>2 DEF PriceType

LEMMA IdleTyped ==
  ASSUME BarsConstantsOK, PriceType,
         UNCHANGED <<today, session, price, closes, exDay, table, loaded>>,
         proc'.tries \in 0..Retries, proc'.pc # "upsert",
         snaps' = snaps \/ snaps' = <<>>,
         missed' \subseteq Tickers,
         faults' = faults \/ Fault,
         crashes' = crashes \/ (crashes < MaxCrashes /\ crashes' = crashes + 1)
  PROVE  PriceType'
BY ProcTyped

LEMMA WorldTyped ==
  ASSUME BarsConstantsOK, RightsOK, IInv, PriceType, World
  PROVE  PriceType'
<1> USE DEF history
<1>1. ASSUME NEW t \in Tickers, NEW p \in Prices[t], Trade(t, p) PROVE PriceType'
  <2>1. /\ price' = [price EXCEPT ![t] = p]
        /\ UNCHANGED <<today, session, closes, exDay, table, proc, snaps, loaded, missed, faults, crashes>>
    BY <1>1 DEF Trade
  <2>2. price' = [s \in Tickers |-> price'[s]] /\ \A s \in Tickers : price'[s] \in Prices[s]
    BY <2>1 DEF PriceType
  <2> QED
    BY <2>1, <2>2 DEF PriceType
<1>2. CASE NextSession
  <2>1. /\ session \notin {"post", "closed"} /\ session' = Sessions[NextIndex]
        /\ UNCHANGED <<today, price, exDay, table, proc, snaps, loaded, missed, faults, crashes>>
        /\ closes' = IF session = "afternoon"
                     THEN [t \in Tickers |-> Over(Today(t), closes[t])] ELSE closes
    BY <1>2 DEF NextSession
  <2>2. session' \in ToSet(Sessions) /\ today \in TradingDays
    <3>1. session \in {"pre", "morning", "noon_break", "afternoon"} /\ today \in TradingDays
      BY <2>1 DEF IInv, MarketInv, Trading, PriceType
    <3>2. {"morning", "noon_break", "afternoon", "post"} \subseteq ToSet(Sessions)
      <4>1. /\ 1..5 = DOMAIN Sessions /\ Sessions[2] = "morning" /\ Sessions[3] = "noon_break"
            /\ Sessions[4] = "afternoon" /\ Sessions[5] = "post"
        BY DEF Sessions
      <4> QED
        BY <4>1 DEF ToSet
    <3> QED
      BY <2>1, <3>1, <3>2, SessionFacts
  <2>3. ASSUME NEW t \in Tickers PROVE IsBars(closes'[t])
    <3>1. IsBars(closes[t]) /\ IsBars(Today(t))
      BY <2>1, TodayTyped DEF PriceType
    <3>2. IsBars(Over(Today(t), closes[t]))
      BY <3>1, OverTyped
    <3> QED
      BY <2>1, <3>1, <3>2
  <2> QED
    BY <2>1, <2>2, <2>3 DEF PriceType
<1>3. ASSUME NEW ex \in ExRights, NextDay(ex) PROVE PriceType'
  <2>1. session' \in IF today' \in TradingDays THEN ToSet(Sessions) ELSE {"closed"}
    <3>1. Sessions[1] \in ToSet(Sessions)
      BY DEF Sessions, ToSet
    <3> QED
      BY <1>3, <3>1 DEF NextDay, SessionAt
  <2>2. ASSUME NEW t \in Tickers PROVE IsBars(closes'[t])
    <3>1. IsBars(closes[t])
      BY DEF PriceType
    <3>2. CASE ex[t] = NoRight
      BY <1>3, <3>1, <3>2 DEF NextDay
    <3>3. CASE ex[t] # NoRight
      <4>1. closes'[t] = [d \in DOMAIN closes[t] |-> Adjusted(closes[t][d], ex[t])]
        BY <1>3, <3>3 DEF NextDay
      <4>2. ex[t] \in Rights[t]
        BY <3>3 DEF ExRights
      <4> QED
        BY <3>1, <4>1, <4>2, AdjustedTyped
    <3> QED
      BY <3>2, <3>3
  <2>3. exDay' \in [Tickers -> Nat \cup {Never}]
    <3>1. today + 1 \in Nat
      BY DEF IInv, MarketInv
    <3> QED
      BY <1>3, <3>1 DEF NextDay, PriceType
  <2>4. UNCHANGED <<price, table, proc, snaps, loaded, missed, faults, crashes>>
    BY <1>3 DEF NextDay
  <2> QED
    BY <2>1, <2>2, <2>3, <2>4 DEF PriceType
<1> QED
  BY <1>1, <1>2, <1>3 DEF World

LEMMA NextTyped ==
  ASSUME BarsConstantsOK, RightsOK, IInv, PriceType, [Next]_vars
  PROVE  PriceType'
<1> USE DEF market, history
<1>0. /\ 0 \in 0..Retries /\ missed \subseteq Tickers /\ proc.todo \subseteq Tickers
      /\ Resting.pc = "run" /\ Resting.tries = 0 /\ Down.pc = "down" /\ Down.tries = 0
      /\ \A left : AfterTicker(left).tries = 0 /\ AfterTicker(left).pc # "upsert"
      /\ \A n : Polling(n).pc = "quotes" /\ Polling(n).tries = n
  BY DEF BarsConstantsOK, PriceType, IInv, ProcInv, Resting, Down, AfterTicker, Polling, Proc
<1>1. CASE UNCHANGED vars
  BY <1>1 DEF vars, PriceType
<1>2. CASE World
  BY <1>2, WorldTyped
<1>3. CASE Boot
  <2>1. proc'.pc = "load" /\ proc'.tries = 0
    BY <1>3 DEF Boot, Proc
  <2> QED
    BY <1>0, <1>3, <2>1, IdleTyped DEF Boot
<1>4. ASSUME NEW t \in Tickers, UseCache(t) PROVE PriceType'
  BY <1>0, <1>4, IdleTyped DEF UseCache
<1>5. ASSUME NEW t \in Tickers, Fetch(t) \/ FetchEmpty(t) PROVE PriceType'
  <2>1. PICK answer : Answered(t, answer) /\ IsBars(answer) /\ (faults' = faults \/ Fault)
    <3>1. CASE Fetch(t)
      BY <3>1, ShownTyped DEF Fetch
    <3>2. CASE FetchEmpty(t)
      <4>1. DOMAIN <<>> = {} /\ <<>> \in [{} -> Int]
        OBVIOUS
      <4>2. IsBars(<<>>)
        BY <4>1 DEF IsBars
      <4> QED
        BY <3>2, <4>2 DEF FetchEmpty
    <3> QED
      BY <1>5, <3>1, <3>2
  <2>2. proc'.tries = 0 /\ proc'.answer = answer
    BY <2>1 DEF Answered, Proc
  <2>3. /\ UNCHANGED <<today, session, price, closes, exDay, table, loaded>>
        /\ UNCHANGED <<snaps, missed, crashes>>
    BY <2>1 DEF Answered
  <2> QED
    BY <1>0, <2>1, <2>2, <2>3, ProcTyped
<1>6. ASSUME NEW t \in Tickers, FetchFails(t) PROVE PriceType'
  BY <1>0, <1>6, IdleTyped DEF FetchFails
<1>7. CASE Upsert
  <2> DEFINE s == CHOOSE x \in proc.todo : TRUE
  <2>1. /\ proc.pc = "upsert" /\ s \in Tickers /\ today \in Nat
        /\ table = [t \in Tickers |-> table[t]]
    BY <1>0, <1>7 DEF Upsert, IInv, ProcInv, MarketInv
  <2>2. /\ table' = [table EXCEPT ![s] = UpsertMany(table[s], proc.answer)]
        /\ loaded' = [loaded EXCEPT ![s] = today] \/ loaded' = loaded
        /\ missed' \subseteq missed \cup {s}
        /\ proc' = AfterTicker(Left(s))
        /\ UNCHANGED <<today, session, price, closes, exDay, snaps, faults, crashes>>
    BY <1>7 DEF Upsert
  <2>3. IsBars(UpsertMany(table[s], proc.answer))
    BY <2>1, OverTyped DEF UpsertMany, PriceType
  <2> HIDE DEF s
  <2>4. \A t \in Tickers : IsBars(table'[t])
    BY <2>1, <2>2, <2>3 DEF PriceType
  <2>5. loaded' \in [Tickers -> Nat \cup {Never}]
    BY <2>1, <2>2 DEF PriceType
  <2>6. proc'.tries \in 0..Retries /\ proc'.pc # "upsert"
    BY <1>0, <2>2
  <2>7. missed' \subseteq Tickers
    BY <1>0, <2>1, <2>2
  <2> QED
    BY <2>2, <2>4, <2>5, <2>6, <2>7 DEF PriceType
<1>8. CASE LoadRaises
  BY <1>0, <1>8, IdleTyped DEF LoadRaises
<1>9. CASE Crash
  BY <1>0, <1>9, IdleTyped DEF Crash
<1>10. CASE Poll \/ RoundEnds
  BY <1>0, <1>10, IdleTyped DEF Poll, RoundEnds
<1>11. CASE QuotesFail
  <2>1. proc'.tries \in 0..Retries /\ proc'.pc # "upsert"
    <3>1. proc.tries < Retries => proc.tries + 1 \in 0..Retries
      BY DEF PriceType, BarsConstantsOK
    <3> QED
      BY <1>0, <1>11, <3>1 DEF QuotesFail
  <2> QED
    BY <1>0, <1>11, <2>1, IdleTyped DEF QuotesFail
<1>12. ASSUME NEW quoted \in SUBSET Tickers, Quotes(quoted) PROVE PriceType'
  <2>1. proc'.tries = 0 /\ proc'.pc # "upsert"
    BY <1>0, <1>12 DEF Quotes, Proc
  <2>2. snaps' = [t \in quoted |-> price[t]]
        /\ UNCHANGED <<today, session, price, closes, exDay, table, loaded, missed, faults, crashes>>
    BY <1>12 DEF Quotes
  <2>3. \A t \in DOMAIN snaps' : t \in Tickers /\ snaps'[t] \in Prices[t]
    BY <2>2 DEF PriceType
  <2> QED
    BY <1>0, <2>1, <2>2, <2>3 DEF PriceType
<1> QED
  BY <1>1, <1>2, <1>3, <1>4, <1>5, <1>6, <1>7, <1>8, <1>9, <1>10, <1>11, <1>12
     DEF Next, Load

-----------------------------------------------------------------------------
(* Days in their order, and the closes on them *)

DayOrder(S) == [x \in S |-> {y \in S : y > x}]

LEMMA DaysAreOrdered ==
  ASSUME NEW S, S \subseteq Nat
  PROVE  OrderOn(S, DayOrder(S))
<1> DEFINE later == DayOrder(S)
<1>1. later \in [S -> SUBSET S]
  BY DEF DayOrder
<1>2. \A x, y \in S : y \in later[x] <=> y > x
  BY DEF DayOrder
<1>3. \A x \in S : x \in Nat
  OBVIOUS
<1> HIDE DEF later
<1>4. \A x \in S : x \notin later[x]
  BY <1>2, <1>3
<1>5. \A x \in S : \A y \in later[x] : later[y] \subseteq later[x]
  <2> SUFFICES ASSUME NEW x \in S, NEW y \in later[x], NEW z \in later[y]
               PROVE  z \in later[x]
    OBVIOUS
  <2>1. y \in S /\ z \in S
    BY <1>1
  <2>2. x \in Nat /\ y \in Nat /\ z \in Nat /\ y > x /\ z > y
    BY <1>2, <1>3, <2>1
  <2> QED
    BY <1>2, <2>1, <2>2
<1>6. \A x, y \in S : x # y => x \in later[y] \/ y \in later[x]
  BY <1>2, <1>3
<1> QED
  BY <1>1, <1>4, <1>5, <1>6 DEF OrderOn, later

\* Each number below the size counts the days after one of them.
LEMMA RankTaken ==
  ASSUME NEW S, IsFiniteSet(S), OrderOn(S, DayOrder(S)), NEW k \in 0..Cardinality(S) - 1
  PROVE  \E x \in S : Cardinality(DayOrder(S)[x]) = k
BY Ranks

\* The days are told apart by how many come after.
LEMMA DayRanks ==
  ASSUME NEW S, S \subseteq Nat, IsFiniteSet(S)
  PROVE  /\ \A x, y \in S :
              Cardinality(DayOrder(S)[x]) = Cardinality(DayOrder(S)[y]) => x = y
         /\ \A k \in 0..Cardinality(S) - 1 : \E x \in S : Cardinality(DayOrder(S)[x]) = k
<1>1. OrderOn(S, DayOrder(S))
  BY DaysAreOrdered
<1>2. ASSUME NEW k \in 0..Cardinality(S) - 1
      PROVE  \E x \in S : Cardinality(DayOrder(S)[x]) = k
  BY <1>1, RankTaken
<1>3. \A x, y \in S : Cardinality(DayOrder(S)[x]) = Cardinality(DayOrder(S)[y]) => x = y
  <2> DEFINE later == DayOrder(S)
  <2>1. OrderOn(S, later)
    BY <1>1
  <2> HIDE DEF later
  <2>2. ASSUME NEW x \in S, NEW y \in S, x # y
        PROVE  Cardinality(later[x]) # Cardinality(later[y])
    <3>1. \A z \in S : Cardinality(later[z]) \in 0..Cardinality(S) - 1
      BY <2>1, Ranks
    <3>2. CASE x \in later[y]
      <4>1. Cardinality(later[x]) < Cardinality(later[y])
        BY <2>1, <3>2, RankGrows
      <4> QED
        BY <3>1, <4>1
    <3>3. CASE y \in later[x]
      <4>1. Cardinality(later[y]) < Cardinality(later[x])
        BY <2>1, <3>3, RankGrows
      <4> QED
        BY <3>1, <4>1
    <3> QED
      BY <2>1, <2>2, <3>2, <3>3 DEF OrderOn
  <2> QED
    BY <2>2 DEF later
<1> QED
  BY <1>2, <1>3

\* The i-th day has as many days after it as are left.
LEMMA Ascending ==
  ASSUME NEW S, S \subseteq Nat, IsFiniteSet(S)
  PROVE  LET n == Cardinality(S)
             order == DaysAscending(S)
         IN /\ n \in Nat /\ DOMAIN order = 1..n
            /\ \A i \in 1..n : order[i] \in S /\ Cardinality({y \in S : y > order[i]}) = n - i
            /\ \A i \in 1..n : \A x \in S :
                 Cardinality({y \in S : y > x}) = n - i => x = order[i]
<1> DEFINE n == Cardinality(S)
           order == DaysAscending(S)
           After(x) == Cardinality({y \in S : y > x})
<1>1. n \in Nat
  BY FS_CardinalityType
<1>2. OrderOn(S, DayOrder(S)) /\ \A x \in S : DayOrder(S)[x] = {y \in S : y > x}
  BY DaysAreOrdered DEF DayOrder
<1>3. /\ \A x, y \in S : After(x) = After(y) => x = y
      /\ \A k \in 0..n - 1 : \E x \in S : After(x) = k
  <2>1. /\ \A x, y \in S : Cardinality(DayOrder(S)[x]) = Cardinality(DayOrder(S)[y]) => x = y
        /\ \A k \in 0..n - 1 : \E x \in S : Cardinality(DayOrder(S)[x]) = k
    BY DayRanks
  <2>2. \A x \in S : After(x) = Cardinality(DayOrder(S)[x])
    BY <1>2
  <2> HIDE DEF After, n
  <2> QED
    BY <2>1, <2>2
<1>4. order = [i \in 1..n |-> CHOOSE x \in S : After(x) = n - i]
  BY DEF DaysAscending
<1> HIDE DEF n, After, order
<1>5. ASSUME NEW i \in 1..n
      PROVE  order[i] \in S /\ After(order[i]) = n - i
  <2>1. n - i \in 0..n - 1
    BY <1>1
  <2>2. \E x \in S : After(x) = n - i
    BY <1>3, <2>1
  <2>3. order[i] = CHOOSE x \in S : After(x) = n - i
    BY <1>4
  <2> QED
    BY <2>2, <2>3
<1>6. \A i \in 1..n : \A x \in S : After(x) = n - i => x = order[i]
  BY <1>3, <1>5
<1>7. DOMAIN order = 1..n
  BY <1>4
<1> QED
  BY <1>1, <1>5, <1>6, <1>7 DEF n, After, order

LEMMA SameLength ==
  ASSUME NEW m \in Nat, NEW n \in Nat, 1..m = 1..n
  PROVE  m = n
<1>1. CASE m < n
  <2>1. n \in 1..n /\ n \notin 1..m
    BY <1>1
  <2> QED
    BY <2>1
<1>2. CASE n < m
  <2>1. m \in 1..m /\ m \notin 1..n
    BY <1>2
  <2> QED
    BY <2>1
<1> QED
  BY <1>1, <1>2

LEMMA ClosesAreSeq ==
  ASSUME NEW S, S \subseteq Nat, IsFiniteSet(S), NEW c, NEW X, \A x \in S : c[x] \in X
  PROVE  LET s == ClosesOn(c, S)
         IN /\ s \in Seq(X) /\ Len(s) = Cardinality(S) /\ Cardinality(S) \in Nat
            /\ \A i \in 1..Cardinality(S) : s[i] = c[DaysAscending(S)[i]]
<1> DEFINE n == Cardinality(S)
           order == DaysAscending(S)
           s == ClosesOn(c, S)
<1>1. n \in Nat /\ DOMAIN order = 1..n /\ \A i \in 1..n : order[i] \in S
  BY Ascending
<1>2. s = [i \in DOMAIN order |-> c[order[i]]]
  BY DEF ClosesOn
<1> HIDE DEF n, order, s
<1>3. s = [i \in 1..n |-> c[order[i]]]
  BY <1>1, <1>2
<1>4. s \in [1..n -> X]
  BY <1>1, <1>3
<1>5. s \in Seq(X)
  BY <1>1, <1>4, SeqDef
<1>6. DOMAIN s = 1..n /\ DOMAIN s = 1..Len(s) /\ Len(s) \in Nat
  BY <1>3, <1>5, LenProperties
<1>7. Len(s) = n
  BY <1>1, <1>6, SameLength
<1> QED
  BY <1>1, <1>3, <1>5, <1>7 DEF n, order, s

\* The last k of the closes are those of the k last days.
LEMMA LastOnes ==
  ASSUME NEW S, S \subseteq Nat, IsFiniteSet(S), NEW k \in 1..Cardinality(S),
         NEW c, NEW e,
         \A x \in S : Cardinality({y \in S : y > x}) < k => e[x] = c[x]
  PROVE  LastN(ClosesOn(c, S), k)
           = ClosesOn(e, LastDays(S, k))
<1> DEFINE n == Cardinality(S)
           U == {x \in S : Cardinality({y \in S : y > x}) < k}
           X == {c[x] : x \in S}
           s == ClosesOn(c, S)
           u == ClosesOn(e, U)
<1>1. OrderOn(S, DayOrder(S)) /\ \A x \in S : DayOrder(S)[x] = {y \in S : y > x}
  BY DaysAreOrdered DEF DayOrder
<1>2. n \in Nat /\ k \in Nat /\ 1 <= k /\ k <= n
  BY FS_CardinalityType
<1>3. U = {x \in S : Cardinality(DayOrder(S)[x]) < k}
  BY <1>1
<1>4. IsFiniteSet(U) /\ Cardinality(U) = k
  <2>1. LET first == {x \in S : Cardinality(DayOrder(S)[x]) < k}
        IN IsFiniteSet(first) /\ (k <= n => Cardinality(first) = k)
    BY <1>1, <1>2, FirstOnes
  <2> QED
    BY <1>2, <1>3, <2>1
<1>5. ASSUME NEW x \in U PROVE {y \in U : y > x} = {y \in S : y > x}
  <2> SUFFICES ASSUME NEW y \in S, y > x PROVE y \in U
    OBVIOUS
  <2>1. y \in DayOrder(S)[x] /\ x \in S
    BY <1>1
  <2>2. Cardinality(DayOrder(S)[y]) < Cardinality(DayOrder(S)[x])
    BY <1>1, <2>1, RankGrows
  <2>3. Cardinality(DayOrder(S)[x]) < k
    BY <1>3
  <2>4. Cardinality(DayOrder(S)[y]) \in Int /\ Cardinality(DayOrder(S)[x]) \in Int
    <3>1. \A z \in S : Cardinality(DayOrder(S)[z]) \in 0..n - 1
      BY <1>1, Ranks
    <3> QED
      BY <1>2, <2>1, <3>1
  <2> QED
    BY <1>2, <1>3, <2>2, <2>3, <2>4
<1>6. U \subseteq S /\ U \subseteq Nat /\ \A x \in U : e[x] = c[x]
  OBVIOUS
<1>7. /\ s \in Seq(X) /\ Len(s) = n /\ \A i \in 1..n : s[i] = c[DaysAscending(S)[i]]
  <2>1. \A x \in S : c[x] \in X
    OBVIOUS
  <2> HIDE DEF X
  <2> QED
    BY <2>1, ClosesAreSeq
<1>8. /\ u \in Seq(X) /\ Len(u) = k /\ \A i \in 1..k : u[i] = e[DaysAscending(U)[i]]
  <2>1. \A x \in U : e[x] \in X
    BY <1>6
  <2> HIDE DEF X, U
  <2> QED
    BY <1>4, <1>6, <2>1, ClosesAreSeq, ZenonT(60)
<1>9. ASSUME NEW i \in 1..k
      PROVE  /\ DaysAscending(U)[i] \in U /\ n - k + i \in 1..n
             /\ DaysAscending(U)[i] = DaysAscending(S)[n - k + i]
  <2> DEFINE x == DaysAscending(U)[i]
  <2> HIDE DEF U, n
  <2>1. x \in U /\ Cardinality({y \in U : y > x}) = k - i
    BY <1>4, <1>6, Ascending
  <2>2. Cardinality({y \in S : y > x}) = n - (n - k + i)
    BY <1>2, <1>5, <2>1
  <2>3. n - k + i \in 1..n
    BY <1>2
  <2>4. \A j \in 1..n : \A z \in S :
          Cardinality({y \in S : y > z}) = n - j => z = DaysAscending(S)[j]
    BY Ascending DEF n
  <2> QED
    BY <1>6, <2>1, <2>2, <2>3, <2>4
<1> HIDE DEF U, X, s, u, n
<1>10. LastN(s, k) = SubSeq(s, n - k + 1, n)
  BY <1>7 DEF LastN
<1>11. /\ SubSeq(s, n - k + 1, n) \in Seq(X) /\ Len(SubSeq(s, n - k + 1, n)) = k
       /\ \A i \in 1..k : SubSeq(s, n - k + 1, n)[i] = s[n - k + i]
  <2> DEFINE m == n - k + 1
  <2>1. m \in Int /\ n \in Int /\ m <= n /\ n - m + 1 = k /\ 1 <= m
    BY <1>2
  <2>2. \A i \in m..n : s[i] \in X
    <3>1. \A i \in 1..Len(s) : s[i] \in X
      BY <1>7, ElementOfSeq
    <3> QED
      BY <1>7, <2>1, <3>1
  <2> HIDE DEF m
  <2>3. /\ SubSeq(s, m, n) \in Seq(X)
        /\ Len(SubSeq(s, m, n)) = IF m <= n THEN n - m + 1 ELSE 0
        /\ \A i \in 1..n - m + 1 : SubSeq(s, m, n)[i] = s[m + i - 1]
    BY <2>1, <2>2, SubSeqProperties
  <2>4. \A i \in 1..k : m + i - 1 = n - k + i
    BY <1>2 DEF m
  <2> QED
    BY <2>1, <2>3, <2>4 DEF m
<1>12. \A i \in 1..k : SubSeq(s, n - k + 1, n)[i] = u[i]
  <2> TAKE i \in 1..k
  <2>1. SubSeq(s, n - k + 1, n)[i] = c[DaysAscending(S)[n - k + i]]
    BY <1>7, <1>9, <1>11
  <2>2. u[i] = e[DaysAscending(U)[i]]
    BY <1>8
  <2> QED
    BY <1>6, <1>9, <2>1, <2>2
<1>13. SubSeq(s, n - k + 1, n) = u
  BY <1>8, <1>11, <1>12, SeqEqual
<1> QED
  BY <1>10, <1>13 DEF s, u, U, LastDays

\* The last days of a set are the last ones of its upper part.
LEMMA LastOfMore ==
  ASSUME NEW D, D \subseteq Nat, IsFiniteSet(D), NEW days, days \subseteq D,
         \A x \in D : x \in days \/ \A y \in days : x < y,
         NEW k \in Nat, k <= Cardinality(days)
  PROVE  LastDays(D, k) = LastDays(days, k)
<1>1. ASSUME NEW x \in days PROVE {y \in D : y > x} = {y \in days : y > x}
  <2> SUFFICES ASSUME NEW y \in D, y > x PROVE y \in days
    OBVIOUS
  <2>1. x \in Nat /\ y \in Nat /\ ~(y < x)
    OBVIOUS
  <2> QED
    BY <2>1
<1>2. ASSUME NEW x \in D, x \notin days PROVE ~(Cardinality({y \in D : y > x}) < k)
  <2> DEFINE A == {y \in D : y > x}
  <2>1. \A y \in days : x < y /\ x \in Nat /\ y \in Nat
    BY <1>2
  <2>2. days \subseteq A
    BY <2>1
  <2>3. IsFiniteSet(A)
    BY FS_Subset
  <2> HIDE DEF A
  <2>4. IsFiniteSet(days) /\ Cardinality(days) <= Cardinality(A)
    BY <2>2, <2>3, FS_Subset
  <2>5. Cardinality(days) \in Nat /\ Cardinality(A) \in Nat
    BY <2>3, <2>4, FS_CardinalityType
  <2> QED
    BY <2>4, <2>5 DEF A
<1> QED
  BY <1>1, <1>2 DEF LastDays

\* e has the closes c on S, and v on a later day d.
OneMore(S, d, c, e, v) ==
  /\ S \subseteq Nat /\ IsFiniteSet(S) /\ d \in Nat /\ \A x \in S : x < d
  /\ e[d] = v /\ \A x \in S : e[x] = c[x]

\* One more day.
LEMMA AppendDay ==
  ASSUME NEW S, NEW d, NEW c, NEW e, NEW v, OneMore(S, d, c, e, v)
  PROVE  Append(ClosesOn(c, S), v) = ClosesOn(e, S \cup {d})
<1> USE DEF OneMore
<1> DEFINE n == Cardinality(S)
           T == S \cup {d}
           X == {e[x] : x \in T}
           s == ClosesOn(c, S)
           r == ClosesOn(e, T)
<1>1. d \notin S /\ T \subseteq Nat
  OBVIOUS
<1>2. n \in Nat /\ IsFiniteSet(T) /\ Cardinality(T) = n + 1
  BY <1>1, FS_AddElement, FS_CardinalityType
<1>3. (\A x \in S : c[x] \in X) /\ (\A x \in T : e[x] \in X) /\ v \in X
  OBVIOUS
<1> HIDE DEF X
<1>4. s \in Seq(X) /\ Len(s) = n /\ \A i \in 1..n : s[i] = c[DaysAscending(S)[i]]
  BY <1>3, ClosesAreSeq, ZenonT(60)
<1> HIDE DEF T
<1>5. r \in Seq(X) /\ Len(r) = n + 1 /\ \A i \in 1..n + 1 : r[i] = e[DaysAscending(T)[i]]
  <2>1. /\ r \in Seq(X) /\ Len(r) = Cardinality(T)
        /\ \A i \in 1..Cardinality(T) : r[i] = e[DaysAscending(T)[i]]
    BY <1>1, <1>2, <1>3, ClosesAreSeq, ZenonT(60)
  <2> QED
    BY <1>2, <2>1
<1>6. /\ \A i \in 1..n : /\ DaysAscending(S)[i] \in S
                         /\ Cardinality({y \in S : y > DaysAscending(S)[i]}) = n - i
      /\ \A i \in 1..n + 1 : \A x \in T :
           Cardinality({y \in T : y > x}) = n + 1 - i => x = DaysAscending(T)[i]
  <2>1. \A i \in 1..Cardinality(T) : \A x \in T :
          Cardinality({y \in T : y > x}) = Cardinality(T) - i => x = DaysAscending(T)[i]
    BY <1>1, <1>2, Ascending
  <2>2. \A i \in 1..n : /\ DaysAscending(S)[i] \in S
                        /\ Cardinality({y \in S : y > DaysAscending(S)[i]}) = n - i
    BY Ascending
  <2> QED
    BY <1>2, <2>1, <2>2
<1>7. ASSUME NEW i \in 1..n PROVE DaysAscending(T)[i] = DaysAscending(S)[i]
  <2> DEFINE x == DaysAscending(S)[i]
             A == {y \in S : y > x}
  <2>1. x \in S /\ Cardinality(A) = n - i
    BY <1>6
  <2> HIDE DEF x
  <2>2. {y \in T : y > x} = A \cup {d} /\ d \notin A
    BY <1>1, <2>1 DEF T
  <2>3. IsFiniteSet(A)
    BY FS_Subset
  <2> HIDE DEF A
  <2>4. Cardinality({y \in T : y > x}) = Cardinality(A) + 1
    BY <2>2, <2>3, FS_AddElement
  <2>5. Cardinality({y \in T : y > x}) = n + 1 - i /\ i \in 1..n + 1 /\ x \in T
    BY <1>2, <2>1, <2>4 DEF T
  <2> QED
    BY <1>6, <2>5 DEF x
<1>8. DaysAscending(T)[n + 1] = d
  <2>1. {y \in T : y > d} = {}
    <3>1. \A y \in T : ~(y > d)
      <4>1. \A y \in S : y \in Nat /\ y < d /\ ~(y > d)
        OBVIOUS
      <4> QED
        BY <4>1 DEF T
    <3> QED
      BY <3>1
  <2>2. Cardinality({y \in T : y > d}) = n + 1 - (n + 1)
    BY <1>2, <2>1, FS_EmptySet
  <2>3. d \in T /\ n + 1 \in 1..n + 1
    BY <1>2 DEF T
  <2> QED
    BY <1>6, <2>2, <2>3
<1> HIDE DEF s, r, n
<1>9. /\ Append(s, v) \in Seq(X) /\ Len(Append(s, v)) = n + 1
      /\ \A i \in 1..n : Append(s, v)[i] = s[i]
      /\ Append(s, v)[n + 1] = v
  BY <1>3, <1>4, AppendProperties
<1>10. \A i \in 1..n + 1 : Append(s, v)[i] = r[i]
  <2> TAKE i \in 1..n + 1
  <2>1. CASE i \in 1..n
    <3>1. Append(s, v)[i] = c[DaysAscending(S)[i]] /\ r[i] = e[DaysAscending(S)[i]]
      BY <1>4, <1>5, <1>7, <1>9, <2>1
    <3>2. DaysAscending(S)[i] \in S
      BY <1>6, <2>1
    <3> QED
      BY <3>1, <3>2
  <2>2. CASE i = n + 1
    BY <1>5, <1>8, <1>9, <2>2
  <2>3. i \in 1..n \/ i = n + 1
    BY <1>2
  <2> QED
    BY <2>1, <2>2, <2>3
<1>11. Append(s, v) = r
  BY <1>5, <1>9, <1>10, SeqEqual
<1> QED
  BY <1>11 DEF s, r, T

\* The rule's average over its bars is the one over the last days of the market.
LEMMA AverageIsTrue ==
  ASSUME NEW D, D \subseteq Nat, IsFiniteSet(D), NEW days, days \subseteq D,
         \A x \in D : x \in days \/ \A y \in days : x < y,
         NEW k \in Nat, k >= 1, Cardinality(days) >= k,
         NEW c, NEW e, \A x \in days : e[x] = c[x]
  PROVE  Ma(ClosesOn(c, days), k)
           = [num |-> Total(ClosesOn(e, LastDays(D, k))), den |-> k]
<1> DEFINE X == {c[x] : x \in days}
           s == ClosesOn(c, days)
<1>1. IsFiniteSet(days) /\ days \subseteq Nat
  BY FS_Subset
<1>2. Cardinality(days) \in Nat
  BY <1>1, FS_CardinalityType
<1>3. Len(s) = Cardinality(days)
  <2>1. \A x \in days : c[x] \in X
    OBVIOUS
  <2> HIDE DEF X
  <2> QED
    BY <1>1, <2>1, ClosesAreSeq
<1>4. k \in 1..Cardinality(days)
  BY <1>2
<1>5. LastN(ClosesOn(c, days), k) = ClosesOn(e, LastDays(days, k))
  <2>1. \A x \in days : Cardinality({y \in days : y > x}) < k => e[x] = c[x]
    OBVIOUS
  <2> HIDE DEF s, X
  <2> QED
    BY <1>1, <1>4, <2>1, LastOnes
<1>6. LastDays(D, k) = LastDays(days, k)
  <2>1. k <= Cardinality(days)
    BY <1>2
  <2> QED
    BY <1>2, <2>1, LastOfMore
<1> HIDE DEF s
<1>7. HasN(s, k)
  BY <1>3, <1>2 DEF HasN
<1>8. Ma(s, k) = [num |-> Total(LastN(s, k)), den |-> k]
  BY <1>7 DEF Ma
<1> QED
  BY <1>5, <1>6, <1>8 DEF s

\* The last of finitely many days.
LEMMA LastDayOf ==
  ASSUME NEW D, D \subseteq Nat, IsFiniteSet(D), D # {}
  PROVE  Max(D) \in D /\ \A y \in D : Max(D) >= y
<1>1. Cardinality(D) \in Nat /\ Cardinality(D) # 0
  BY FS_CardinalityType, FS_EmptySet
<1>2. 0 \in 0..Cardinality(D) - 1
  BY <1>1
<1>3. PICK x \in D : Cardinality(DayOrder(D)[x]) = 0
  BY <1>2, DayRanks
<1>4. DayOrder(D)[x] = {y \in D : y > x} /\ IsFiniteSet({y \in D : y > x})
  BY FS_Subset DEF DayOrder
<1>5. {y \in D : y > x} = {}
  BY <1>3, <1>4, FS_EmptySet
<1>6. \A y \in D : x >= y
  BY <1>5
<1> QED
  BY <1>6 DEF Max

\* With clean bars the rule fires when the true averages crossed.
LEMMA FiresIsTrue ==
  ASSUME BarsConstantsOK, NEW t \in Tickers, NEW d \in Nat, NEW days, NEW last,
         DOMAIN closes[t] \subseteq Nat, IsFiniteSet(DaysBefore(t, d)),
         Clean(t, days, d)
  PROVE  Fires(ClosesOn(table[t], days), last) <=> TrueCross(t, d, last)
<1> DEFINE D == DaysBefore(t, d)
           new == [x \in {d} |-> last]
           e == Over(new, closes[t])
           c == table[t]
           prior == ClosesOn(c, days)
           m == Max(D)
           A(k) == Total(ClosesOn(e, DaysUpTo(t, d, k)))
           Y(k) == Total(ClosesOn(e, DaysUpTo(t, m, k)))
<1>1. /\ Fast \in Nat /\ Slow \in Nat /\ Fast >= 1 /\ Slow >= 1
      /\ \A k \in {Fast, Slow} : Cardinality(days) >= k
      /\ days \subseteq D
      /\ \A x \in D : x \in days \/ \A y \in days : x < y
      /\ \A x \in days : c[x] = closes[t][x]
  BY DEF BarsConstantsOK, Clean
<1>2. D \subseteq Nat /\ \A x \in D : x \in DOMAIN closes[t] /\ x < d
  BY DEF DaysBefore
<1>3. /\ e[d] = last
      /\ \A x \in D : e[x] = closes[t][x]
  <2>1. DOMAIN new = {d} /\ new[d] = last
    OBVIOUS
  <2>2. \A x \in D : x # d
    <3>1. \A x \in Nat : x < d => x # d
      OBVIOUS
    <3> QED
      BY <1>2, <3>1
  <2> HIDE DEF D, new
  <2> QED
    BY <1>2, <2>1, <2>2 DEF Over
<1> HIDE DEF e, new
<1>4. \A x \in days : e[x] = c[x]
  BY <1>1, <1>3
<1>5. IsFiniteSet(days) /\ days \subseteq Nat /\ Cardinality(days) \in Nat
  BY <1>1, <1>2, FS_Subset, FS_CardinalityType
<1>6. \A x \in days : x < d
  BY <1>1, <1>2
<1>7. Append(prior, last) = ClosesOn(e, days \cup {d})
  <2> HIDE DEF c, D, prior, m, A, Y
  <2>0. OneMore(days, d, c, e, last)
    BY <1>3, <1>4, <1>5, <1>6 DEF OneMore
  <2>1. Append(ClosesOn(c, days), last) = ClosesOn(e, days \cup {d})
    BY <2>0, AppendDay
  <2> QED
    BY <2>1 DEF prior
<1>8. /\ IsFiniteSet(days \cup {d}) /\ Cardinality(days \cup {d}) = Cardinality(days) + 1
      /\ IsFiniteSet(D \cup {d}) /\ D \cup {d} \subseteq Nat
      /\ days \cup {d} \subseteq D \cup {d}
  <2>1. d \notin days
    BY <1>5, <1>6
  <2> QED
    BY <1>1, <1>2, <1>5, <2>1, FS_AddElement
<1>9. \A x \in D \cup {d} : x \in days \cup {d} \/ \A y \in days \cup {d} : x < y
  BY <1>1, <1>2
<1> HIDE DEF D
<1>10. ASSUME NEW k \in {Fast, Slow}
       PROVE  Ma(Append(prior, last), k) = [num |-> A(k), den |-> k]
  <2>1. k \in Nat /\ k >= 1 /\ Cardinality(days \cup {d}) >= k
    BY <1>1, <1>5, <1>8
  <2>2. \A x \in days \cup {d} : e[x] = e[x]
    OBVIOUS
  <2>3. Ma(ClosesOn(e, days \cup {d}), k)
          = [num |-> Total(ClosesOn(e, LastDays(D \cup {d}, k))), den |-> k]
    BY <1>8, <1>9, <2>1, <2>2, AverageIsTrue
  <2>4. DaysUpTo(t, d, k) = LastDays(D \cup {d}, k)
    BY DEF DaysUpTo, D
  <2> QED
    BY <1>7, <2>3, <2>4
<1>11. DaysBefore(t, m) \cup {m} = D
  <2>1. D # {}
    <3>1. days # {}
      BY <1>1, <1>5, FS_EmptySet
    <3> QED
      BY <1>1, <3>1
  <2>2. m \in D /\ \A y \in D : m >= y
    BY <1>2, <2>1, LastDayOf DEF D
  <2> HIDE DEF m
  <2>3. m \in Nat /\ m < d /\ m \in DOMAIN closes[t]
    BY <1>2, <2>2 DEF D
  <2>4. ASSUME NEW x \in DaysBefore(t, m) PROVE x \in D
    <3>1. x \in DOMAIN closes[t] /\ x < m
      BY DEF DaysBefore
    <3>2. x \in Nat
      BY <3>1
    <3>3. x < d
      BY <2>3, <3>1, <3>2
    <3> QED
      BY <3>1, <3>3 DEF DaysBefore, D
  <2>5. ASSUME NEW x \in D, x # m PROVE x \in DaysBefore(t, m)
    <3>1. x \in Nat /\ m >= x /\ x \in DOMAIN closes[t]
      BY <1>2, <2>2 DEF D
    <3>2. x < m
      BY <2>3, <2>5, <3>1
    <3> QED
      BY <3>1, <3>2 DEF DaysBefore
  <2> QED
    BY <2>2, <2>4, <2>5
<1>12. ASSUME NEW k \in {Fast, Slow}
       PROVE  Ma(prior, k) = [num |-> Y(k), den |-> k]
  <2>1. k \in Nat /\ k >= 1 /\ Cardinality(days) >= k /\ D \subseteq Nat /\ IsFiniteSet(D)
    BY <1>1, <1>2 DEF D
  <2>2. Ma(prior, k)
          = [num |-> Total(ClosesOn(e, LastDays(D, k))), den |-> k]
    <3> HIDE DEF c
    <3>1. Ma(ClosesOn(c, days), k) = [num |-> Total(ClosesOn(e, LastDays(D, k))), den |-> k]
      BY <1>1, <1>4, <2>1, AverageIsTrue
    <3> QED
      BY <3>1
  <2>3. DaysUpTo(t, m, k) = LastDays(D, k)
    BY <1>11 DEF DaysUpTo
  <2> QED
    BY <2>2, <2>3
<1> DEFINE a == Ma(Append(prior, last), Fast)
           b == Ma(Append(prior, last), Slow)
           ya == Ma(prior, Fast)
           yb == Ma(prior, Slow)
<1>13. Fires(prior, last) <=> CrossAbove(a, b, ya, yb)
  BY DEF Fires
<1>14. TrueCross(t, d, last) <=>
         A(Fast) * Slow > A(Slow) * Fast /\ ~(Y(Fast) * Slow > Y(Slow) * Fast)
  BY DEF TrueCross, TrueSum, e, new, D
<1>15. /\ a = [num |-> A(Fast), den |-> Fast] /\ b = [num |-> A(Slow), den |-> Slow]
       /\ ya = [num |-> Y(Fast), den |-> Fast] /\ yb = [num |-> Y(Slow), den |-> Slow]
  BY <1>10, <1>12
<1> HIDE DEF a, b, ya, yb, A, Y, prior, m
<1>16. a # None /\ b # None /\ ya # None /\ yb # None
  BY <1>1, <1>15 DEF None
<1>17. /\ Gt(a, b) <=> A(Fast) * Slow > A(Slow) * Fast
       /\ Gt(ya, yb) <=> Y(Fast) * Slow > Y(Slow) * Fast
  BY <1>15 DEF Gt
<1>18. Fires(prior, last) <=> TrueCross(t, d, last)
  BY <1>13, <1>14, <1>16, <1>17 DEF CrossAbove
<1> QED
  BY <1>18 DEF prior

-----------------------------------------------------------------------------
(* Theorems *)

\* The inductive invariant holds whatever the market, the failures and the
\* restarts do (quote_watcher/feeds/kline_cache.py).
THEOREM Invariance == ASSUME BarsConstantsOK PROVE Spec => []IInv
<1>1. Init => IInv
  BY InitIInv
<1>2. IInv /\ [Next]_vars => IInv'
  BY NextIInv
<1> QED
  BY <1>1, <1>2, PTL DEF Spec

\* Quotes are prices the tickers trade at; bars and answers are integers on
\* trading days, closes as they were traded or as rights adjusted them, whatever
\* is merged into the table and when (upsert_many).
THEOREM TypeCorrect == ASSUME BarsConstantsOK, RightsOK PROVE Spec => []TypeOK
<1>1. Init => PriceType
  BY InitTyped
<1>2. IInv /\ PriceType /\ [Next]_vars => PriceType'
  BY NextTyped
<1>3. IInv /\ PriceType => TypeOK
  <2> SUFFICES ASSUME IInv, PriceType PROVE TypeOK
    OBVIOUS
  <2> QED
    BY DEF IInv, MarketInv, ProcInv, PriceType, TypeOK
<1> QED
  BY <1>1, <1>2, <1>3, Invariance, PTL DEF Spec

\* A stored bar that differs from the close akshare shows for its day now was
\* last loaded on that day itself, or so late that the day was not asked for, or
\* before the ticker last went ex a right (DailyKlineCache.load_for, upsert_many,
\* adjust="qfq").
THEOREM WrongCloseIsExplainedHolds ==
  ASSUME BarsConstantsOK PROVE Spec => []WrongCloseIsExplained
<1>1. IInv => WrongCloseIsExplained
  BY DEF IInv, BarsInv, WrongCloseIsExplained
<1> QED
  BY <1>1, Invariance, PTL

\* After a warm-up that stored something for it, a ticker's bars reach the start
\* of the process, or its table was full and nothing was asked (DailyKlineCache).
THEOREM LoadReachesHolds == ASSUME BarsConstantsOK PROVE Spec => []LoadReaches
<1>1. IInv => LoadReaches
  BY DEF IInv, ProcInv, LoadInv, Reaches, LoadReaches
<1> QED
  BY <1>1, Invariance, PTL

\* A ticker locked at its limit is reported as such, from a previous close of
\* five yuan on (is_limit_up and is_limit_down of build_context).
THEOREM LimitsAreSeenHolds == ASSUME ScanConstantsOK PROVE Spec => []LimitsAreSeen
<1>1. LimitsAreSeen
  BY LimitSeenFromFive DEF LimitsAreSeen, ScanConstantsOK
<1> QED
  BY <1>1, PTL

\* A higher price of the moment never lowers an indicator, whatever the closes
\* before it, the window and the spans of the MACD.
THEOREM IndicatorsFollowPriceHolds ==
  ASSUME IndicatorConstantsOK
  PROVE  Spec => []IndicatorsFollowPrice
<1>1. IndicatorsFollowPrice
  <2>1. ASSUME NEW prior \in Series, NEW p \in LastPrices, NEW q \in LastPrices, p < q
        PROVE  /\ \A n \in Windows : PriceMoves(prior, p, q, n)
               /\ \A m \in MacdSpans : PriceMovesMacd(prior, p, q, m[1], m[2], m[3])
    <3>1. prior \in Seq(Nat) /\ p \in Nat /\ q \in Nat /\ p <= q
      BY <2>1 DEF IndicatorConstantsOK
    <3>2. ASSUME NEW n \in Windows PROVE PriceMoves(prior, p, q, n)
      <4>1. n \in Nat
        BY DEF IndicatorConstantsOK
      <4> QED
        BY <3>1, <4>1, PriceMovesHold
    <3>3. ASSUME NEW m \in MacdSpans PROVE PriceMovesMacd(prior, p, q, m[1], m[2], m[3])
      <4>1. /\ m[1] \in Nat /\ m[2] \in Nat /\ m[1] <= m[2] /\ m[3] \in Nat \ {0}
        BY DEF IndicatorConstantsOK
      <4> QED
        BY <3>1, <4>1, MacdGrows
    <3> QED
      BY <3>2, <3>3
  <2> QED
    BY <2>1 DEF IndicatorsFollowPrice
<1> QED
  BY <1>1, PTL

\* The rows of a scan that may be listed are finitely many, each with its key.
LEMMA ScanRows ==
  ASSUME ScanConstantsOK, NEW rows \in SpotLists
  PROVE  /\ IsFiniteSet(DOMAIN rows) /\ DOMAIN rows \subseteq Nat
         /\ \A i \in DOMAIN rows : rows[i].pct \in Int /\ rows[i].ratio \in Int
<1>1. rows \in Seq([pct : Int, ratio : Nat \cup {NoRatio}])
  BY DEF ScanConstantsOK
<1> DEFINE R == [pct : Int, ratio : Nat \cup {NoRatio}]
<1>2. \A r \in R : r.pct \in Int /\ r.ratio \in Int
  BY DEF NoRatio
<1> HIDE DEF R
<1>3. Len(rows) \in Nat /\ DOMAIN rows = 1..Len(rows) /\ \A i \in 1..Len(rows) : rows[i] \in R
  BY <1>1, LenProperties, ElementOfSeq DEF R
<1>4. IsFiniteSet(1..Len(rows))
  BY <1>3, FS_Interval
<1> QED
  BY <1>2, <1>3, <1>4

\* One list of the scan.
LEMMA ListIsExtreme ==
  ASSUME NEW rows, NEW n \in Nat, NEW kept, kept \subseteq Nat, IsFiniteSet(kept),
         NEW key, \A i \in kept : key[i] \in Int,
         \A i, j \in kept : rows[i] = rows[j] => key[i] = key[j]
  PROVE  Extremes(Top(rows, n, kept, key), rows, n, kept, key)
BY TopIsExtreme DEF Extremes

\* push_top_n keeps the most extreme rows of each direction, and no row rises
\* and falls (rank_market).
THEOREM ScanListsExtremesHolds == ASSUME ScanConstantsOK PROVE Spec => []ScanListsExtremes
<1>1. ASSUME NEW rows \in SpotLists, NEW n \in TopNs
      PROVE  LET gainers == Gainers(rows, n, ScanThreshold)
                 losers == Losers(rows, n, ScanThreshold)
             IN /\ Extremes(gainers, rows, n, Rising(rows, ScanThreshold), Pct(rows))
                /\ Extremes(losers, rows, n, Falling(rows, ScanThreshold), MinusPct(rows))
                /\ Extremes(Volumes(rows, n, ScanThreshold), rows, n,
                            Traded(rows, ScanThreshold), Ratio(rows))
                /\ gainers \cap losers = {}
  <2> DEFINE rising == Rising(rows, ScanThreshold)
             falling == Falling(rows, ScanThreshold)
             traded == Traded(rows, ScanThreshold)
  <2>1. n \in Nat /\ ScanThreshold \in Nat
    BY DEF ScanConstantsOK
  <2>2. /\ IsFiniteSet(DOMAIN rows) /\ DOMAIN rows \subseteq Nat
        /\ \A i \in DOMAIN rows : rows[i].pct \in Int /\ rows[i].ratio \in Int
    BY ScanRows
  <2>3. ASSUME NEW kept, kept \subseteq DOMAIN rows
        PROVE  IsFiniteSet(kept) /\ kept \subseteq Nat
    BY <2>2, <2>3, FS_Subset
  <2>4. rising \subseteq DOMAIN rows /\ falling \subseteq DOMAIN rows /\ traded \subseteq DOMAIN rows
    BY DEF Rising, Falling, Traded
  <2>5. ASSUME NEW i \in rising, NEW j \in falling PROVE rows[i] # rows[j]
    <3>1. /\ i \in DOMAIN rows /\ rows[i].pct > ScanThreshold
          /\ j \in DOMAIN rows /\ rows[j].pct < -ScanThreshold
      BY <2>5 DEF Rising, Falling
    <3>2. rows[i].pct \in Int /\ rows[j].pct \in Int
      BY <2>2, <3>1
    <3>3. rows[i].pct # rows[j].pct
      BY <2>1, <3>1, <3>2
    <3> QED
      BY <3>3
  <2> HIDE DEF rising, falling, traded
  <2>6. Extremes(Top(rows, n, rising, Pct(rows)), rows, n, rising, Pct(rows))
    <3>1. /\ \A i \in rising : Pct(rows)[i] \in Int
          /\ \A i, j \in rising : rows[i] = rows[j] => Pct(rows)[i] = Pct(rows)[j]
      BY <2>2, <2>4 DEF Pct
    <3> QED
      BY <2>1, <2>3, <2>4, <3>1, ListIsExtreme
  <2>7. Extremes(Top(rows, n, falling, MinusPct(rows)), rows, n, falling, MinusPct(rows))
    <3>1. /\ \A i \in falling : MinusPct(rows)[i] \in Int
          /\ \A i, j \in falling : rows[i] = rows[j] => MinusPct(rows)[i] = MinusPct(rows)[j]
      BY <2>2, <2>4 DEF MinusPct
    <3> QED
      BY <2>1, <2>3, <2>4, <3>1, ListIsExtreme
  <2>8. Extremes(Top(rows, n, traded, Ratio(rows)), rows, n, traded, Ratio(rows))
    <3>1. /\ \A i \in traded : Ratio(rows)[i] \in Int
          /\ \A i, j \in traded : rows[i] = rows[j] => Ratio(rows)[i] = Ratio(rows)[j]
      BY <2>2, <2>4 DEF Ratio
    <3> QED
      BY <2>1, <2>3, <2>4, <3>1, ListIsExtreme
  <2>9. Top(rows, n, rising, Pct(rows)) \cap Top(rows, n, falling, MinusPct(rows)) = {}
    BY <2>5 DEF Top
  <2> QED
    BY <2>6, <2>7, <2>8, <2>9 DEF Gainers, Losers, Volumes, rising, falling, traded
<1>2. ScanListsExtremes
  BY <1>1 DEF ScanListsExtremes
<1> QED
  BY <1>2, PTL

\* With the market's closes in the table, the rule fires, live as in a replay,
\* exactly when the moving averages of the market crossed since the last trading
\* day (Indicators, cross_above, preview_rules).
THEOREM CrossIsRealHolds == ASSUME BarsConstantsOK PROVE Spec => []CrossIsReal
<1>1. ASSUME IInv PROVE CrossIsReal
  <2>1. ASSUME NEW t \in Tickers, NEW d
        PROVE  DOMAIN closes[t] \subseteq Nat /\ IsFiniteSet(DaysBefore(t, d))
    <3>1. today \in Nat /\ DaysInv(t) /\ DOMAIN closes[t] \subseteq Nat
      BY <1>1 DEF IInv, MarketInv, DaysInv
    <3>2. DaysBefore(t, d) \subseteq 0..today
      BY <3>1 DEF DaysInv, DaysBefore
    <3> QED
      <4>1. today \in Int /\ 0 \in Int
        BY <3>1
      <4>2. IsFiniteSet(0..today)
        BY <4>1, FS_Interval
      <4> QED
        BY <3>1, <3>2, <4>2, FS_Subset
  <2>2. ASSUME NEW t \in Tickers, Clean(t, RecentDays(t, BarDays), today)
        PROVE  RuleFires(t) <=> TrueCross(t, today, snaps[t])
    <3>1. today \in Nat
      BY <1>1 DEF IInv, MarketInv
    <3>2. Fires(ClosesOn(table[t], RecentDays(t, BarDays)), snaps[t])
            <=> TrueCross(t, today, snaps[t])
      BY <2>1, <2>2, <3>1, FiresIsTrue
    <3> QED
      BY <3>2 DEF RuleFires, Bars
  <2>3. ASSUME NEW t \in Tickers, NEW d \in DOMAIN closes[t],
               Clean(t, StoredBefore(t, d), d), table[t][d] = closes[t][d]
        PROVE  ReplayFires(t, d) <=> TrueCross(t, d, closes[t][d])
    <3>1. d \in Nat
      BY <1>1 DEF IInv, DaysInv
    <3>2. Fires(ClosesOn(table[t], StoredBefore(t, d)), closes[t][d])
            <=> TrueCross(t, d, closes[t][d])
      BY <2>1, <2>3, <3>1, FiresIsTrue
    <3> QED
      BY <2>3, <3>2 DEF ReplayFires
  <2> QED
    BY <2>2, <2>3 DEF CrossIsReal
<1> QED
  BY <1>1, Invariance, PTL
=============================================================================
