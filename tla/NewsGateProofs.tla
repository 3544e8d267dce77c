--------------------------- MODULE NewsGateProofs ---------------------------
(***************************************************************************)
(* Theorems about NewsGate: what the daily ceiling and its warning are     *)
(* worth, and what the rules find in an article and make of it, for any    *)
(* prices, lengths of the day, articles and watchlists.                    *)
(***************************************************************************)
EXTENDS NewsGate, SequenceTheorems, TLAPS

-----------------------------------------------------------------------------
(* The inductive invariant *)

PCs == {"idle", "check", "judge"} \cup Tiers

MoneyType ==
  /\ clock \in 0..MaxClock
  /\ total \in [Days -> Nat] /\ billed \in [Days -> Nat]
  /\ lives \in [Days -> Nat] /\ warnings \in [Days -> Nat]
  /\ warned \subseteq Days
  /\ job.pc \in PCs
  /\ list = None => job.pc = "idle"

Alive(d) == list # None /\ d = Day(clock)

\* What one process may spend on a day.
PerLife == Ceiling - 1 + 2 * MaxCost

\* What the total of today is at most, by where the current article is: an
\* article that came over from yesterday finds an empty total.
Bound(pc) ==
  IF pc = "tier0" THEN Ceiling - 1
  ELSE IF pc \in {"tier1", "tier2"} THEN Ceiling - 1 + MaxCost ELSE PerLife

\* The lives that are over have spent their share; the present one has spent
\* what its total says.
LifeOK(d) ==
  /\ d > Day(clock) =>
       total[d] = 0 /\ billed[d] = 0 /\ lives[d] = 0 /\ warnings[d] = 0
  /\ list = None => total[d] = 0
  /\ ~Alive(d) => billed[d] <= lives[d] * PerLife
  /\ Alive(d) => /\ lives[d] >= 1 /\ total[d] <= Bound(job.pc)
                 /\ billed[d] <= (lives[d] - 1) * PerLife + total[d]

\* How much the recorded calls may have added to the total of the last check.
Slack(pc) ==
  IF pc = "tier0" THEN 0 ELSE IF pc \in {"tier1", "tier2"} THEN MaxCost ELSE 2 * MaxCost

WarnOK(d) ==
  /\ 10 * (total[d] - 2 * MaxCost) >= 8 * Ceiling => d \in warned
  /\ Alive(d) /\ 10 * (total[d] - Slack(job.pc)) >= 8 * Ceiling => d \in warned
  /\ warnings[d] <= lives[d]
  /\ Alive(d) /\ d \notin warned => warnings[d] <= lives[d] - 1

IInv == MoneyType /\ \A d \in Days : LifeOK(d) /\ WarnOK(d)

-----------------------------------------------------------------------------
(* Lemmas *)

\* The dearest call.
LEMMA MaxCostFacts ==
  ASSUME GateConstantsOK
  PROVE  MaxCost \in Nat /\ \A c \in CallCosts : c \in Nat /\ c <= MaxCost
BY DEF GateConstantsOK, MaxCost, Max

\* Later is on the same day or on a later one.
LEMMA DayMonotone ==
  ASSUME GateConstantsOK, NEW a \in Nat, NEW b \in Nat, a <= b
  PROVE  Day(a) \in Nat /\ Day(b) \in Nat /\ Day(a) <= Day(b)
BY DEF GateConstantsOK, Day

LEMMA DayInDays ==
  ASSUME GateConstantsOK, NEW a \in 0..MaxClock
  PROVE  Day(a) \in Days /\ Days \subseteq Nat
<1>1. MaxClock \in Nat /\ a \in Nat /\ a <= MaxClock
  BY DEF GateConstantsOK
<1> QED
  BY <1>1, DayMonotone DEF Days

\* One life more is one share more.
LEMMA Shares ==
  ASSUME NEW n \in Nat, NEW k \in Int
  PROVE  /\ (n + 1) * k = n * k + k /\ n * k \in Int
         /\ (n - 1) * k + k = n * k /\ (n - 1) * k \in Int
OBVIOUS

LEMMA Numbers ==
  ASSUME GateConstantsOK
  PROVE  /\ Ceiling \in Nat /\ Ceiling >= 1 /\ MaxCost \in Nat /\ PerLife \in Nat
         /\ \A pc \in PCs : Bound(pc) \in Nat /\ Bound(pc) <= PerLife
                            /\ Slack(pc) \in Nat /\ Slack(pc) <= 2 * MaxCost
BY MaxCostFacts DEF GateConstantsOK, PerLife, Bound, Slack

LEMMA Facts ==
  ASSUME GateConstantsOK, IInv
  PROVE  /\ clock \in Nat /\ Day(clock) \in Days /\ Days \subseteq Nat
         /\ \A d \in Days : /\ total[d] \in Nat /\ billed[d] \in Nat
                            /\ lives[d] \in Nat /\ warnings[d] \in Nat
                            /\ LifeOK(d) /\ WarnOK(d)
BY DayInDays DEF IInv, MoneyType

-----------------------------------------------------------------------------
(* The steps *)

LEMMA InitIInv ==
  ASSUME GateConstantsOK, Init
  PROVE  IInv
<1> USE DEF Init, NoTotals, Idle
<1>1. 0 \in 0..MaxClock
  BY DEF GateConstantsOK
<1>2. MoneyType
  BY <1>1 DEF MoneyType, PCs
<1>3. \A d \in Days : LifeOK(d)
  BY Numbers, Shares DEF LifeOK, Alive
<1>4. \A d \in Days : WarnOK(d)
  BY Numbers DEF WarnOK, Alive
<1> QED
  BY <1>2, <1>3, <1>4 DEF IInv

\* Midnight: the present life becomes a life of the new day as well.
LEMMA TickStep ==
  ASSUME GateConstantsOK, IInv, Tick
  PROVE  IInv'
<1> USE DEF memory
<1>1. /\ clock \in Nat /\ clock' = clock + 1 /\ clock' \in 0..MaxClock
      /\ UNCHANGED <<list, total, warned, job, billed, warnings>>
  BY DEF Tick, IInv, MoneyType, GateConstantsOK
<1>2. Day(clock) <= Day(clock') /\ Day(clock) \in Days /\ Day(clock') \in Days
  <2>1. Day(clock') \in Days
    BY <1>1, DayInDays
  <2>2. clock' \in Nat /\ clock <= clock'
    BY <1>1
  <2> QED
    BY <1>1, <2>1, <2>2, DayMonotone, Facts
<1>3. lives' = IF list # None /\ Day(clock') # Day(clock)
               THEN [lives EXCEPT ![Day(clock')] = @ + 1] ELSE lives
  BY <1>1 DEF Tick
<1>4. MoneyType'
  BY <1>1, <1>2, <1>3 DEF IInv, MoneyType
<1>5. ASSUME NEW d \in Days PROVE LifeOK(d)' /\ WarnOK(d)'
  <2>1. /\ LifeOK(d) /\ WarnOK(d) /\ lives[d] \in Nat /\ billed[d] \in Nat
        /\ total[d] \in Nat /\ warnings[d] \in Nat /\ job.pc \in PCs /\ d \in Nat
    BY Facts DEF IInv, MoneyType
  <2>2. /\ (lives[d] + 1) * PerLife = lives[d] * PerLife + PerLife
        /\ (lives[d] - 1) * PerLife + PerLife = lives[d] * PerLife
        /\ lives[d] * PerLife \in Int /\ (lives[d] - 1) * PerLife \in Int
    BY <2>1, Numbers, Shares
  <2>3. /\ Bound(job.pc) \in Nat /\ Bound(job.pc) <= PerLife
        /\ Slack(job.pc) \in Nat /\ Slack(job.pc) <= 2 * MaxCost
        /\ Ceiling >= 1 /\ Ceiling \in Nat /\ PerLife \in Nat /\ MaxCost \in Nat
    BY <2>1, Numbers
  <2>4. CASE d = Day(clock') /\ d # Day(clock)
    <3>1. /\ total[d] = 0 /\ billed[d] = 0 /\ lives[d] = 0 /\ warnings[d] = 0
          /\ lives'[d] = IF list # None THEN 1 ELSE 0
      <4>1. d > Day(clock)
        BY <1>2, <2>4, Facts
      <4>2. total[d] = 0 /\ billed[d] = 0 /\ lives[d] = 0 /\ warnings[d] = 0
        BY <2>1, <4>1 DEF LifeOK
      <4>3. lives \in [Days -> Nat]
        BY DEF IInv, MoneyType
      <4> QED
        BY <1>3, <2>4, <4>2, <4>3
    <3>2. LifeOK(d)'
      <4>1. 0 * PerLife = 0 /\ (1 - 1) * PerLife = 0
        BY <2>3
      <4>2. CASE list = None
        BY <1>1, <2>3, <2>4, <3>1, <4>1, <4>2, Facts DEF LifeOK, Alive
      <4>3. CASE list # None
        BY <1>1, <2>3, <2>4, <3>1, <4>1, <4>3, Facts DEF LifeOK, Alive
      <4> QED
        BY <4>2, <4>3
    <3>3. WarnOK(d)'
      BY <1>1, <2>3, <2>4, <3>1 DEF WarnOK, Alive
    <3> QED
      BY <3>2, <3>3
  <2>5. CASE d # Day(clock') \/ d = Day(clock)
    <3>1. lives'[d] = lives[d]
      BY <1>2, <1>3, <2>5 DEF IInv, MoneyType
    <3>2. Alive(d)' => Alive(d)
      BY <1>1, <2>5 DEF Alive
    <3>3. LifeOK(d)'
      <4>1. d > Day(clock') => d > Day(clock)
        BY <1>2, Facts
      <4>2. ~Alive(d) => billed[d] <= lives[d] * PerLife
        BY <2>1 DEF LifeOK
      <4>3. Alive(d) => /\ lives[d] >= 1 /\ total[d] <= Bound(job.pc)
                        /\ billed[d] <= (lives[d] - 1) * PerLife + total[d]
                        /\ billed[d] <= lives[d] * PerLife
        BY <2>1, <2>2, <2>3 DEF LifeOK
      <4> QED
        BY <1>1, <2>1, <3>1, <3>2, <4>1, <4>2, <4>3 DEF LifeOK
    <3>4. WarnOK(d)'
      BY <1>1, <2>1, <2>3, <2>5, <3>1, <3>2 DEF WarnOK
    <3> QED
      BY <3>3, <3>4
  <2> QED
    BY <2>4, <2>5
<1> QED
  BY <1>4, <1>5 DEF IInv

\* A new life has an empty total.
LEMMA BootStep ==
  ASSUME GateConstantsOK, IInv, NEW w \in Watchlists, Boot(w)
  PROVE  IInv'
<1>1. /\ list = None /\ list' = w /\ w # None
      /\ lives' = [lives EXCEPT ![Day(clock)] = @ + 1]
      /\ UNCHANGED <<clock, total, warned, job, billed, warnings>>
  BY DEF Boot, GateConstantsOK
<1>2. Day(clock) \in Days /\ Day(clock)' = Day(clock) /\ lives \in [Days -> Nat]
      /\ job.pc \in PCs
  BY <1>1, Facts DEF IInv, MoneyType
<1>3. MoneyType'
  BY <1>1, <1>2 DEF IInv, MoneyType
<1>4. ASSUME NEW d \in Days PROVE LifeOK(d)' /\ WarnOK(d)'
  <2>1. /\ LifeOK(d) /\ WarnOK(d) /\ lives[d] \in Nat /\ billed[d] \in Nat
        /\ warnings[d] \in Nat /\ d \in Nat /\ Day(clock) \in Nat
    BY <1>2, Facts
  <2>2. total[d] = 0 /\ billed[d] <= lives[d] * PerLife /\ ~Alive(d)
    BY <1>1, <2>1 DEF LifeOK, Alive
  <2>3. /\ Bound(job.pc) \in Nat /\ Slack(job.pc) \in Nat
        /\ Ceiling >= 1 /\ Ceiling \in Nat /\ PerLife \in Nat /\ MaxCost \in Nat
    BY <1>2, Numbers
  <2>4. CASE d = Day(clock)
    <3>1. lives'[d] = lives[d] + 1 /\ Alive(d)'
      BY <1>1, <1>2, <2>4 DEF Alive
    <3>2. (lives'[d] - 1) * PerLife = lives[d] * PerLife
      BY <2>1, <2>3, <3>1
    <3>3. lives[d] * PerLife \in Int
      BY <2>1, <2>3, Shares
    <3>4. LifeOK(d)'
      BY <1>1, <1>2, <2>1, <2>2, <2>3, <2>4, <3>1, <3>2, <3>3 DEF LifeOK
    <3> QED
      BY <1>1, <2>1, <2>2, <2>3, <3>1, <3>4 DEF WarnOK
  <2>5. CASE d # Day(clock)
    <3>1. lives'[d] = lives[d] /\ ~Alive(d)'
      BY <1>1, <1>2, <2>5 DEF Alive
    <3> QED
      BY <1>1, <1>2, <2>1, <2>2, <3>1 DEF LifeOK, WarnOK
  <2> QED
    BY <2>4, <2>5
<1> QED
  BY <1>3, <1>4 DEF IInv

\* The end of a life leaves its share spent.
LEMMA CrashStep ==
  ASSUME GateConstantsOK, IInv, Crash
  PROVE  IInv'
<1>1. /\ list' = None /\ total' = NoTotals /\ warned' = {} /\ job'.pc = "idle"
      /\ UNCHANGED <<clock, billed, warnings, lives>>
  BY DEF Crash, Idle
<1>2. MoneyType'
  BY <1>1 DEF IInv, MoneyType, NoTotals, PCs
<1>3. ASSUME NEW d \in Days PROVE LifeOK(d)' /\ WarnOK(d)'
  <2>1. /\ LifeOK(d) /\ WarnOK(d) /\ lives[d] \in Nat /\ billed[d] \in Nat
        /\ total[d] \in Nat /\ warnings[d] \in Nat /\ job.pc \in PCs
        /\ d \in Nat /\ Day(clock) \in Nat /\ total'[d] = 0
    BY <1>1, Facts DEF IInv, MoneyType, NoTotals
  <2>2. /\ Bound(job.pc) \in Nat /\ Bound(job.pc) <= PerLife
        /\ Ceiling >= 1 /\ Ceiling \in Nat /\ PerLife \in Nat /\ MaxCost \in Nat
    BY <2>1, Numbers
  <2>3. /\ (lives[d] - 1) * PerLife + PerLife = lives[d] * PerLife
        /\ lives[d] * PerLife \in Int /\ (lives[d] - 1) * PerLife \in Int
    BY <2>1, <2>2, Shares
  <2>4. billed[d] <= lives[d] * PerLife
    BY <2>1, <2>2, <2>3 DEF LifeOK
  <2>5. Day(clock)' = Day(clock) /\ ~Alive(d)'
    BY <1>1 DEF Alive
  <2> QED
    BY <1>1, <2>1, <2>2, <2>4, <2>5 DEF LifeOK, WarnOK
<1> QED
  BY <1>2, <1>3 DEF IInv

\* A step that neither pays nor warns, and leaves the article no further calls
\* than it had.
LEMMA FateStep ==
  ASSUME GateConstantsOK, IInv, job'.pc \in PCs, list # None,
         Bound(job.pc) <= Bound(job'.pc), Slack(job.pc) <= Slack(job'.pc),
         UNCHANGED <<clock, list, total, warned, billed, warnings, lives>>
  PROVE  IInv'
<1>1. MoneyType'
  BY DEF IInv, MoneyType
<1>2. job.pc \in PCs
  BY DEF IInv, MoneyType
<1>3. ASSUME NEW d \in Days PROVE LifeOK(d)' /\ WarnOK(d)'
  <2>1. /\ LifeOK(d) /\ WarnOK(d) /\ total[d] \in Nat
        /\ Bound(job.pc) \in Nat /\ Bound(job'.pc) \in Nat
        /\ Slack(job.pc) \in Nat /\ Slack(job'.pc) \in Nat /\ Ceiling \in Nat
    BY <1>2, Facts, Numbers
  <2>2. Day(clock)' = Day(clock) /\ Alive(d)' = Alive(d)
    BY DEF Alive
  <2>3. LifeOK(d)'
    BY <2>1, <2>2 DEF LifeOK
  <2> QED
    BY <2>1, <2>2, <2>3 DEF WarnOK
<1> QED
  BY <1>1, <1>3 DEF IInv

LEMMA Resigned ==
  ASSUME GateConstantsOK, NEW pc \in PCs, NEW other \in {"idle", "check", "judge"}
  PROVE  /\ other \in PCs /\ Bound(pc) <= Bound(other) /\ Slack(pc) <= Slack(other)
         /\ Bound(other) = PerLife /\ Slack(other) = 2 * MaxCost
BY Numbers DEF Bound, Slack, PCs

LEMMA QuietStep ==
  ASSUME GateConstantsOK, IInv,
         \/ \E a \in Articles : Take(a)
         \/ Refuse \/ CallFails \/ JudgeFails \/ \E critical \in BOOLEAN : Judge(critical)
  PROVE  IInv'
<1>1. job.pc \in PCs /\ (job.pc # "idle" => list # None)
  BY DEF IInv, MoneyType
<1>2. UNCHANGED <<clock, list, total, warned, billed, warnings, lives>>
  BY DEF Take, Refuse, CallFails, JudgeFails, Judge, memory
<1>3. job'.pc \in {"idle", "check", "judge"}
  BY DEF Take, Refuse, CallFails, JudgeFails, Judge, Finish, Idle
<1>4. list # None
  BY <1>1 DEF Take, Refuse, CallFails, JudgeFails, Judge, Tiers
<1> QED
  BY <1>1, <1>2, <1>3, <1>4, Resigned, FateStep

\* The check: below the ceiling, and warned from 80 % of it on.
LEMMA AdmitStep ==
  ASSUME GateConstantsOK, IInv, Admit
  PROVE  IInv'
<1> DEFINE t == Day(clock)
<1>1. /\ job.pc = "check" /\ ~OverCeiling /\ list # None
      /\ job'.pc \in {"tier0", "tier1", "tier2"}
      /\ UNCHANGED <<clock, list, total, billed, lives>>
  BY DEF Admit, FirstTier, IInv, MoneyType
<1>2. /\ warned' = IF WarnDue THEN warned \cup {t} ELSE warned
      /\ warnings' = IF WarnDue /\ Sends("llm_cost_warn")
                     THEN [warnings EXCEPT ![t] = @ + 1] ELSE warnings
  BY DEF Admit
<1>3. /\ t \in Days /\ t \in Nat /\ Days \subseteq Nat /\ warned \subseteq Days
      /\ warnings \in [Days -> Nat] /\ total[t] \in Nat /\ LifeOK(t) /\ WarnOK(t)
      /\ lives[t] \in Nat
  BY Facts DEF IInv, MoneyType
<1>4. /\ Ceiling \in Nat /\ Ceiling >= 1 /\ MaxCost \in Nat
      /\ Bound(job'.pc) >= Ceiling - 1 /\ Bound(job'.pc) \in Nat
      /\ Slack(job'.pc) \in Nat /\ job'.pc \in PCs
  BY <1>1, Numbers DEF Bound, Slack, PCs, Tiers
<1>5. total[t] <= Ceiling - 1
  BY <1>1, <1>3, <1>4 DEF OverCeiling, TodayCost
<1>6. 10 * total[t] >= 8 * Ceiling => t \in warned'
  BY <1>2 DEF WarnDue, TodayCost
<1>7. /\ warned \subseteq warned' /\ warned' \subseteq Days
      /\ warnings' \in [Days -> Nat]
      /\ \A d \in Days \ {t} : warnings'[d] = warnings[d] /\ (d \in warned' => d \in warned)
      /\ warnings'[t] = warnings[t]
         \/ (t \notin warned /\ t \in warned' /\ warnings'[t] = warnings[t] + 1)
  <2>1. CASE WarnDue
    <3>1. t \notin warned /\ warned' = warned \cup {t}
      BY <1>2, <2>1 DEF WarnDue
    <3>2. warnings' = IF Sends("llm_cost_warn")
                     THEN [warnings EXCEPT ![t] = @ + 1] ELSE warnings
      BY <1>2, <2>1
    <3> HIDE DEF t
    <3>3. CASE Sends("llm_cost_warn")
      <4>1. /\ warnings' \in [Days -> Nat] /\ warnings'[t] = warnings[t] + 1
            /\ \A d \in Days \ {t} : warnings'[d] = warnings[d]
        BY <1>3, <3>2, <3>3
      <4> QED
        BY <1>3, <3>1, <4>1
    <3>4. CASE ~Sends("llm_cost_warn")
      BY <1>3, <3>1, <3>2, <3>4
    <3> QED
      BY <3>3, <3>4
  <2>2. CASE ~WarnDue
    BY <1>2, <1>3, <2>2
  <2> QED
    BY <2>1, <2>2
<1> HIDE DEF t
<1>8. MoneyType'
  BY <1>1, <1>4, <1>7 DEF IInv, MoneyType
<1>9. ASSUME NEW d \in Days PROVE LifeOK(d)' /\ WarnOK(d)'
  <2>1. /\ LifeOK(d) /\ WarnOK(d) /\ total[d] \in Nat /\ d \in Nat
        /\ lives[d] \in Nat /\ warnings[d] \in Nat
    BY Facts
  <2>2. Day(clock)' = t /\ Day(clock) = t /\ Alive(d)' = Alive(d) /\ (Alive(d) <=> d = t)
    BY <1>1 DEF Alive, t
  <2>3. LifeOK(d)'
    BY <1>1, <1>3, <1>4, <1>5, <1>7, <2>1, <2>2 DEF LifeOK
  <2>4. WarnOK(d)'
    <3>1. CASE d # t
      BY <1>1, <1>7, <2>1, <2>2, <3>1 DEF WarnOK
    <3>2. CASE d = t
      <4>1. 10 * (total[d] - Slack(job'.pc)) >= 8 * Ceiling => d \in warned'
        BY <1>4, <1>6, <2>1, <3>2
      <4>2. 10 * (total[d] - 2 * MaxCost) >= 8 * Ceiling => d \in warned'
        BY <1>4, <1>6, <2>1, <3>2
      <4>3. warnings'[d] <= lives[d] /\ (d \notin warned' => warnings'[d] <= lives[d] - 1)
        BY <1>7, <2>1, <2>2, <3>2 DEF WarnOK
      <4> QED
        BY <1>1, <4>1, <4>2, <4>3 DEF WarnOK
    <3> QED
      BY <3>1, <3>2
  <2> QED
    BY <2>3, <2>4
<1> QED
  BY <1>8, <1>9 DEF IInv

\* A call that is paid for: the article has one call less to make.
LEMMA RecordStep ==
  ASSUME GateConstantsOK, IInv, job.pc \in Tiers, NEW cost \in CallCosts,
         Record(job.pc, cost), job'.pc \in PCs \ {"tier0"},
         job.pc # "tier0" => job'.pc \notin Tiers,
         UNCHANGED <<clock, list, warned, warnings, lives>>
  PROVE  IInv'
<1> DEFINE t == Day(clock)
<1>1. /\ t \in Days /\ t \in Nat /\ Days \subseteq Nat
      /\ total \in [Days -> Nat] /\ billed \in [Days -> Nat] /\ list # None
      /\ job.pc \in PCs
  BY Facts DEF IInv, MoneyType, Tiers
<1>2. cost \in Nat /\ cost <= MaxCost /\ MaxCost \in Nat /\ Ceiling \in Nat /\ Ceiling >= 1
  BY MaxCostFacts, Numbers
<1>3. PICK paid \in {0, cost} : /\ total' = [total EXCEPT ![t] = @ + paid]
                                /\ billed' = [billed EXCEPT ![t] = @ + paid]
  <2>1. CASE ModelOf(job.pc) \in PricedModels
    BY <2>1 DEF Record
  <2>2. CASE ModelOf(job.pc) \notin PricedModels
    BY <1>1, <2>2 DEF Record
  <2> QED
    BY <2>1, <2>2
<1>4. paid \in Nat /\ paid <= MaxCost
  BY <1>2
<1>5. /\ total' \in [Days -> Nat] /\ billed' \in [Days -> Nat]
      /\ total'[t] = total[t] + paid /\ billed'[t] = billed[t] + paid
      /\ \A d \in Days \ {t} : total'[d] = total[d] /\ billed'[d] = billed[d]
  BY <1>1, <1>3, <1>4
<1>6. /\ Bound(job.pc) + MaxCost <= Bound(job'.pc)
      /\ Slack(job.pc) + MaxCost <= Slack(job'.pc)
      /\ Bound(job.pc) \in Nat /\ Bound(job'.pc) \in Nat
      /\ Slack(job.pc) \in Nat /\ Slack(job'.pc) \in Nat
  <2>1. /\ Bound(job.pc) \in Nat /\ Bound(job'.pc) \in Nat
        /\ Slack(job.pc) \in Nat /\ Slack(job'.pc) \in Nat
    BY <1>1, Numbers
  <2>2. CASE job.pc = "tier0"
    BY <1>2, <2>2 DEF Bound, Slack, PerLife
  <2>3. CASE job.pc \in {"tier1", "tier2"}
    BY <1>2, <2>3 DEF Bound, Slack, PerLife, Tiers
  <2> QED
    BY <2>1, <2>2, <2>3 DEF Tiers
<1> HIDE DEF t
<1>7. MoneyType'
  BY <1>1, <1>5 DEF IInv, MoneyType
<1>8. ASSUME NEW d \in Days PROVE LifeOK(d)' /\ WarnOK(d)'
  <2>1. /\ LifeOK(d) /\ WarnOK(d) /\ total[d] \in Nat /\ billed[d] \in Nat /\ d \in Nat
        /\ lives[d] \in Nat /\ warnings[d] \in Nat
    BY Facts
  <2>2. Day(clock)' = t /\ Day(clock) = t /\ Alive(d)' = Alive(d) /\ (Alive(d) <=> d = t)
    BY <1>1 DEF Alive, t
  <2>3. CASE d # t
    BY <1>1, <1>5, <2>1, <2>2, <2>3 DEF LifeOK, WarnOK
  <2>4. CASE d = t
    <3>1. (lives[d] - 1) * PerLife \in Int
      BY <2>1, Numbers, Shares
    <3>2. total'[d] = total[d] + paid /\ billed'[d] = billed[d] + paid
      BY <1>5, <2>4
    <3>3. LifeOK(d)'
      <4>1. Alive(d) /\ lives'[d] = lives[d] /\ list' # None
        BY <1>1, <2>2, <2>4
      <4>2. /\ lives[d] >= 1 /\ total[d] <= Bound(job.pc)
            /\ billed[d] <= (lives[d] - 1) * PerLife + total[d]
        BY <2>1, <4>1 DEF LifeOK
      <4>3. total'[d] <= Bound(job'.pc)
        BY <1>2, <1>4, <1>6, <2>1, <3>2, <4>2
      <4>4. billed'[d] <= (lives[d] - 1) * PerLife + total'[d]
        BY <1>4, <2>1, <3>1, <3>2, <4>2
      <4>5. ~(d > Day(clock)')
        BY <1>1, <2>2, <2>4
      <4>6. Alive(d)'
        BY <2>2, <4>1
      <4> QED
        BY <4>1, <4>2, <4>3, <4>4, <4>5, <4>6 DEF LifeOK
    <3>4. Slack(job'.pc) <= 2 * MaxCost
      BY Numbers
    <3>5. WarnOK(d)'
      BY <1>2, <1>4, <1>6, <2>1, <2>2, <2>4, <3>2, <3>4 DEF WarnOK
    <3> QED
      BY <3>3, <3>5
  <2> QED
    BY <2>3, <2>4
<1> QED
  BY <1>7, <1>8 DEF IInv

LEMMA AnsweredStep ==
  ASSUME GateConstantsOK, IInv, NEW cost \in CallCosts,
         \/ CallUseless(cost)
         \/ \E relevant, deep \in BOOLEAN : Classify(relevant, deep, cost)
         \/ \E ans \in Answers : Extract(ans, cost)
  PROVE  IInv'
<1>1. CASE CallUseless(cost)
  <2>1. job'.pc = "idle"
    BY <1>1 DEF CallUseless, Finish, Idle
  <2> QED
    BY <1>1, <2>1, RecordStep DEF CallUseless, PCs, Tiers
<1>2. ASSUME NEW relevant \in BOOLEAN, NEW deep \in BOOLEAN,
             Classify(relevant, deep, cost)
      PROVE  IInv'
  <2>1. job'.pc \in {"idle", "tier1", "tier2"}
    BY <1>2 DEF Classify, Decide, Finish, Idle
  <2>2. job.pc = "tier0" /\ Record(job.pc, cost)
    BY <1>2 DEF Classify
  <2> QED
    BY <1>2, <2>1, <2>2, RecordStep DEF Classify, PCs, Tiers
<1>3. ASSUME NEW ans \in Answers, Extract(ans, cost)
      PROVE  IInv'
  <2>1. job'.pc \in {"idle", "judge"}
    BY <1>3 DEF Extract, Finish, Idle
  <2> QED
    BY <1>3, <2>1, RecordStep DEF Extract, PCs, Tiers
<1> QED
  BY <1>1, <1>2, <1>3

LEMMA NextIInv ==
  ASSUME GateConstantsOK, IInv, [Next]_vars
  PROVE  IInv'
<1>1. CASE UNCHANGED vars
  <2>1. UNCHANGED <<clock, list, total, warned, job, billed, warnings, lives>>
    BY <1>1 DEF vars, memory, history
  <2> QED
    BY <2>1 DEF IInv, MoneyType, LifeOK, WarnOK, Alive
<1>2. CASE Tick \/ Crash
  BY <1>2, TickStep, CrashStep
<1>3. ASSUME NEW w \in Watchlists, Boot(w) PROVE IInv'
  BY <1>3, BootStep
<1>4. CASE Admit
  BY <1>4, AdmitStep
<1>5. CASE \/ \E a \in Articles : Take(a)
           \/ Refuse \/ CallFails \/ JudgeFails
           \/ \E critical \in BOOLEAN : Judge(critical)
  BY <1>5, QuietStep
<1>6. CASE \E c \in CallCosts :
             \/ CallUseless(c)
             \/ \E relevant, deep \in BOOLEAN : Classify(relevant, deep, c)
             \/ \E ans \in Answers : Extract(ans, c)
  BY <1>6, AnsweredStep
<1> QED
  BY <1>1, <1>2, <1>3, <1>4, <1>5, <1>6 DEF Next, Step, Answered

-----------------------------------------------------------------------------
(* The verdict on an article *)

\* How an article ends when no model is asked.
TakenFate(w, a) ==
  LET v == VerdictOf[w][a]
      zone == Zone(Score(SynthEnriched, a.source, v.boost))
  IN IF w.rules /\ ~v.matched THEN "skipped_rules"
     ELSE IF zone = "gray" THEN GrayFate(w.action) ELSE zone

\* The verdict at hand is that of the watchlist in force on the article at hand.
SeenInv ==
  /\ list # None => list \in Watchlists /\ Valid(list)
  /\ job.pc = "check" =>
       list # None /\ \E a \in Articles : job.art = a /\ job.verdict = VerdictOf[list][a]
  /\ \/ last.art = NoArticle /\ last.verdict = NoVerdict
     \/ /\ list # None
        /\ \E a \in Articles :
             last = [fate |-> TakenFate(list, a), art |-> a, verdict |-> VerdictOf[list][a]]

LEMMA PatternFields ==
  ASSUME NEW text, NEW kind, NEW m, NEW owner
  PROVE  LET p == Pattern(text, kind, m, owner)
         IN p.text = Lower(text) /\ p.english = IsAscii(text) /\ p.kind = kind
            /\ p.market = m /\ p.owner = owner
BY DEF Pattern

\* The patterns of the three kinds that name tickers.
LEMMA PatternKinds ==
  ASSUME NEW w, NEW p
  PROVE  /\ p \in Patterns(w) /\ p.kind = "ticker" <=>
              \E m \in WatchMarkets : \E e \in w.entries[m] :
                \E n \in {e.ticker} \cup e.names : p = Pattern(n, "ticker", m, e.ticker)
         /\ p \in Patterns(w) /\ p.kind = "sector" <=>
              \E m \in WatchMarkets : \E k \in w.sectors[m] : p = Pattern(k, "sector", m, k)
         /\ p \in Patterns(w) /\ p.kind = "macro" <=>
              \E m \in WatchMarkets : \E k \in w.macros[m] : p = Pattern(k, "macro", m, k)
<1>1. p \in Patterns(w) <=> \E m \in WatchMarkets : p \in MarketPatterns(w, m)
  BY DEF Patterns
<1>2. \A e, m : p \in EntryPatterns(e, m) <=>
        \E n \in {e.ticker} \cup e.names : p = Pattern(n, "ticker", m, e.ticker)
  BY DEF EntryPatterns
<1>3. ASSUME NEW m
      PROVE  p \in TickerPatterns(w, m) <=>
               \E e \in w.entries[m] :
                 \E n \in {e.ticker} \cup e.names : p = Pattern(n, "ticker", m, e.ticker)
  BY <1>2 DEF TickerPatterns
<1>4. ASSUME NEW m, NEW texts, NEW kind
      PROVE  p \in Keywords(texts, kind, m) <=> \E k \in texts : p = Pattern(k, kind, m, k)
  BY DEF Keywords
<1>5. \A n, kind, m, owner : p = Pattern(n, kind, m, owner) => p.kind = kind
  BY DEF Pattern
<1>6. ASSUME NEW m
      PROVE  /\ p \in MarketPatterns(w, m) /\ p.kind = "ticker" <=> p \in TickerPatterns(w, m)
             /\ p \in MarketPatterns(w, m) /\ p.kind = "sector" <=> p \in Keywords(w.sectors[m], "sector", m)
             /\ p \in MarketPatterns(w, m) /\ p.kind = "macro" <=> p \in Keywords(w.macros[m], "macro", m)
  <2>1. p \in TickerPatterns(w, m) => p.kind = "ticker"
    BY <1>3, <1>5
  <2>2. /\ p \in Keywords(w.sectors[m], "sector", m) => p.kind = "sector"
        /\ p \in Keywords(w.macros[m], "macro", m) => p.kind = "macro"
        /\ p \in Keywords(w.generic[m], "generic", m) => p.kind = "generic"
    BY <1>4, <1>5
  <2> QED
    BY <2>1, <2>2 DEF MarketPatterns
<1>7. p \in Patterns(w) /\ p.kind = "ticker" <=> \E m \in WatchMarkets : p \in TickerPatterns(w, m)
  BY <1>1, <1>6
<1>8. p \in Patterns(w) /\ p.kind = "sector" <=>
        \E m \in WatchMarkets : p \in Keywords(w.sectors[m], "sector", m)
  BY <1>1, <1>6
<1>9. p \in Patterns(w) /\ p.kind = "macro" <=>
        \E m \in WatchMarkets : p \in Keywords(w.macros[m], "macro", m)
  BY <1>1, <1>6
<1> QED
  BY <1>3, <1>4, <1>7, <1>8, <1>9

\* Two spellings with the same lower case are both English, or neither is.
LEMMA SameSpelling ==
  ASSUME CaseKeepsAscii, NEW s \in Texts, NEW t \in Texts, Lower(s) = Lower(t)
  PROVE  IsAscii(s) = IsAscii(t)
<1>1. DOMAIN s = DOMAIN t /\ \A i \in DOMAIN s : LowerCase[s[i]] = LowerCase[t[i]]
  <2>1. DOMAIN Lower(s) = DOMAIN s /\ DOMAIN Lower(t) = DOMAIN t
    BY DEF Lower
  <2>2. \A i \in DOMAIN s : Lower(s)[i] = LowerCase[s[i]]
    BY DEF Lower
  <2>3. \A i \in DOMAIN t : Lower(t)[i] = LowerCase[t[i]]
    BY DEF Lower
  <2> QED
    BY <2>1, <2>2, <2>3
<1>2. \A i \in DOMAIN s : s[i] \in DOMAIN LowerCase
  BY DEF Texts
<1>3. \A i \in DOMAIN t : t[i] \in DOMAIN LowerCase
  BY DEF Texts
<1>4. \A i \in DOMAIN s : s[i] \in Ascii <=> t[i] \in Ascii
  BY <1>1, <1>2, <1>3 DEF CaseKeepsAscii
<1> QED
  BY <1>1, <1>4 DEF IsAscii

\* Patterns that are spelt alike are found alike.
LEMMA FoundAlike ==
  ASSUME NEW P, NEW raw, NEW p \in FindAll(P, raw), NEW q \in P,
         q.text = p.text, q.english = p.english
  PROVE  q \in FindAll(P, raw)
BY DEF FindAll

\* What a matched keyword of a market relates to is watched in the markets of
\* the hits: the entries that name it are of a market that lists it.
LEMMA MatchNamed ==
  ASSUME TextsOK, CaseKeepsAscii, NEW w \in Watchlists, Valid(w), NEW a \in Articles,
         NEW t \in Match(w, a).tickers \cup Match(w, a).related
  PROVE  \E m \in Match(w, a).markets : \E e \in w.entries[m] : e.ticker = t
<1> DEFINE hits == FindAll(Patterns(w), ArticleText(a))
           sectors == {p.text : p \in {q \in hits : q.kind = "sector"}}
           macros == {p.text : p \in {q \in hits : q.kind = "macro"}}
           Named(m) == \E e \in w.entries[m] : e.ticker = t
<1>1. hits \subseteq Patterns(w)
  BY DEF FindAll
<1>2. Match(w, a).markets = {p.market : p \in hits}
  BY DEF Match
<1>3. SUFFICES \E p \in hits : Named(p.market)
  BY <1>2
<1>4. \/ t \in {p.owner : p \in {q \in hits : q.kind = "ticker"}}
      \/ \E s \in sectors : t \in SectorToTickers(w, s)
      \/ \E s \in macros : t \in MacroToTickers(w, s)
  BY DEF Match
<1> HIDE DEF hits
<1>5. CASE t \in {p.owner : p \in {q \in hits : q.kind = "ticker"}}
  <2>1. PICK p \in hits : p.kind = "ticker" /\ p.owner = t
    BY <1>5
  <2>2. PICK m \in WatchMarkets : \E e \in w.entries[m] :
          \E n \in {e.ticker} \cup e.names : p = Pattern(n, "ticker", m, e.ticker)
    BY <1>1, <2>1, PatternKinds
  <2>3. \E e \in w.entries[m] : p.market = m /\ p.owner = e.ticker
    BY <2>2, PatternFields
  <2> QED
    BY <2>1, <2>3
<1>6. ASSUME NEW s \in sectors, t \in SectorToTickers(w, s)
      PROVE  \E p \in hits : Named(p.market)
  <2>1. PICK p \in hits : p.kind = "sector" /\ p.text = s
    BY <1>6
  <2>2. PICK n \in WatchMarkets : \E k \in w.sectors[n] : p = Pattern(k, "sector", n, k)
    BY <1>1, <2>1, PatternKinds
  <2>0. PICK k \in w.sectors[n] : p = Pattern(k, "sector", n, k)
    BY <2>2
  <2>3. PICK e \in Entries(w) : e.ticker = t /\ \E x \in e.sectors : Lower(x) = s
    BY <1>6 DEF SectorToTickers
  <2>4. PICK m \in WatchMarkets : e \in w.entries[m]
    BY <2>3 DEF Entries
  <2>5. PICK x \in e.sectors : Lower(x) = s
    BY <2>3
  <2>6. x \in w.sectors[m] /\ x \in Texts /\ k \in Texts
    BY <2>0, <2>4, <2>5 DEF Valid, SectorMacroRefsValid, TextsOK
  <2> DEFINE q == Pattern(x, "sector", m, x)
  <2>7. q \in Patterns(w) /\ q.market = m /\ q.text = p.text /\ q.english = p.english
    BY <2>0, <2>1, <2>4, <2>5, <2>6, PatternKinds, PatternFields, SameSpelling
  <2> HIDE DEF q
  <2>8. q \in hits
    BY <2>7, FoundAlike DEF hits
  <2> QED
    BY <2>3, <2>4, <2>7, <2>8
<1>7. ASSUME NEW s \in macros, t \in MacroToTickers(w, s)
      PROVE  \E p \in hits : Named(p.market)
  <2>1. PICK p \in hits : p.kind = "macro" /\ p.text = s
    BY <1>7
  <2>2. PICK n \in WatchMarkets : \E k \in w.macros[n] : p = Pattern(k, "macro", n, k)
    BY <1>1, <2>1, PatternKinds
  <2>0. PICK k \in w.macros[n] : p = Pattern(k, "macro", n, k)
    BY <2>2
  <2>3. PICK e \in Entries(w) : e.ticker = t /\ \E x \in e.macros : Lower(x) = s
    BY <1>7 DEF MacroToTickers
  <2>4. PICK m \in WatchMarkets : e \in w.entries[m]
    BY <2>3 DEF Entries
  <2>5. PICK x \in e.macros : Lower(x) = s
    BY <2>3
  <2>6. x \in w.macros[m] /\ x \in Texts /\ k \in Texts
    BY <2>0, <2>4, <2>5 DEF Valid, SectorMacroRefsValid, TextsOK
  <2> DEFINE q == Pattern(x, "macro", m, x)
  <2>7. q \in Patterns(w) /\ q.market = m /\ q.text = p.text /\ q.english = p.english
    BY <2>0, <2>1, <2>4, <2>5, <2>6, PatternKinds, PatternFields, SameSpelling
  <2> HIDE DEF q
  <2>8. q \in hits
    BY <2>7, FoundAlike DEF hits
  <2> QED
    BY <2>3, <2>4, <2>7, <2>8
<1> QED
  BY <1>4, <1>5, <1>6, <1>7

-----------------------------------------------------------------------------
(* The steps towards what a verdict says *)

LEMMA FrameSeen ==
  ASSUME SeenInv, job'.pc # "check" \/ job' = job, UNCHANGED <<list, last>>
  PROVE  SeenInv'
BY DEF SeenInv

LEMMA FinishSeen ==
  ASSUME SeenInv, job'.pc # "check", UNCHANGED list, NEW fate, last' = Fated(fate)
  PROVE  SeenInv'
BY DEF SeenInv, Fated

LEMMA TakeSeen ==
  ASSUME SeenInv, NEW a \in Articles, Take(a)
  PROVE  SeenInv'
<1> DEFINE v == VerdictOf[list][a]
           zone == Zone(Score(SynthEnriched, a.source, v.boost))
<1>1. list # None /\ list' = list
  BY DEF Take, memory
<1>2. CASE list.rules /\ ~v.matched
  <2>1. last' = [fate |-> "skipped_rules", art |-> a, verdict |-> v] /\ job' = Idle
    BY <1>2 DEF Take
  <2>2. TakenFate(list, a) = "skipped_rules"
    BY <1>2 DEF TakenFate
  <2> QED
    BY <1>1, <2>1, <2>2 DEF SeenInv, Idle
<1>3. CASE ~(list.rules /\ ~v.matched) /\ list.llm
  <2>1. last' = NoFate /\ job' = [pc |-> "check", art |-> a, verdict |-> v]
    BY <1>3 DEF Take
  <2> QED
    BY <1>1, <2>1 DEF SeenInv, NoFate, Fated
<1>4. CASE ~(list.rules /\ ~v.matched) /\ ~list.llm
  <2>1. /\ last' = [fate |-> IF zone = "gray" THEN GrayFate(list.action) ELSE zone,
                    art |-> a, verdict |-> v]
        /\ job' = Idle
    BY <1>4 DEF Take
  <2>2. TakenFate(list, a) = IF zone = "gray" THEN GrayFate(list.action) ELSE zone
    BY <1>4 DEF TakenFate
  <2> HIDE DEF zone, v
  <2>3. last' = [fate |-> TakenFate(list, a), art |-> a, verdict |-> v]
    BY <2>1, <2>2
  <2> QED
    BY <1>1, <2>1, <2>3 DEF SeenInv, Idle, v
<1> QED
  BY <1>2, <1>3, <1>4

LEMMA NextSeen ==
  ASSUME SeenInv, [Next]_vars
  PROVE  SeenInv'
<1> USE DEF memory, history
<1>1. CASE UNCHANGED vars \/ Tick
  BY <1>1, FrameSeen DEF vars, Tick
<1>2. ASSUME NEW w \in Watchlists, Boot(w) PROVE SeenInv'
  BY <1>2 DEF Boot, SeenInv
<1>3. CASE Crash
  BY <1>3 DEF Crash, SeenInv, Idle, NoFate, Fated
<1>4. ASSUME NEW a \in Articles, Take(a) PROVE SeenInv'
  BY <1>4, TakeSeen
<1>5. CASE Refuse \/ CallFails \/ JudgeFails \/ \E critical \in BOOLEAN : Judge(critical)
  BY <1>5, FinishSeen DEF Refuse, CallFails, JudgeFails, Judge, Finish, Idle
<1>6. CASE Admit
  <2>1. job'.pc # "check" /\ UNCHANGED <<list, last>>
    BY <1>6 DEF Admit, FirstTier
  <2> QED
    BY <2>1, FrameSeen
<1>7. ASSUME NEW c \in CallCosts, CallUseless(c) PROVE SeenInv'
  BY <1>7, FinishSeen DEF CallUseless, Finish, Idle
<1>8. ASSUME NEW c \in CallCosts, NEW relevant \in BOOLEAN, NEW deep \in BOOLEAN,
             Classify(relevant, deep, c)
      PROVE  SeenInv'
  <2>1. \/ Finish("skipped") /\ list' = list
        \/ job'.pc \in {"tier1", "tier2"} /\ UNCHANGED <<list, last>>
    BY <1>8 DEF Classify, Decide
  <2> QED
    BY <2>1, FinishSeen, FrameSeen DEF Finish, Idle
<1>9. ASSUME NEW c \in CallCosts, NEW ans \in Answers, Extract(ans, c) PROVE SeenInv'
  <2>1. \/ \E zone : Finish(zone) /\ list' = list
        \/ job'.pc = "judge" /\ UNCHANGED <<list, last>>
    BY <1>9 DEF Extract, Idle
  <2> QED
    BY <2>1, FinishSeen, FrameSeen DEF Finish, Idle
<1> QED
  BY <1>1, <1>2, <1>3, <1>4, <1>5, <1>6, <1>7, <1>8, <1>9 DEF Next, Step, Answered

\* The verdict at hand belongs to the article at hand.
LEMMA SeenFacts ==
  ASSUME SeenInv
  PROVE  \/ Seen = NoArticle /\ SeenVerdict = NoVerdict
         \/ /\ list \in Watchlists /\ Valid(list) /\ Seen \in Articles
            /\ SeenVerdict = VerdictOf[list][Seen]
BY DEF SeenInv, Seen, SeenVerdict

-----------------------------------------------------------------------------
(* The steps keep the types *)

\* The part of TypeOK that MoneyType leaves out.
FateType ==
  /\ crashes \in Nat /\ list \in Watchlists \cup {None}
  /\ lastSent \in [Alerts -> 0..MaxClock \cup {Never}]
  /\ job.art \in Articles \cup {NoArticle} \cup {Untitled(a) : a \in Articles}
  /\ job.verdict \in Verdicts
  /\ job = [pc |-> job.pc, art |-> job.art, verdict |-> job.verdict]
  /\ last \in [fate : Fates, art : Articles \cup {NoArticle}, verdict : Verdicts]

LEMMA NoVerdictTyped ==
  NoVerdict \in Verdicts /\ \A v \in Verdicts : [NoVerdict EXCEPT !.boost = v.boost] \in Verdicts
<1>1. NoVerdict \in Verdicts
  BY DEF NoVerdict, Verdicts
<1>2. ASSUME NEW v \in Verdicts
      PROVE  [NoVerdict EXCEPT !.boost = v.boost] \in Verdicts
  <2>1. v.boost \in 0..100
    BY DEF Verdicts
  <2> QED
    BY <1>1, <2>1 DEF Verdicts
<1> QED
  BY <1>1, <1>2

\* A pattern is of one of the two markets.
LEMMA PatternMarkets ==
  ASSUME NEW w, NEW p \in Patterns(w)
  PROVE  p.market \in WatchMarkets
<1>1. PICK m \in WatchMarkets : p \in MarketPatterns(w, m)
  BY DEF Patterns
<1>2. \A n, kind, owner : p = Pattern(n, kind, m, owner) => p.market = m
  BY DEF Pattern
<1>3. \A texts, kind : p \in Keywords(texts, kind, m) => p.market = m
  BY <1>2 DEF Keywords
<1>4. p \in TickerPatterns(w, m) => p.market = m
  BY <1>2 DEF TickerPatterns, EntryPatterns
<1> QED
  BY <1>1, <1>3, <1>4 DEF MarketPatterns

\* The tickers of a verdict are watched, its keywords are those of the file, and
\* the boost is at most 85.
LEMMA VerdictTyped ==
  ASSUME NEW w \in Watchlists, NEW a \in Articles
  PROVE  VerdictOf[w][a] \in Verdicts
<1> DEFINE hits == FindAll(Patterns(w), ArticleText(a))
           Codes == UNION {{e.ticker : e \in Entries(v)} : v \in Watchlists}
           Words == {p.text : p \in UNION {Patterns(v) : v \in Watchlists}}
           m == Match(w, a)
<1>1. hits \subseteq Patterns(w)
  BY DEF FindAll
<1>2. /\ m.matched = (hits # {})
      /\ m.tickers = {p.owner : p \in {q \in hits : q.kind = "ticker"}}
      /\ m.sectors = {p.text : p \in {q \in hits : q.kind = "sector"}}
      /\ m.macros = {p.text : p \in {q \in hits : q.kind = "macro"}}
      /\ m.generic = {p.text : p \in {q \in hits : q.kind = "generic"}}
      /\ m.markets = {p.market : p \in hits}
      /\ m.related = UNION ({SectorToTickers(w, s) : s \in m.sectors}
                            \cup {MacroToTickers(w, s) : s \in m.macros}) \ m.tickers
      /\ m.boost = Boost(m.tickers, m.sectors, m.macros)
      /\ m = [matched |-> m.matched, tickers |-> m.tickers, related |-> m.related,
              sectors |-> m.sectors, macros |-> m.macros, generic |-> m.generic,
              markets |-> m.markets, boost |-> m.boost]
  BY DEF Match
<1> HIDE DEF hits, m
<1>3. \A e \in Entries(w) : e.ticker \in Codes
  OBVIOUS
<1>4. m.tickers \subseteq Codes
  <2>1. ASSUME NEW p \in hits, p.kind = "ticker" PROVE p.owner \in Codes
    <3>1. PICK n \in WatchMarkets : \E e \in w.entries[n] :
            \E x \in {e.ticker} \cup e.names : p = Pattern(x, "ticker", n, e.ticker)
      BY <1>1, <2>1, PatternKinds
    <3>2. PICK e \in w.entries[n] : p.owner = e.ticker
      BY <3>1, PatternFields
    <3>3. e \in Entries(w)
      BY DEF Entries
    <3> QED
      BY <1>3, <3>2, <3>3
  <2> QED
    BY <1>2, <2>1
<1>5. m.related \subseteq Codes
  <2>1. \A s : SectorToTickers(w, s) \subseteq Codes /\ MacroToTickers(w, s) \subseteq Codes
    BY <1>3 DEF SectorToTickers, MacroToTickers
  <2> QED
    BY <1>2, <2>1
<1>6. m.sectors \subseteq Words /\ m.macros \subseteq Words /\ m.generic \subseteq Words
  <2>1. \A p \in hits : p.text \in Words
    BY <1>1
  <2> QED
    BY <1>2, <2>1
<1>7. m.markets \subseteq WatchMarkets
  BY <1>1, <1>2, PatternMarkets
<1>8. m.boost \in 0..100 /\ m.matched \in BOOLEAN
  BY <1>2 DEF Boost
<1>9. m \in Verdicts
  BY <1>2, <1>4, <1>5, <1>6, <1>7, <1>8 DEF Verdicts
<1> QED
  BY <1>9, NoVerdictTyped DEF VerdictOf, m

\* What the score makes of an article is a fate.
LEMMA FateTyped ==
  ASSUME NEW score, NEW action
  PROVE  Zone(score) \in {"critical", "low", "gray"} /\ GrayFate(action) \in Fates
BY DEF Zone, GrayFate, Fates

LEMMA FinishTyped ==
  ASSUME NEW fate \in Fates, Finish(fate)
  PROVE  /\ last' \in [fate : Fates, art : Articles \cup {NoArticle}, verdict : Verdicts]
         /\ job' = [pc |-> "idle", art |-> NoArticle, verdict |-> NoVerdict]
BY NoVerdictTyped DEF Finish, Fated, Idle

\* Where nothing but the article moves on.
LEMMA FrameTyped ==
  ASSUME FateType, UNCHANGED <<list, lastSent, crashes>>,
         \/ \E fate \in Fates : Finish(fate)
         \/ UNCHANGED last /\ \E pc : job' = [pc |-> pc, art |-> job.art, verdict |-> job.verdict]
         \/ UNCHANGED last /\ \E pc : job' = [Idle EXCEPT !.pc = pc]
  PROVE  FateType'
<1>1. ASSUME NEW fate \in Fates, Finish(fate) PROVE FateType'
  BY <1>1, FinishTyped, NoVerdictTyped DEF FateType
<1>2. ASSUME NEW pc, UNCHANGED last,
             job' = [pc |-> pc, art |-> job.art, verdict |-> job.verdict]
      PROVE  FateType'
  BY <1>2 DEF FateType
<1>3. ASSUME NEW pc, UNCHANGED last, job' = [Idle EXCEPT !.pc = pc]
      PROVE  FateType'
  <2>1. job' = [pc |-> pc, art |-> NoArticle, verdict |-> NoVerdict]
    BY <1>3 DEF Idle
  <2>2. /\ job'.art = NoArticle /\ job'.verdict = NoVerdict
        /\ job' = [pc |-> job'.pc, art |-> job'.art, verdict |-> job'.verdict]
    BY <2>1
  <2> QED
    BY <1>3, <2>2, NoVerdictTyped DEF FateType
<1> QED
  BY <1>1, <1>2, <1>3

LEMMA TakeTyped ==
  ASSUME SeenInv, FateType, NEW a \in Articles, Take(a)
  PROVE  FateType'
<1> DEFINE v == VerdictOf[list][a]
           zone == Zone(Score(SynthEnriched, a.source, v.boost))
<1>1. list # None /\ list \in Watchlists /\ UNCHANGED <<list, lastSent, crashes>>
  BY DEF Take, memory, SeenInv
<1>2. v \in Verdicts
  BY <1>1, VerdictTyped
<1>3. \/ last' = [fate |-> "skipped_rules", art |-> a, verdict |-> v] /\ job' = Idle
      \/ last' = NoFate /\ job' = [pc |-> "check", art |-> a, verdict |-> v]
      \/ /\ last' = [fate |-> IF zone = "gray" THEN GrayFate(list.action) ELSE zone,
                     art |-> a, verdict |-> v]
         /\ job' = Idle
  BY DEF Take
<1>4. (IF zone = "gray" THEN GrayFate(list.action) ELSE zone) \in Fates
  BY FateTyped DEF Fates
<1> HIDE DEF v, zone
<1>5. last' \in [fate : Fates, art : Articles \cup {NoArticle}, verdict : Verdicts]
  BY <1>2, <1>3, <1>4, NoVerdictTyped DEF NoFate, Fated, Fates
<1>6. /\ job'.art \in Articles \cup {NoArticle} /\ job'.verdict \in Verdicts
      /\ job' = [pc |-> job'.pc, art |-> job'.art, verdict |-> job'.verdict]
  BY <1>2, <1>3, NoVerdictTyped DEF Idle
<1> QED
  BY <1>1, <1>5, <1>6 DEF FateType

LEMMA AlertedTyped ==
  ASSUME GateConstantsOK, MoneyType, FateType, NEW alert \in Alerts, Alerted(alert)
  PROVE  lastSent' \in [Alerts -> 0..MaxClock \cup {Never}]
BY DEF Alerted, MoneyType, FateType

LEMMA AdmitTyped ==
  ASSUME GateConstantsOK, MoneyType, SeenInv, FateType, Admit
  PROVE  FateType'
<1>1. UNCHANGED <<list, last, crashes>>
  BY DEF Admit
<1>2. lastSent' \in [Alerts -> 0..MaxClock \cup {Never}]
  BY AlertedTyped DEF Admit, Alerts, FateType
<1>3. PICK a \in Articles : job.art = a
  BY DEF Admit, SeenInv
<1>4. job' = [pc |-> FirstTier, art |-> Untitled(a),
              verdict |-> [NoVerdict EXCEPT !.boost = job.verdict.boost]]
  BY <1>3 DEF Admit
<1>5. [NoVerdict EXCEPT !.boost = job.verdict.boost] \in Verdicts
  BY NoVerdictTyped DEF FateType
<1> QED
  BY <1>1, <1>2, <1>4, <1>5 DEF FateType

LEMMA FateStepTyped ==
  ASSUME GateConstantsOK, MoneyType, SeenInv, FateType, [Next]_vars
  PROVE  FateType'
<1> USE DEF memory, history
<1>1. CASE UNCHANGED vars \/ Tick
  BY <1>1 DEF FateType, vars, Tick
<1>2. ASSUME NEW w \in Watchlists, Boot(w) PROVE FateType'
  BY <1>2 DEF Boot, FateType
<1>3. CASE Crash
  <2>1. NoAlerts \in [Alerts -> 0..MaxClock \cup {Never}]
    BY DEF NoAlerts
  <2>2. /\ NoFate \in [fate : Fates, art : Articles \cup {NoArticle}, verdict : Verdicts]
        /\ Idle = [pc |-> "idle", art |-> NoArticle, verdict |-> NoVerdict]
    BY NoVerdictTyped DEF NoFate, Fated, Fates, Idle
  <2> QED
    BY <1>3, <2>1, <2>2, NoVerdictTyped DEF Crash, FateType
<1>4. ASSUME NEW a \in Articles, Take(a) PROVE FateType'
  BY <1>4, TakeTyped
<1>5. CASE Refuse
  <2>1. lastSent' \in [Alerts -> 0..MaxClock \cup {Never}]
    BY <1>5, AlertedTyped DEF Refuse, Alerts
  <2>2. Finish("dead") /\ "dead" \in Fates /\ UNCHANGED <<list, crashes>>
    BY <1>5 DEF Refuse, Fates
  <2> QED
    BY <2>1, <2>2, FinishTyped, NoVerdictTyped DEF FateType
<1>6. CASE CallFails \/ JudgeFails \/ \E critical \in BOOLEAN : Judge(critical)
  BY <1>6, FrameTyped DEF CallFails, JudgeFails, Judge, Fates
<1>7. CASE Admit
  BY <1>7, AdmitTyped
<1>8. ASSUME NEW c \in CallCosts, CallUseless(c) PROVE FateType'
  BY <1>8, FrameTyped DEF CallUseless, Fates
<1>9. ASSUME NEW c \in CallCosts, NEW relevant \in BOOLEAN, NEW deep \in BOOLEAN,
             Classify(relevant, deep, c)
      PROVE  FateType'
  <2>1. /\ UNCHANGED <<list, lastSent, crashes>>
        /\ \/ Finish("skipped")
           \/ UNCHANGED last
              /\ \E pc : job' = [pc |-> pc, art |-> job.art, verdict |-> job.verdict]
    BY <1>9 DEF Classify
  <2> QED
    BY <2>1, FrameTyped DEF Fates
<1>10. ASSUME NEW c \in CallCosts, NEW ans \in Answers, Extract(ans, c) PROVE FateType'
  <2>1. /\ UNCHANGED <<list, lastSent, crashes>>
        /\ \/ \E score : Zone(score) # "gray" /\ Finish(Zone(score))
           \/ UNCHANGED last /\ \E pc : job' = [Idle EXCEPT !.pc = pc]
    BY <1>10 DEF Extract
  <2>2. \A score : Zone(score) # "gray" => Zone(score) \in Fates
    BY FateTyped DEF Fates
  <2> QED
    BY <2>1, <2>2, FrameTyped
<1> QED
  BY <1>1, <1>2, <1>3, <1>4, <1>5, <1>6, <1>7, <1>8, <1>9, <1>10
     DEF Next, Step, Answered

LEMMA InitTyped == Init => FateType
<1>1. NoAlerts \in [Alerts -> 0..MaxClock \cup {Never}]
  BY DEF NoAlerts
<1>2. /\ NoFate \in [fate : Fates, art : Articles \cup {NoArticle}, verdict : Verdicts]
      /\ Idle = [pc |-> "idle", art |-> NoArticle, verdict |-> NoVerdict]
  BY NoVerdictTyped DEF NoFate, Fated, Fates, Idle
<1> QED
  BY <1>1, <1>2, NoVerdictTyped DEF Init, FateType

-----------------------------------------------------------------------------
(* What the matcher finds and what a reader finds *)

LEMMA SameInterval ==
  ASSUME NEW m \in Nat, NEW n \in Nat, 1..m = 1..n
  PROVE  m = n
<1>1. CASE m < n
  <2>1. n \in 1..n /\ n \notin 1..m
    BY <1>1
  <2> QED
    BY <2>1
<1>2. CASE n < m
  <2>1. m \in 1..m /\ m \notin 1..n
    BY <1>2
  <2> QED
    BY <2>1
<1> QED
  BY <1>1, <1>2

LEMMA LowerIsText ==
  ASSUME VerdictConstantsOK, NEW t \in Texts
  PROVE  Lower(t) \in Texts /\ Len(Lower(t)) = Len(t) /\ DOMAIN Lower(t) = DOMAIN t
<1>1. Len(t) \in Nat /\ DOMAIN t = 1..Len(t) /\ \A i \in 1..Len(t) : t[i] \in DOMAIN LowerCase
  BY DEF Texts
<1>2. Lower(t) = [i \in 1..Len(t) |-> LowerCase[t[i]]]
  BY <1>1 DEF Lower
<1>3. Lower(t) \in [1..Len(t) -> DOMAIN LowerCase]
  BY <1>1, <1>2 DEF VerdictConstantsOK
<1>4. Lower(t) \in Texts
  BY <1>1, <1>3, SeqDef DEF Texts
<1>5. DOMAIN Lower(t) = 1..Len(Lower(t)) /\ Len(Lower(t)) \in Nat
  BY <1>4 DEF Texts
<1>6. DOMAIN Lower(t) = 1..Len(t)
  BY <1>2
<1>7. Len(Lower(t)) = Len(t)
  BY <1>1, <1>5, <1>6, SameInterval
<1> QED
  BY <1>1, <1>4, <1>6, <1>7

LEMMA ArticleIsText ==
  ASSUME VerdictConstantsOK, TextsOK, NEW a \in Articles
  PROVE  ArticleText(a) \in Texts
<1>1. Space \in DOMAIN LowerCase
  BY DEF VerdictConstantsOK
<1>2. <<Space, Space>> \in Texts
  BY <1>1 DEF Texts
<1>3. a.title \in Texts /\ a.body \in Texts
  BY DEF TextsOK
<1> QED
  BY <1>2, <1>3, ConcatProperties DEF Texts, ArticleText

\* What begins and ends with a letter or digit tears no word exactly when it
\* stands between boundaries.
LEMMA Edges ==
  ASSUME NEW text \in Texts, NEW i \in DOMAIN text, NEW j \in DOMAIN text, i <= j,
         text[i] \in WordChars, text[j] \in WordChars
  PROVE  WordBoundary(text, i, j) <=> ~Torn(text, i, j)
<1>1. Len(text) \in Nat /\ i \in 1..Len(text) /\ j \in 1..Len(text)
  BY DEF Texts
<1>2. ASSUME WordBoundary(text, i, j), Torn(text, i, j) PROVE FALSE
  <2>1. PICK k \in 1..Len(text) - 1 :
          /\ text[k] \in WordChars /\ text[k + 1] \in WordChars
          /\ (k \in i..j) # (k + 1 \in i..j)
    BY <1>2 DEF Torn
  <2>2. (k = j /\ j # Len(text)) \/ (k + 1 = i /\ i # 1)
    BY <1>1, <2>1
  <2>3. CASE k = j /\ j # Len(text)
    BY <1>2, <2>1, <2>3 DEF WordBoundary
  <2>4. CASE k + 1 = i /\ i # 1
    <3>1. i - 1 = k
      BY <1>1, <2>1, <2>4
    <3> QED
      BY <1>2, <2>1, <2>4, <3>1 DEF WordBoundary
  <2> QED
    BY <2>2, <2>3, <2>4
<1>3. CASE i # 1 /\ text[i - 1] \in WordChars
  <2> DEFINE k == i - 1
  <2>1. /\ k \in 1..Len(text) - 1 /\ k + 1 = i
        /\ k \notin i..j /\ k + 1 \in i..j
    BY <1>1, <1>3
  <2> HIDE DEF k
  <2>2. text[k] \in WordChars /\ text[k + 1] \in WordChars
    BY <1>3, <2>1 DEF k
  <2>3. Torn(text, i, j)
    BY <2>1, <2>2 DEF Torn
  <2> QED
    BY <1>3, <2>3 DEF WordBoundary
<1>4. CASE j # Len(text) /\ text[j + 1] \in WordChars
  <2>1. j \in 1..Len(text) - 1 /\ j \in i..j /\ j + 1 \notin i..j
    BY <1>1, <1>4
  <2>2. Torn(text, i, j)
    BY <1>4, <2>1 DEF Torn
  <2> QED
    BY <1>4, <2>2 DEF WordBoundary
<1> QED
  BY <1>2, <1>3, <1>4 DEF WordBoundary

\* A non-empty text n stands at the places i..j of a longer one.
StandsAt(n, text, i, j) ==
  /\ text \in Texts /\ n \in Texts /\ n # <<>>
  /\ i \in DOMAIN text /\ j \in DOMAIN text /\ n = SubSeq(text, i, j)

\* How long it is then, and its ends.
LEMMA Places ==
  ASSUME NEW text, NEW n, NEW i, NEW j, StandsAt(n, text, i, j)
  PROVE  /\ i <= j /\ j = i + Len(n) - 1 /\ j <= Len(text)
         /\ text[i] = n[1] /\ text[j] = n[Len(n)]
<1> USE DEF StandsAt
<1>1. /\ i \in Nat /\ j \in Nat /\ Len(text) \in Nat /\ j <= Len(text) /\ i >= 1
      /\ \A k \in i..j : text[k] \in DOMAIN LowerCase
  BY DEF Texts
<1>2. i <= j
  BY <1>1, SubSeqEmpty
<1>3. Len(n) = j - i + 1 /\ \A k \in 1..j - i + 1 : n[k] = text[i + k - 1]
  <2>1. i \in Int /\ j \in Int
    BY <1>1
  <2>2. /\ n \in Seq(DOMAIN LowerCase) /\ Len(n) = IF i <= j THEN j - i + 1 ELSE 0
        /\ \A k \in 1..j - i + 1 : n[k] = text[i + k - 1]
    <3>1. \A k \in i..j : text[k] \in DOMAIN LowerCase
      BY <1>1
    <3> QED
      BY <2>1, <3>1, SubSeqProperties
  <2> QED
    BY <1>2, <2>2
<1>4. /\ 1 \in 1..j - i + 1 /\ i + 1 - 1 = i
      /\ Len(n) \in 1..j - i + 1 /\ i + Len(n) - 1 = j
  <2>1. Len(n) = j - i + 1
    BY <1>3
  <2> QED
    BY <1>1, <1>2, <2>1
<1>5. text[i] = n[1] /\ text[j] = n[Len(n)]
  BY <1>3, <1>4
<1> QED
  BY <1>1, <1>2, <1>4, <1>5

\* The matcher finds a name where a reader does.
LEMMA FoundIffMentioned ==
  ASSUME VerdictConstantsOK, NEW raw \in Texts, NEW name \in Texts,
         IsAscii(name) /\ name # <<>> =>
           {LowerCase[name[1]], LowerCase[name[Len(name)]]} \subseteq WordChars,
         NEW P, NEW p \in P, p.text = Lower(name), p.english = IsAscii(name)
  PROVE  p \in FindAll(P, raw) <=> Mentions(raw, name)
<1> DEFINE text == Lower(raw)
           n == Lower(name)
           At(i) == LET j == i + Len(n) - 1
                    IN /\ n # <<>> /\ j <= Len(text)
                       /\ SubSeq(text, i, j) = n
                       /\ IsAscii(name) => WordBoundary(text, i, j)
           Read(i, j) == SubSeq(text, i, j) = n /\ (IsAscii(name) => ~Torn(text, i, j))
<1>1. /\ text \in Texts /\ n \in Texts /\ DOMAIN text = DOMAIN raw /\ Len(text) = Len(raw)
      /\ DOMAIN n = DOMAIN name /\ Len(n) = Len(name)
  BY LowerIsText
<1>2. p \in FindAll(P, raw) <=> \E i \in DOMAIN text : At(i)
  BY DEF FindAll
<1>3. Mentions(raw, name) <=> \E i \in DOMAIN text : \E j \in i..Len(text) : Read(i, j)
  BY <1>1 DEF Mentions
<1>4. /\ Len(text) \in Nat /\ DOMAIN text = 1..Len(text)
      /\ Len(n) \in Nat /\ DOMAIN n = 1..Len(n) /\ (n # <<>> => Len(n) >= 1)
      /\ n # <<>> => name # <<>>
  BY <1>1 DEF Texts
<1>5. ASSUME IsAscii(name), n # <<>>
      PROVE  n[1] \in WordChars /\ n[Len(n)] \in WordChars
  <2>1. 1 \in DOMAIN name /\ Len(n) \in DOMAIN name
    BY <1>1, <1>4, <1>5
  <2>2. n[1] = LowerCase[name[1]] /\ n[Len(n)] = LowerCase[name[Len(name)]]
    BY <1>1, <2>1 DEF Lower
  <2> QED
    BY <1>4, <1>5, <2>2
<1> HIDE DEF n, text
<1>6. ASSUME NEW i \in DOMAIN text, NEW j \in DOMAIN text, i <= j, SubSeq(text, i, j) = n
      PROVE  /\ n # <<>> /\ j = i + Len(n) - 1 /\ j <= Len(text)
             /\ IsAscii(name) => (WordBoundary(text, i, j) <=> ~Torn(text, i, j))
  <2>1. i <= j /\ i \in Int /\ j \in Int
    BY <1>4, <1>6
  <2>2. n # <<>>
    <3>1. Len(SubSeq(text, i, j)) = j - i + 1
      BY <1>1, <1>4, <2>1, SubSeqProperties DEF Texts
    <3> QED
      BY <1>4, <1>6, <2>1, <3>1
  <2>3. StandsAt(n, text, i, j)
    BY <1>1, <1>6, <2>2 DEF StandsAt
  <2>4. /\ j = i + Len(n) - 1 /\ j <= Len(text)
        /\ text[i] = n[1] /\ text[j] = n[Len(n)]
    BY <2>3, Places
  <2>5. ASSUME IsAscii(name) PROVE WordBoundary(text, i, j) <=> ~Torn(text, i, j)
    <3>1. text[i] \in WordChars /\ text[j] \in WordChars
      BY <1>5, <2>2, <2>4, <2>5
    <3> QED
      BY <1>1, <2>1, <3>1, Edges
  <2> QED
    BY <2>2, <2>4, <2>5
<1>7. ASSUME NEW i \in DOMAIN text, At(i)
      PROVE  \E j \in i..Len(text) : Read(i, j)
  <2> DEFINE j == i + Len(n) - 1
  <2>1. j \in DOMAIN text /\ i <= j /\ j \in i..Len(text) /\ SubSeq(text, i, j) = n
    BY <1>4, <1>7
  <2>2. IsAscii(name) => WordBoundary(text, i, j)
    BY <1>7
  <2> HIDE DEF j
  <2>3. Read(i, j)
    BY <1>6, <2>1, <2>2
  <2> QED
    BY <2>1, <2>3
<1>8. ASSUME NEW i \in DOMAIN text, NEW j \in i..Len(text), Read(i, j)
      PROVE  At(i)
  <2>1. j \in DOMAIN text /\ i <= j /\ SubSeq(text, i, j) = n
    BY <1>4, <1>8
  <2>2. j = i + Len(n) - 1 /\ n # <<>> /\ j <= Len(text)
    BY <1>6, <2>1
  <2>3. IsAscii(name) => WordBoundary(text, i, j)
    BY <1>6, <1>8, <2>1
  <2> QED
    BY <2>1, <2>2, <2>3
<1> QED
  BY <1>2, <1>3, <1>7, <1>8

LEMMA MatchFinds ==
  ASSUME VerdictConstantsOK, TextsOK, PlainNames,
         NEW w \in Watchlists, NEW a \in Articles
  PROVE  Match(w, a).tickers =
           {e.ticker : e \in {f \in Entries(w) :
              \E n \in {f.ticker} \cup f.names : Mentions(ArticleText(a), n)}}
<1> DEFINE hits == FindAll(Patterns(w), ArticleText(a))
           Named(e) == \E n \in {e.ticker} \cup e.names : Mentions(ArticleText(a), n)
<1>1. Match(w, a).tickers = {p.owner : p \in {q \in hits : q.kind = "ticker"}}
  BY DEF Match
<1>2. hits \subseteq Patterns(w)
  BY DEF FindAll
<1>3. ASSUME NEW m \in WatchMarkets, NEW e \in w.entries[m], NEW n \in {e.ticker} \cup e.names
      PROVE  LET p == Pattern(n, "ticker", m, e.ticker)
             IN /\ p.kind = "ticker" /\ p.owner = e.ticker
                /\ p \in hits <=> Mentions(ArticleText(a), n)
  <2> DEFINE p == Pattern(n, "ticker", m, e.ticker)
  <2>1. p.text = Lower(n) /\ p.english = IsAscii(n) /\ p.kind = "ticker" /\ p.owner = e.ticker
    BY PatternFields
  <2> HIDE DEF p
  <2>2. p \in Patterns(w)
    BY <2>1, PatternKinds DEF p
  <2>3. n \in Texts /\ e \in Entries(w)
    BY DEF TextsOK, Entries
  <2>4. IsAscii(n) /\ n # <<>> => {LowerCase[n[1]], LowerCase[n[Len(n)]]} \subseteq WordChars
    BY <2>3 DEF PlainNames
  <2>5. p \in hits <=> Mentions(ArticleText(a), n)
    BY <2>1, <2>2, <2>3, <2>4, ArticleIsText, FoundIffMentioned
  <2> QED
    BY <2>1, <2>5 DEF p
<1> HIDE DEF hits
<1>4. ASSUME NEW p \in hits, p.kind = "ticker"
      PROVE  \E e \in Entries(w) : Named(e) /\ e.ticker = p.owner
  <2>0. p \in Patterns(w) /\ p.kind = "ticker"
    BY <1>2, <1>4
  <2>1. PICK m \in WatchMarkets : \E e \in w.entries[m] :
          \E n \in {e.ticker} \cup e.names : p = Pattern(n, "ticker", m, e.ticker)
    BY <2>0, PatternKinds
  <2>2. PICK e \in w.entries[m] :
          \E n \in {e.ticker} \cup e.names : p = Pattern(n, "ticker", m, e.ticker)
    BY <2>1
  <2>3. PICK n \in {e.ticker} \cup e.names : p = Pattern(n, "ticker", m, e.ticker)
    BY <2>2
  <2>4. Mentions(ArticleText(a), n) /\ p.owner = e.ticker
    BY <1>3, <2>3
  <2>5. e \in Entries(w)
    BY DEF Entries
  <2> QED
    BY <2>4, <2>5
<1>5. ASSUME NEW e \in Entries(w), Named(e)
      PROVE  \E p \in hits : p.kind = "ticker" /\ p.owner = e.ticker
  <2>1. PICK m \in WatchMarkets : e \in w.entries[m]
    BY DEF Entries
  <2>2. PICK n \in {e.ticker} \cup e.names : Mentions(ArticleText(a), n)
    BY <1>5
  <2> QED
    BY <1>3, <2>1, <2>2
<1> HIDE DEF Named
<1>6. Match(w, a).tickers = {e.ticker : e \in {f \in Entries(w) : Named(f)}}
  BY <1>1, <1>4, <1>5
<1> QED
  BY <1>6 DEF Named

-----------------------------------------------------------------------------
(* The score with rules alone *)

LEMMA RulesScore ==
  ASSUME GrayBetween, NEW w \in Watchlists, NEW a \in Articles,
         TakenFate(w, a) # "skipped_rules"
  PROVE  LET v == VerdictOf[w][a]
             first == a.source \in AlwaysCritical
             fate == TakenFate(w, a)
         IN /\ v.tickers # {} /\ (v.sectors # {} \/ first) => fate = "critical"
            /\ v.tickers # {} => fate \in {"critical", GrayFate(w.action)}
            /\ v.tickers = {} /\ ~first => fate = "low"
<1> DEFINE v == VerdictOf[w][a]
           first == a.source \in AlwaysCritical
           score == Score(SynthEnriched, a.source, v.boost)
<1>1. TakenFate(w, a) = IF Zone(score) = "gray" THEN GrayFate(w.action) ELSE Zone(score)
  BY DEF TakenFate
<1>2. v = Match(w, a) \/ v = NoVerdict
  BY DEF VerdictOf
<1>3. v.boost = Boost(v.tickers, v.sectors, v.macros)
  <2>1. Match(w, a).boost = Boost(Match(w, a).tickers, Match(w, a).sectors, Match(w, a).macros)
    BY DEF Match
  <2>2. NoVerdict.boost = Boost(NoVerdict.tickers, NoVerdict.sectors, NoVerdict.macros)
    BY DEF NoVerdict, Boost
  <2> QED
    BY <1>2, <2>1, <2>2
<1>4. RuleScore(SynthEnriched, a.source) = IF first THEN 30 ELSE 0
  BY DEF RuleScore, SynthEnriched
<1> HIDE DEF v, first
<1>5. v.boost \in 0..85 /\ (v.tickers # {} => v.boost >= 50)
      /\ (v.tickers # {} /\ v.sectors # {} => v.boost >= 70) /\ (v.tickers = {} => v.boost <= 35)
  BY <1>3 DEF Boost
<1>6. score = IF (IF first THEN 30 ELSE 0) + v.boost > 100 THEN 100
              ELSE (IF first THEN 30 ELSE 0) + v.boost
  BY <1>4, <1>5 DEF Score
<1> HIDE DEF score
<1>7. /\ score \in 0..100
      /\ v.tickers # {} => score >= 50
      /\ v.tickers # {} /\ (v.sectors # {} \/ first) => score >= 70
      /\ v.tickers = {} /\ ~first => score <= 35
  BY <1>5, <1>6
<1>8. /\ v.tickers # {} => Zone(score) # "low" /\ Zone(score) \in {"critical", "gray"}
      /\ v.tickers # {} /\ (v.sectors # {} \/ first) => Zone(score) = "critical"
      /\ v.tickers = {} /\ ~first => Zone(score) = "low"
  BY <1>7 DEF Zone, GrayBetween
<1> QED
  BY <1>1, <1>8 DEF v, first

-----------------------------------------------------------------------------
(* Theorems *)

\* The inductive invariant holds whatever the clock, the models and the
\* crashes do (llm/cost_tracker.py).
THEOREM Invariance == ASSUME GateConstantsOK PROVE Spec => []IInv
<1>1. Init => IInv
  BY InitIInv
<1>2. IInv /\ [Next]_vars => IInv'
  BY NextIInv
<1> QED
  BY <1>1, <1>2, PTL DEF Spec

\* Every process that runs on a day may spend the ceiling less one unit and the
\* two calls of one article, and no day costs more: the check of
\* CostTracker.check_async is per process, and before the calls.
THEOREM EachLifeOneCeilingHolds ==
  ASSUME GateConstantsOK PROVE Spec => []EachLifeOneCeiling
<1>1. IInv => EachLifeOneCeiling
  <2> SUFFICES ASSUME IInv, NEW d \in Days
               PROVE  billed[d] <= lives[d] * PerLife
    BY DEF EachLifeOneCeiling, PerLife
  <2>1. /\ LifeOK(d) /\ lives[d] \in Nat /\ billed[d] \in Nat /\ total[d] \in Nat
        /\ job.pc \in PCs
    BY Facts DEF IInv, MoneyType
  <2>2. Bound(job.pc) \in Nat /\ Bound(job.pc) <= PerLife /\ PerLife \in Nat
    BY <2>1, Numbers
  <2>3. /\ (lives[d] - 1) * PerLife + PerLife = lives[d] * PerLife
        /\ lives[d] * PerLife \in Int /\ (lives[d] - 1) * PerLife \in Int
    BY <2>1, <2>2, Shares
  <2>4. CASE Alive(d)
    <3>1. total[d] <= Bound(job.pc) /\ billed[d] <= (lives[d] - 1) * PerLife + total[d]
      BY <2>1, <2>4 DEF LifeOK
    <3> QED
      BY <2>1, <2>2, <2>3, <3>1
  <2>5. CASE ~Alive(d)
    BY <2>1, <2>5 DEF LifeOK
  <2> QED
    BY <2>4, <2>5
<1> QED
  BY <1>1, Invariance, PTL

\* Before a day is more than one article past 80 % of the ceiling the warning is
\* due, and a process sends it at most once a day (CostTracker._warned_today).
THEOREM WarnedInTimeHolds ==
  ASSUME GateConstantsOK PROVE Spec => []WarnedInTime
<1>1. IInv => WarnedInTime
  BY DEF IInv, WarnOK, WarnedInTime
<1> QED
  BY <1>1, Invariance, PTL

\* The inductive invariant of the verdicts: an article is judged by the
\* watchlist in force (RulesEngine.match in process_pending).
THEOREM SeenInvariance == Spec => []SeenInv
<1>1. Init => SeenInv
  BY DEF Init, SeenInv, Idle, NoFate, Fated
<1>2. SeenInv /\ [Next]_vars => SeenInv'
  BY NextSeen
<1> QED
  BY <1>1, <1>2, PTL DEF Spec

\* For any valid watchlist and any article, each ticker of a verdict is watched
\* in a market that the article is routed to, also when two markets share a
\* keyword (the reverse indexes of RulesEngine), as long as no character
\* outside ASCII has an ASCII lower case.
THEOREM NamedInMarketsHolds ==
  ASSUME TextsOK, CaseKeepsAscii PROVE Spec => []NamedInMarkets
<1>1. SeenInv => NamedInMarkets
  <2> SUFFICES ASSUME SeenInv, NEW t \in SeenVerdict.tickers \cup SeenVerdict.related
               PROVE  \E m \in SeenVerdict.markets : \E e \in list.entries[m] : e.ticker = t
    BY DEF NamedInMarkets
  <2>1. NoVerdict.tickers \cup NoVerdict.related = {}
    BY DEF NoVerdict
  <2>2. /\ list \in Watchlists /\ Valid(list) /\ Seen \in Articles
        /\ SeenVerdict = VerdictOf[list][Seen] /\ SeenVerdict # NoVerdict
    BY <2>1, SeenFacts
  <2>3. SeenVerdict = Match(list, Seen)
    BY <2>2 DEF VerdictOf
  <2> QED
    BY <2>2, <2>3, MatchNamed
<1> QED
  BY <1>1, SeenInvariance, PTL

\* Whatever watchlist.yml says and the models answer: totals, warnings, throttles,
\* and the article and verdict at hand of process_pending, have their types.
THEOREM TypeCorrect == ASSUME GateConstantsOK PROVE Spec => []TypeOK
<1>1. Init => FateType
  BY InitTyped
<1>2. IInv /\ SeenInv /\ FateType /\ [Next]_vars => FateType'
  BY FateStepTyped DEF IInv
<1>3. IInv /\ FateType => TypeOK
  BY DEF IInv, MoneyType, PCs, FateType, TypeOK
<1> QED
  BY <1>1, <1>2, <1>3, Invariance, SeenInvariance, PTL DEF Spec

\* For any texts: the tickers of a verdict are those whose code or name a reader
\* would find, an English one as a word and a Chinese one anywhere (Matcher in
\* rules/matcher.py), as long as the English ones begin and end with a letter or
\* digit.
THEOREM FindsWhatIsMentionedHolds ==
  ASSUME VerdictConstantsOK, TextsOK, PlainNames PROVE Spec => []FindsWhatIsMentioned
<1>1. SeenInv => FindsWhatIsMentioned
  <2> SUFFICES ASSUME SeenInv, Seen # NoArticle, list # None, list.rules
               PROVE  SeenVerdict.tickers =
                        {e.ticker : e \in {f \in Entries(list) :
                           \E n \in {f.ticker} \cup f.names : Mentions(ArticleText(Seen), n)}}
    BY DEF FindsWhatIsMentioned
  <2>1. list \in Watchlists /\ Seen \in Articles /\ SeenVerdict = VerdictOf[list][Seen]
    BY SeenFacts
  <2>2. SeenVerdict = Match(list, Seen)
    BY <2>1 DEF VerdictOf
  <2> QED
    BY <2>1, <2>2, MatchFinds
<1> QED
  BY <1>1, SeenInvariance, PTL

\* With rules alone (_process_one without a model), whatever the watchlist and
\* the article: the weights of the classifier and the gray zone never file a
\* direct hit as unimportant, nor a mere keyword as urgent.
THEOREM RulesOnlyFateHolds ==
  ASSUME GrayBetween PROVE Spec => []RulesOnlyFate
<1>1. SeenInv => RulesOnlyFate
  <2> SUFFICES ASSUME SeenInv, last.art # NoArticle, last.fate # "skipped_rules"
               PROVE  LET v == last.verdict
                          first == last.art.source \in AlwaysCritical
                      IN /\ v.tickers # {} /\ (v.sectors # {} \/ first) => last.fate = "critical"
                         /\ v.tickers # {} => last.fate \in {"critical", GrayFate(list.action)}
                         /\ v.tickers = {} /\ ~first => last.fate = "low"
    BY DEF RulesOnlyFate
  <2>1. list # None /\ list \in Watchlists
    BY DEF SeenInv
  <2>2. PICK a \in Articles :
          last = [fate |-> TakenFate(list, a), art |-> a, verdict |-> VerdictOf[list][a]]
    BY DEF SeenInv
  <2>3. last.fate = TakenFate(list, a) /\ last.art = a /\ last.verdict = VerdictOf[list][a]
    BY <2>2
  <2> QED
    BY <2>1, <2>3, RulesScore
<1> QED
  BY <1>1, SeenInvariance, PTL
=============================================================================
