----------------------------- MODULE QuoteAlerts -----------------------------
(***************************************************************************)
(* The alerting of quote_watcher: the ticker loop and the sector loop that *)
(* evaluate the rules on fresh quotes, the alert_state table that holds    *)
(* the cooldowns, and the hot reload of alerts.yml.                        *)
(*                                                                         *)
(* The two loops are coroutines of one asyncio loop and interleave at      *)
(* every await; the reload runs in the thread of the file observer and may *)
(* swap the rules between any two steps of a loop.  Time is counted in     *)
(* minutes, as the age of each alert_state row.  (The market scan loop     *)
(* keeps no state and is left out; outside trading hours the loops do      *)
(* nothing, so the model is about open sessions.)                          *)
(***************************************************************************)
EXTENDS Integers

CONSTANTS
  Tickers,       \* the tickers of the watchlist
  Held,          \* those with an entry in holdings.yml
  Portfolio,     \* _PORTFOLIO_TICKER_KEY
  Versions,      \* contents alerts.yml may have
  Rules,         \* Rules[v]: the rules of version v, records of RuleType
  Broken,        \* a content that AlertsFile refuses
  Edits,         \* pairs of contents: what the file may be changed from and to
  Saves,         \* how it is saved: written "in place", or by a "rename"
  HasChannels,   \* some *_alert channel is enabled
  Moving,        \* keys whose expression may change; the others always hold
  MaxAge,        \* MaxAge[k]: the age of row k is counted up to here
  MaxCount,      \* trigger_count_today is counted up to here
  MaxFaults,     \* bound on failed fetches, exceptions and refused messages
  MaxStops       \* bound on crashes and shutdowns

\* A rule: an EVENT rule is "event" or "sector" by its target_kind, a
\* COMPOSITE rule is "composite" for a holding or "portfolio".
TickerKinds == {"threshold", "composite", "indicator", "event"}
Kinds == TickerKinds \cup {"portfolio", "sector"}
AllRules == UNION {Rules[v] : v \in Versions}
KeyOf(r) == <<r.id, r.on>>             \* primary key of alert_state
Keys == {KeyOf(r) : r \in AllRules}
Loops == {"ticker", "sector"}

ASSUME QuoteConstantsOK ==
  /\ Portfolio \notin Tickers /\ Held \subseteq Tickers
  /\ Broken \notin Versions /\ DOMAIN Rules = Versions
  /\ Edits \subseteq (Versions \cup {Broken}) \X (Versions \cup {Broken})
  /\ HasChannels \in BOOLEAN
  /\ Moving \subseteq Keys /\ MaxAge \in [Keys -> Nat] /\ MaxCount \in Nat \ {0}
  /\ MaxFaults \in Nat /\ MaxStops \in Nat
  /\ \A r \in AllRules :
       /\ r.kind \in Kinds /\ r.cooldown \in 0..MaxAge[KeyOf(r)]
       /\ r.kind = "portfolio" <=> r.on = Portfolio
       /\ r.kind \in TickerKinds => r.on \in Tickers
       /\ r.kind = "sector" => r.on \notin Tickers
  /\ \A v \in Versions : \A r, q \in Rules[v] : KeyOf(r) = KeyOf(q) => r = q

ASSUME SavesOK == Saves \subseteq {"in place", "rename"}

VARIABLES
  \* ---- the world
  hot,           \* the keys whose expression holds on the current quotes
  file,          \* what alerts.yml holds
  \* ---- alert_state
  age,           \* age[k]: minutes since last_triggered_at, or NoRow
  count,         \* count[k]: trigger_count_today
  \* ---- the process
  phase,         \* "down", "warmup" (rules loaded, klines being loaded), "up"
  rules,         \* AlertEngine._rules
  stop,          \* the stop event
  loop,          \* the coroutines: [pc, left, on, kind, due, rule, verdicts, seen]
  event,         \* a FileModifiedEvent is queued
  read,          \* the version reload_now has read and not yet swapped in
  \* ---- history
  owed,          \* keys marked as triggered whose message is still to be sent
  lost,          \* those of them whose verdict an interruption has dropped
  quiet,         \* quiet[k]: minutes since k was last marked, or NoRow
  faults, stops

world   == <<hot, file>>
table   == <<age, count>>
watcher == <<event, read>>
history == <<owed, lost, quiet>>
vars    == <<world, table, phase, rules, stop, loop, watcher, history,
             faults, stops>>

NoRow == -1
Nothing == [id |-> "", kind |-> "none", on |-> Portfolio, cooldown |-> 0]
Waiting == [pc |-> "idle", left |-> {}, on |-> Portfolio, kind |-> "none",
            due |-> {}, rule |-> Nothing, verdicts |-> {}, seen |-> {}]
Off == [Waiting EXCEPT !.pc = "off"]
LoopPCs == {"off", "idle", "eval", "bump", "mark", "dispatch", "ended"}

KeysOf(S) == {KeyOf(r) : r \in S}

Init ==
  /\ hot = Keys \ Moving /\ file \in Versions
  /\ age = [k \in Keys |-> NoRow] /\ count = [k \in Keys |-> 0]
  /\ phase = "down" /\ rules = {} /\ stop = FALSE
  /\ loop = [p \in Loops |-> Off]
  /\ event = FALSE /\ read = Broken
  /\ owed = {} /\ lost = {} /\ quiet = [k \in Keys |-> NoRow]
  /\ faults = 0 /\ stops = 0

-----------------------------------------------------------------------------
(* The world *)

\* The quotes move, and a rule's expression becomes true or false.
Move(k) ==
  /\ hot' = IF k \in hot THEN hot \ {k} ELSE hot \cup {k}
  /\ UNCHANGED <<file, table, phase, rules, stop, loop, watcher, history,
                 faults, stops>>

\* (The bound: an age is past every cooldown of its key when it stops.)
Older(f) ==
  [k \in Keys |-> IF f[k] \in {NoRow, MaxAge[k]} THEN f[k] ELSE f[k] + 1]

Minute ==
  /\ \E k \in Keys : quiet[k] \notin {NoRow, MaxAge[k]}
  /\ age' = Older(age) /\ quiet' = Older(quiet)
  /\ UNCHANGED <<world, count, phase, rules, stop, loop, watcher, owed, lost,
                 faults, stops>>

\* Someone saves alerts.yml.  The observer, if it runs, watches the directory,
\* and the handler reloads on a FileModifiedEvent of that very path: a new file
\* renamed to alerts.yml is a move, which it passes over.
Edit(v, how) ==
  /\ <<file, v>> \in Edits /\ file # v /\ file' = v
  /\ event' = (event \/ (phase = "up" /\ how = "in place"))
  /\ UNCHANGED <<hot, table, phase, rules, stop, loop, read, history,
                 faults, stops>>

-----------------------------------------------------------------------------
(* The life of the process *)

\* ConfigLoader.load; a file that is refused keeps the process down.
Boot ==
  /\ phase = "down" /\ file # Broken
  /\ phase' = "warmup" /\ rules' = Rules[file] /\ stop' = FALSE
  /\ UNCHANGED <<world, table, loop, watcher, history, faults, stops>>

\* The klines are loaded; the observer and the loops are started.
Start ==
  /\ phase = "warmup"
  /\ phase' = "up" /\ loop' = [p \in Loops |-> Waiting]
  /\ UNCHANGED <<world, table, rules, stop, watcher, history, faults, stops>>

\* SIGTERM sets the stop event.
Stop ==
  /\ phase = "up" /\ ~stop /\ stops < MaxStops
  /\ stop' = TRUE /\ stops' = stops + 1
  /\ UNCHANGED <<world, table, phase, rules, loop, watcher, history, faults>>

Gone ==
  /\ phase' = "down" /\ rules' = {} /\ loop' = [p \in Loops |-> Off]
  /\ event' = FALSE /\ read' = Broken

\* Both loops have returned: the observer is stopped, the database closed.
Exit ==
  /\ phase = "up" /\ \A p \in Loops : loop[p].pc = "ended"
  /\ Gone
  /\ UNCHANGED <<world, table, stop, history, faults, stops>>

InFlight == UNION {KeysOf(loop[p].verdicts) : p \in Loops}

\* The process dies; alert_state stays.
Crash ==
  /\ phase # "down" /\ stops < MaxStops
  /\ stops' = stops + 1 /\ lost' = lost \cup InFlight
  /\ Gone
  /\ UNCHANGED <<world, table, stop, owed, quiet, faults>>

-----------------------------------------------------------------------------
(* AlertsReloader, in the observer's thread *)

\* reload_now reads the file of the first queued event.  Edits in the
\* meantime queue another one.
ReadFile ==
  /\ event /\ read = Broken
  /\ event' = FALSE /\ read' = file
  /\ UNCHANGED <<world, table, phase, rules, stop, loop, history, faults, stops>>

DropEvent == FALSE
KeepEvent == event
\* update_rules swaps the list, whatever the loops are doing.
SwapRules ==
  /\ read # Broken
  /\ rules' = Rules[read] /\ read' = Broken
  /\ event' = KeepEvent
  /\ UNCHANGED <<world, table, phase, stop, loop, history, faults, stops>>

-----------------------------------------------------------------------------
(* The loops *)

\* The kinds of evaluate_for_snapshot, in turn.
NextKind == [threshold |-> "composite", composite |-> "indicator",
             indicator |-> "event"]

\* `while not stop.is_set()`
StoppingTicker(p) == stop /\ p = "ticker"
Stopping(p) == stop

SetLoop(p, rec) == loop' = [loop EXCEPT ![p] = rec]

\* The rules of one kind, as the list is when they are looked up, whose
\* expression holds on the quotes of this round.
Selected(kind, on, seen) ==
  {r \in rules : /\ r.kind = kind
                 /\ kind = "sector" \/ r.on = on
                 /\ kind = "composite" => on \in Held
                 /\ KeyOf(r) \in seen}

\* Evaluate the rules for `on`, starting with those of one kind.
Enter(p, on, kind, left, seen) ==
  SetLoop(p, [pc |-> "eval", left |-> left, on |-> on, kind |-> kind,
              due |-> Selected(kind, on, seen), rule |-> Nothing,
              verdicts |-> {},
              seen |-> IF kind \in DOMAIN NextKind THEN seen ELSE {}])

\* The next ticker, then the portfolio.  Without channels evaluate_alerts
\* returns at once, but the portfolio is evaluated all the same.
EnterNext(p, left, seen) ==
  IF left # {} /\ HasChannels
  THEN \E t \in left : Enter(p, t, "threshold", left \ {t}, seen)
  ELSE Enter(p, Portfolio, "portfolio", {}, seen)

\* One round starts with the quotes of the tickers in S.
PollTickers(S) ==
  /\ loop["ticker"].pc = "idle" /\ ~Stopping("ticker")
  /\ S # {} /\ EnterNext("ticker", S, hot)
  /\ UNCHANGED <<world, table, phase, rules, stop, watcher, history, stops>>
  /\ IF S = Tickers THEN UNCHANGED faults      \* else some quotes are missing
     ELSE faults < MaxFaults /\ faults' = faults + 1

PollSectors ==
  /\ loop["sector"].pc = "idle" /\ ~Stopping("sector") /\ HasChannels
  /\ Enter("sector", Portfolio, "sector", {}, hot)
  /\ UNCHANGED <<world, table, phase, rules, stop, watcher, history, faults, stops>>

\* The market is closed, a fetch fails or returns nothing.
PollNothing(p) ==
  /\ loop[p].pc = "idle" /\ ~Stopping(p)
  /\ UNCHANGED vars

InCooldownOff(r) == age[KeyOf(r)] # NoRow /\ age[KeyOf(r)] + 1 < r.cooldown
InCooldown(r) == age[KeyOf(r)] # NoRow /\ age[KeyOf(r)] < r.cooldown

Check(p, r) ==
  /\ loop[p].pc = "eval" /\ r \in loop[p].due
  /\ SetLoop(p, [loop[p] EXCEPT !.pc = IF InCooldown(r) THEN "bump" ELSE "mark",
                                !.due = @ \ {r}, !.rule = r])
  /\ UNCHANGED <<world, table, phase, rules, stop, watcher, history, faults, stops>>

CountUp(k) == [count EXCEPT ![k] = IF @ = MaxCount THEN @ ELSE @ + 1]

AgeAfterBumpRearm(k) == [age EXCEPT ![k] = 0]
AgeAfterBump(k) == age

\* The row exists: is_in_cooldown has seen it, and rows are never deleted.
Bump(p) ==
  LET k == KeyOf(loop[p].rule)
  IN /\ loop[p].pc = "bump"
     /\ count' = CountUp(k) /\ age' = AgeAfterBump(k)
     /\ SetLoop(p, [loop[p] EXCEPT !.pc = "eval", !.rule = Nothing])
     /\ UNCHANGED <<world, phase, rules, stop, watcher, history, faults, stops>>

Mark(p) ==
  LET r == loop[p].rule
  IN /\ loop[p].pc = "mark"
     /\ count' = CountUp(KeyOf(r)) /\ age' = [age EXCEPT ![KeyOf(r)] = 0]
     /\ owed' = owed \cup {KeyOf(r)} /\ lost' = lost \ {KeyOf(r)}
     /\ quiet' = [quiet EXCEPT ![KeyOf(r)] = 0]
     /\ SetLoop(p, [loop[p] EXCEPT !.pc = "eval", !.rule = Nothing,
                                   !.verdicts = @ \cup {r}])
     /\ UNCHANGED <<world, phase, rules, stop, watcher, faults, stops>>

\* The next kind of evaluate_for_snapshot, with its own lookup.
LookUp(p) ==
  /\ loop[p].pc = "eval" /\ loop[p].due = {} /\ loop[p].kind \in DOMAIN NextKind
  /\ LET kind == NextKind[loop[p].kind]
     IN  SetLoop(p, [loop[p] EXCEPT !.kind = kind,
                       !.due = Selected(kind, loop[p].on, loop[p].seen)])
  /\ UNCHANGED <<world, table, phase, rules, stop, watcher, history, faults, stops>>

\* Nothing is left to evaluate and to send for this target.
Leave(p) ==
  IF loop[p].kind = "event" THEN EnterNext(p, loop[p].left, loop[p].seen)
  ELSE SetLoop(p, Waiting)

Evaluated(p) ==
  /\ loop[p].pc = "eval" /\ loop[p].due = {} /\ loop[p].kind \notin DOMAIN NextKind
  /\ IF loop[p].verdicts = {} THEN Leave(p)
     ELSE SetLoop(p, [loop[p] EXCEPT !.pc = "dispatch"])
  /\ UNCHANGED <<world, table, phase, rules, stop, watcher, history, faults, stops>>

\* The verdicts on one ticker make one message, the others one each.
MessagesFirst(p) == {{r} : r \in loop[p].verdicts}
Messages(p) ==
  IF loop[p].kind = "event" THEN {loop[p].verdicts}
  ELSE {{r} : r \in loop[p].verdicts}

AfterMessage(p, left) ==
  IF left = {} \/ loop[p].kind = "event" THEN Leave(p)
  ELSE SetLoop(p, [loop[p] EXCEPT !.verdicts = left])

\* dispatch; nobody looks at the answers of the channels.
Dispatch(p, m, ok) ==
  /\ loop[p].pc = "dispatch" /\ m \in Messages(p)
  /\ AfterMessage(p, loop[p].verdicts \ m)
  /\ IF ok THEN /\ owed' = IF HasChannels THEN owed \ KeysOf(m) ELSE owed
                /\ UNCHANGED <<lost, faults>>
     ELSE /\ faults < MaxFaults /\ faults' = faults + 1
          /\ lost' = lost \cup KeysOf(m) /\ UNCHANGED owed
  /\ UNCHANGED <<world, table, phase, rules, stop, watcher, quiet, stops>>

\* An await raises: the loop logs it and the round is over.
Raises(p) ==
  /\ loop[p].pc \in {"eval", "bump", "mark", "dispatch"}
  /\ faults < MaxFaults
  /\ faults' = faults + 1
  /\ lost' = lost \cup KeysOf(loop[p].verdicts)
  /\ SetLoop(p, Waiting)
  /\ UNCHANGED <<world, table, phase, rules, stop, watcher, owed, quiet, stops>>

EndLoop(p) ==
  /\ loop[p].pc = "idle" /\ Stopping(p)
  /\ SetLoop(p, [Waiting EXCEPT !.pc = "ended"])
  /\ UNCHANGED <<world, table, phase, rules, stop, watcher, history, faults, stops>>

-----------------------------------------------------------------------------

Step(p) ==
  \/ p = "ticker" /\ PollTickers(Tickers)
  \/ p = "sector" /\ PollSectors
  \/ \E r \in loop[p].due : Check(p, r)
  \/ Bump(p) \/ Mark(p) \/ LookUp(p) \/ Evaluated(p)
  \/ \E m \in SUBSET loop[p].verdicts : Dispatch(p, m, TRUE)
  \/ EndLoop(p)

Failures(p) ==
  \/ PollNothing(p) \/ Raises(p)
  \/ \E S \in SUBSET Tickers \ {Tickers} : p = "ticker" /\ PollTickers(S)
  \/ \E m \in SUBSET loop[p].verdicts : Dispatch(p, m, FALSE)

Reload == ReadFile \/ SwapRules

Next ==
  \/ Minute
  \/ \E k \in Moving : Move(k)
  \/ \E v \in Versions \cup {Broken}, how \in Saves : Edit(v, how)
  \/ Boot \/ Start \/ Stop \/ Exit \/ Crash
  \/ Reload
  \/ \E p \in Loops : Step(p) \/ Failures(p)

Spec == Init /\ [][Next]_vars

\* Time passes, and a process that is up runs its coroutines, its observer
\* and its exit.  Nobody promises to start it again.
Fairness ==
  /\ WF_vars(Minute) /\ WF_vars(Reload) /\ WF_vars(Exit)
  /\ \A p \in Loops : WF_vars(Step(p))
FairSpec == Spec /\ Fairness

-----------------------------------------------------------------------------
(* Properties *)

LoopType ==
  [pc : LoopPCs, left : SUBSET Tickers, on : Tickers \cup {Portfolio},
   kind : Kinds \cup {"none"}, due : SUBSET AllRules,
   rule : AllRules \cup {Nothing}, verdicts : SUBSET AllRules, seen : SUBSET Keys]

\* Every variable has its type, a row that exists has been counted, and a row
\* that is to be bumped exists.
TypeOK ==
  /\ \A k \in Keys : count[k] = 0 <=> age[k] = NoRow
  /\ \A p \in Loops : loop[p].pc = "bump" => age[KeyOf(loop[p].rule)] # NoRow
  /\ hot \subseteq Keys /\ file \in Versions \cup {Broken}
  /\ age \in [Keys -> Nat \cup {NoRow}] /\ count \in [Keys -> 0..MaxCount]
  /\ phase \in {"down", "warmup", "up"} /\ rules \subseteq AllRules
  /\ stop \in BOOLEAN
  /\ loop \in [Loops -> LoopType]
  /\ event \in BOOLEAN /\ read \in Versions \cup {Broken}
  /\ owed \subseteq Keys /\ lost \subseteq Keys /\ quiet \in [Keys -> Nat \cup {NoRow}]
  /\ faults \in Nat /\ stops \in Nat

\* A rule speaks again about the same thing only after its cooldown, also
\* across a reload that changes it and across restarts.
CooldownKept ==
  [][\A p \in Loops : \A r \in loop'[p].verdicts \ loop[p].verdicts :
       quiet[KeyOf(r)] = NoRow \/ quiet[KeyOf(r)] >= r.cooldown]_vars

\* A cooldown is armed before the message is sent.  With channels to send to,
\* every armed alert is sent or about to be, through reloads and shutdowns,
\* unless an exception, a crash or a refused message came between.
MarkedIsSent == HasChannels => owed \subseteq InFlight \cup lost

\* The rules in force are those of the file, or a reload that will make them so
\* is under way, and so it stays, however edits and reloads overlap: of a process
\* that is up, nothing but a save by rename makes it miss the file's content.
InForce ==
  event \/ file = Broken \/ read = file \/ (read = Broken /\ rules = Rules[file])
RenamedOver == \E v \in Versions \cup {Broken} : Edit(v, "rename")
NoEditForgotten ==
  [][phase = "up" /\ phase' = "up" /\ InForce => InForce' \/ RenamedOver]_vars

\* How the alerts of key k stand, as AlertContract tells it, and the cooldowns
\* of its rules.
StageOf(k, flight) ==
  CASE k \in owed /\ k \notin lost /\ k \in flight -> "armed"
    [] k \in owed /\ k \in lost /\ k \notin flight -> "lost"
    [] k \notin owed /\ k \notin lost /\ k \notin flight -> "idle"
    [] OTHER -> "astray"
Stages == LET flight == InFlight IN [k \in Keys |-> StageOf(k, flight)]
CooldownsOf == [k \in Keys |-> {r.cooldown : r \in {q \in AllRules : KeyOf(q) = k}}]

Contract == INSTANCE AlertContract WITH
  Cooldowns <- CooldownsOf, stage <- Stages, since <- quiet, slips <- faults + stops

\* With channels to send to, the loops, reloads and restarts together do no more
\* than AlertContract allows.
ImplementsContract == Contract!Spec

\* A rule whose expression holds from now on is reported, whatever the
\* reloads, the other rules and the (finitely many) failures do.
Reportable(r) ==
  /\ phase = "up" /\ ~stop /\ r \in rules /\ KeyOf(r) \in hot
  /\ r.kind # "portfolio" => HasChannels
  /\ r.kind = "composite" => r.on \in Held
HotIsReported ==
  \A r \in AllRules :
    Reportable(r) ~> ~Reportable(r) \/ \E p \in Loops : r \in loop[p].verdicts

\* Once the observer runs, the rules follow the file.
ReloadFollows ==
  \A v \in Versions :
    phase = "up" /\ event /\ file = v ~> file # v \/ phase # "up" \/ rules = Rules[v]

\* A shutdown ends both loops and the process.
StopEnds == phase = "up" /\ stop ~> phase = "down"

\* The manual: a saved alerts.yml takes effect without a restart.
SavedIsInForce ==
  \A v \in Versions :
    phase = "up" /\ file = v ~> file # v \/ phase # "up" \/ rules = Rules[v]

-----------------------------------------------------------------------------
(* The inductive invariant behind the safety properties *)

\* The rules loop p deals with: no other loop ever marks their keys.
OwnRules(p) == {r \in AllRules : r.kind = "sector" <=> p = "sector"}

\* Loop p in state x deals with its own rules, and what it has found to be
\* out of its cooldown stays so until it is marked.
LoopOK(p, x) ==
  /\ x.due \subseteq OwnRules(p) /\ x.verdicts \subseteq OwnRules(p)
  /\ x.kind = "none" \/ (x.kind = "sector" <=> p = "sector")
  /\ x.pc \in {"bump", "mark"} => x.rule \in OwnRules(p)
  /\ x.pc \in {"off", "idle", "ended"} => x.verdicts = {}
  /\ x.pc = "mark" => \/ quiet[KeyOf(x.rule)] = NoRow
                      \/ quiet[KeyOf(x.rule)] >= x.rule.cooldown

IInv ==
  /\ TypeOK
  /\ quiet = age
  /\ \A p \in Loops : LoopOK(p, loop[p]) /\ (phase = "up" <=> loop[p].pc # "off")
  /\ MarkedIsSent

\* The rules a loop in state x still deals with are about different keys, where
\* each is sent by itself; all verdicts on a ticker go into one message.
Pending(x) == x.due \cup x.verdicts \cup (IF x.pc = "mark" THEN {x.rule} ELSE {})
OneRuleEach(S) == \A r, q \in S : KeyOf(r) = KeyOf(q) => r = q
LoopApart(x) ==
  /\ x.kind \notin TickerKinds => OneRuleEach(Pending(x))
  /\ x.pc = "dispatch" => x.kind \notin DOMAIN NextKind

\* Behind the contract: what is lost is not in flight any more, and what is in
\* flight or lost is owed.
ContractInv ==
  /\ lost \cap InFlight = {} /\ InFlight \cup lost \subseteq owed
  /\ OneRuleEach(rules) /\ \A p \in Loops : LoopApart(loop[p])
=============================================================================
