-------------------------- MODULE QuoteAlertsProofs --------------------------
(***************************************************************************)
(* Proofs about QuoteAlerts, for every watchlist, every set of versions of *)
(* alerts.yml, and any number of reloads, failures, shutdowns and crashes. *)
(***************************************************************************)
EXTENDS QuoteAlerts, TLAPS

-----------------------------------------------------------------------------
(* What the steps of a loop make of its record *)

\* A record of loop p that evaluates afresh, or waits.
Fresh(p, x) ==
  /\ x \in LoopType /\ x.pc \in {"idle", "eval"}
  /\ x.verdicts = {} /\ x.due \subseteq OwnRules(p) \cap rules
  /\ x.kind = "none" \/ (x.kind = "sector" <=> p = "sector")

\* Only rules of the kind looked up are selected.
LEMMA SelectedOwn ==
  ASSUME rules \subseteq AllRules, NEW p \in Loops, NEW on, NEW seen,
         NEW kind \in Kinds, kind = "sector" <=> p = "sector"
  PROVE  Selected(kind, on, seen) \subseteq OwnRules(p) \cap rules
BY DEF Selected, OwnRules

\* Enter starts an evaluation with no verdict.
LEMMA EnterFresh ==
  ASSUME rules \subseteq AllRules, NEW p \in Loops,
         NEW on \in Tickers \cup {Portfolio}, NEW kind \in Kinds,
         NEW left \in SUBSET Tickers, NEW seen \in SUBSET Keys,
         kind = "sector" <=> p = "sector",
         Enter(p, on, kind, left, seen)
  PROVE  \E x : Fresh(p, x) /\ loop' = [loop EXCEPT ![p] = x]
<1>. DEFINE x == [pc |-> "eval", left |-> left, on |-> on, kind |-> kind,
                  due |-> Selected(kind, on, seen), rule |-> Nothing,
                  verdicts |-> {},
                  seen |-> IF kind \in DOMAIN NextKind THEN seen ELSE {}]
<1>1. Selected(kind, on, seen) \subseteq OwnRules(p) \cap rules
  BY SelectedOwn
<1>2. OwnRules(p) \subseteq AllRules
  BY DEF OwnRules
<1>3. x \in LoopType
  BY <1>1, <1>2 DEF LoopType, LoopPCs
<1>4. Fresh(p, x)
  BY <1>1, <1>3 DEF Fresh
<1>5. loop' = [loop EXCEPT ![p] = x]
  BY DEF Enter, SetLoop
<1>6. QED
  BY <1>4, <1>5

\* So does EnterNext, which only the ticker loop takes.
LEMMA EnterNextFresh ==
  ASSUME rules \subseteq AllRules, NEW p \in Loops, p # "sector",
         NEW left \in SUBSET Tickers, NEW seen \in SUBSET Keys,
         EnterNext(p, left, seen)
  PROVE  \E x : Fresh(p, x) /\ loop' = [loop EXCEPT ![p] = x]
<1>1. CASE left # {} /\ HasChannels
  <2>1. PICK t \in left : Enter(p, t, "threshold", left \ {t}, seen)
    BY <1>1 DEF EnterNext
  <2>2. "threshold" \in Kinds /\ t \in Tickers /\ left \ {t} \in SUBSET Tickers
    BY DEF Kinds, TickerKinds
  <2>3. QED
    BY <2>1, <2>2, EnterFresh
<1>2. CASE ~(left # {} /\ HasChannels)
  <2>1. Enter(p, Portfolio, "portfolio", {}, seen)
    BY <1>2 DEF EnterNext
  <2>2. "portfolio" \in Kinds
    BY DEF Kinds
  <2>3. QED
    BY <2>1, <2>2, EnterFresh
<1>3. QED
  BY <1>1, <1>2

\* A waiting loop is fresh, and Leave leaves one.
LEMMA WaitingFresh ==
  ASSUME NEW p \in Loops
  PROVE  Fresh(p, Waiting) /\ Waiting.pc = "idle"
BY DEF Fresh, Waiting, LoopType, LoopPCs

LEMMA LeaveFresh ==
  ASSUME rules \subseteq AllRules, NEW p \in Loops, loop[p] \in LoopType,
         loop[p].kind = "none" \/ (loop[p].kind = "sector" <=> p = "sector"),
         Leave(p)
  PROVE  \E x : Fresh(p, x) /\ loop' = [loop EXCEPT ![p] = x]
<1>1. CASE loop[p].kind = "event"
  <2>1. EnterNext(p, loop[p].left, loop[p].seen)
    BY <1>1 DEF Leave
  <2>2. p # "sector" /\ loop[p].left \in SUBSET Tickers /\ loop[p].seen \in SUBSET Keys
    BY <1>1 DEF LoopType
  <2>3. QED
    BY <2>1, <2>2, EnterNextFresh
<1>2. CASE loop[p].kind # "event"
  BY <1>2, WaitingFresh DEF Leave, SetLoop
<1>3. QED
  BY <1>1, <1>2

-----------------------------------------------------------------------------
(* The inductive invariant *)

\* The two loops never deal with the same row of alert_state.
LEMMA OwnKeys ==
  ASSUME NEW p \in Loops, NEW q \in Loops, p # q,
         NEW r \in OwnRules(p), NEW s \in OwnRules(q)
  PROVE  KeyOf(r) # KeyOf(s)
<1>1. r \in AllRules /\ s \in AllRules
  BY DEF OwnRules
<1>2. PICK a \in AllRules, b \in AllRules :
        a.kind = "sector" /\ b.kind # "sector" /\ {a, b} = {r, s}
  BY <1>1 DEF OwnRules, Loops
<1>3. a.on \notin Tickers /\ a.on # Portfolio
  BY <1>2, QuoteConstantsOK
<1>4. b.on \in Tickers \/ b.on = Portfolio
  BY <1>2, QuoteConstantsOK DEF Kinds
<1>5. a.on # b.on
  BY <1>3, <1>4
<1>6. r.on # s.on
  BY <1>2, <1>5
<1>7. QED
  BY <1>6 DEF KeyOf

\* A rule's key is a key, and its cooldown a number.
LEMMA RuleTypes ==
  ASSUME NEW r \in AllRules
  PROVE  KeyOf(r) \in Keys /\ r.cooldown \in Nat
BY QuoteConstantsOK DEF Keys

LEMMA KeysOfType ==
  ASSUME NEW S \in SUBSET AllRules
  PROVE  KeysOf(S) \subseteq Keys
BY RuleTypes DEF KeysOf

LEMMA FreshOK ==
  ASSUME NEW p \in Loops, NEW x, Fresh(p, x)
  PROVE  LoopOK(p, x) /\ x \in LoopType /\ x.pc \notin {"bump", "off"}
BY DEF Fresh, LoopOK

\* What is owed stays covered when loop p moves on, unless it drops a verdict
\* it has not accounted for.
LEMMA Covered ==
  ASSUME MarkedIsSent, NEW p \in Loops, NEW x, loop \in [Loops -> LoopType],
         loop' = [loop EXCEPT ![p] = x], lost \subseteq lost', owed' \subseteq owed,
         HasChannels =>
           owed' \cap KeysOf(loop[p].verdicts) \subseteq KeysOf(x.verdicts) \cup lost'
  PROVE  MarkedIsSent'
<1>. SUFFICES ASSUME HasChannels, NEW k \in owed' PROVE k \in InFlight' \cup lost'
  BY DEF MarkedIsSent
<1>1. k \in InFlight \cup lost
  BY DEF MarkedIsSent
<1>2. CASE k \in lost
  BY <1>2
<1>3. CASE k \in InFlight
  <2>1. PICK q \in Loops : k \in KeysOf(loop[q].verdicts)
    BY <1>3 DEF InFlight
  <2>2. CASE q = p
    <3>1. k \in KeysOf(x.verdicts) \cup lost'
      BY <2>1, <2>2
    <3>2. loop'[p].verdicts = x.verdicts
      OBVIOUS
    <3>3. KeysOf(x.verdicts) \subseteq InFlight'
      BY <3>2 DEF InFlight, KeysOf
    <3>4. QED
      BY <3>1, <3>3
  <2>3. CASE q # p
    <3>1. loop'[q] = loop[q]
      BY <2>3
    <3>2. k \in KeysOf(loop'[q].verdicts)
      BY <2>1, <3>1
    <3>3. QED
      BY <3>2 DEF InFlight, KeysOf
  <2>4. QED
    BY <2>2, <2>3
<1>4. QED
  BY <1>1, <1>2, <1>3

\* A step of loop p that leaves the table alone.
LEMMA LoopStep ==
  ASSUME IInv, NEW p \in Loops, NEW x \in LoopType, LoopOK(p, x),
         x.pc = "bump" => age[KeyOf(x.rule)] # NoRow,
         x.pc # "off", loop[p].pc # "off", loop' = [loop EXCEPT ![p] = x],
         UNCHANGED <<world, table, phase, rules, stop, watcher, quiet>>,
         faults' \in Nat, stops' \in Nat, owed' \subseteq owed, lost' \subseteq Keys,
         MarkedIsSent'
  PROVE  IInv'
<1>. USE DEF IInv
<1>u. /\ hot' = hot /\ file' = file /\ age' = age /\ count' = count
      /\ phase' = phase /\ rules' = rules /\ stop' = stop
      /\ event' = event /\ read' = read /\ quiet' = quiet
  BY DEF world, table, watcher
<1>l. loop \in [Loops -> LoopType]
  BY DEF TypeOK
<1>1. loop' \in [Loops -> LoopType]
  BY <1>l
<1>2. \A q \in Loops : loop'[q].pc = "bump" => age[KeyOf(loop'[q].rule)] # NoRow
  BY <1>l DEF TypeOK
<1>3. TypeOK'
  BY <1>1, <1>2, <1>u DEF TypeOK
<1>4. \A q \in Loops : LoopOK(q, loop[q])' /\ (phase' = "up" <=> loop'[q].pc # "off")
  <2>. SUFFICES ASSUME NEW q \in Loops
                PROVE  LoopOK(q, loop[q])' /\ (phase' = "up" <=> loop'[q].pc # "off")
    OBVIOUS
  <2>1. CASE q = p
    BY <2>1, <1>u, <1>l DEF LoopOK
  <2>2. CASE q # p
    <3>1. loop'[q] = loop[q]
      BY <2>2, <1>l
    <3>2. QED
      BY <3>1, <1>u DEF LoopOK
  <2>3. QED
    BY <2>1, <2>2
<1>5. QED
  BY <1>u, <1>3, <1>4

\* The same, when the loop starts afresh or waits again: its verdicts are
\* sent or counted as lost.
LEMMA FreshStep ==
  ASSUME IInv, NEW p \in Loops, NEW x, Fresh(p, x),
         loop[p].pc # "off", loop' = [loop EXCEPT ![p] = x],
         UNCHANGED <<world, table, phase, rules, stop, watcher, quiet>>,
         faults' \in Nat, stops' \in Nat, owed' \subseteq owed,
         lost \subseteq lost', lost' \subseteq Keys,
         HasChannels => owed' \cap KeysOf(loop[p].verdicts) \subseteq lost'
  PROVE  IInv'
<1>1. LoopOK(p, x) /\ x \in LoopType /\ x.pc \notin {"bump", "off"}
  BY FreshOK
<1>2. MarkedIsSent'
  BY Covered DEF IInv, TypeOK
<1>3. QED
  BY <1>1, <1>2, LoopStep

\* What the invariant says of one loop.
LEMMA LoopFacts ==
  ASSUME IInv, NEW p \in Loops
  PROVE  /\ loop[p] \in LoopType /\ LoopOK(p, loop[p])
         /\ loop[p].verdicts \subseteq AllRules /\ loop[p].due \subseteq AllRules
         /\ KeysOf(loop[p].verdicts) \subseteq Keys
         /\ rules \subseteq AllRules /\ hot \subseteq Keys
         /\ faults \in Nat /\ stops \in Nat /\ owed \subseteq Keys /\ lost \subseteq Keys
<1>1. TypeOK /\ LoopOK(p, loop[p])
  BY DEF IInv
<1>2. loop[p] \in LoopType
  BY <1>1 DEF TypeOK
<1>3. loop[p].verdicts \subseteq AllRules /\ loop[p].due \subseteq AllRules
  BY <1>2 DEF LoopType
<1>4. QED
  BY <1>1, <1>2, <1>3, KeysOfType DEF TypeOK

-----------------------------------------------------------------------------
(* The steps of a loop *)

\* A new round, of tickers or of sectors.
LEMMA PollStep ==
  ASSUME IInv,
         (\E S \in SUBSET Tickers : PollTickers(S)) \/ PollSectors
  PROVE  IInv'
<1>1. ASSUME NEW S \in SUBSET Tickers, PollTickers(S) PROVE IInv'
  <2>. DEFINE p == "ticker"
  <2>0. p \in Loops /\ p # "sector"
    BY DEF Loops
  <2>1. /\ rules \subseteq AllRules /\ hot \in SUBSET Keys
        /\ faults \in Nat /\ stops \in Nat /\ lost \subseteq Keys
    BY <2>0, LoopFacts
  <2>2. PICK x : Fresh(p, x) /\ loop' = [loop EXCEPT ![p] = x]
    BY <1>1, <2>0, <2>1, EnterNextFresh DEF PollTickers
  <2>3. loop[p].pc = "idle" /\ loop[p].verdicts = {}
    BY <1>1, <2>0, LoopFacts DEF PollTickers, LoopOK
  <2>4. KeysOf(loop[p].verdicts) = {}
    BY <2>3 DEF KeysOf
  <2>5. /\ UNCHANGED <<world, table, phase, rules, stop, watcher, history, stops>>
        /\ faults' \in Nat
    BY <1>1, <2>1 DEF PollTickers
  <2>6. QED
    BY <2>0, <2>1, <2>2, <2>3, <2>4, <2>5, FreshStep DEF history
<1>2. ASSUME PollSectors PROVE IInv'
  <2>. DEFINE p == "sector"
  <2>0. p \in Loops /\ "sector" \in Kinds
    BY DEF Loops, Kinds
  <2>1. /\ rules \subseteq AllRules /\ hot \in SUBSET Keys
        /\ faults \in Nat /\ stops \in Nat /\ lost \subseteq Keys
    BY <2>0, LoopFacts
  <2>2. PICK x : Fresh(p, x) /\ loop' = [loop EXCEPT ![p] = x]
    BY <1>2, <2>0, <2>1, EnterFresh DEF PollSectors
  <2>3. loop[p].pc = "idle" /\ loop[p].verdicts = {}
    BY <1>2, <2>0, LoopFacts DEF PollSectors, LoopOK
  <2>4. KeysOf(loop[p].verdicts) = {}
    BY <2>3 DEF KeysOf
  <2>5. UNCHANGED <<world, table, phase, rules, stop, watcher, history, faults, stops>>
    BY <1>2 DEF PollSectors
  <2>6. QED
    BY <2>0, <2>1, <2>2, <2>3, <2>4, <2>5, FreshStep DEF history
<1>3. QED
  BY <1>1, <1>2

\* A rule out of its cooldown is to be marked: quiet says so too.
LEMMA CheckStep ==
  ASSUME IInv, NEW p \in Loops, NEW r \in loop[p].due, Check(p, r)
  PROVE  IInv'
<1>. DEFINE x == [loop[p] EXCEPT !.pc = IF InCooldown(r) THEN "bump" ELSE "mark",
                                 !.due = @ \ {r}, !.rule = r]
<1>1. /\ loop[p] \in LoopType /\ LoopOK(p, loop[p]) /\ faults \in Nat
      /\ stops \in Nat /\ lost \subseteq Keys /\ loop[p].due \subseteq AllRules
  BY LoopFacts
<1>2. r \in AllRules /\ r \in OwnRules(p) /\ KeyOf(r) \in Keys /\ r.cooldown \in Nat
  BY <1>1, RuleTypes DEF LoopOK
<1>3. x \in LoopType
  BY <1>1, <1>2 DEF LoopType, LoopPCs
<1>4. /\ x.rule = r /\ x.verdicts = loop[p].verdicts /\ x.kind = loop[p].kind
      /\ x.due \subseteq loop[p].due
      /\ x.pc = IF InCooldown(r) THEN "bump" ELSE "mark"
  BY <1>1 DEF LoopType
<1>5. quiet = age /\ age[KeyOf(r)] \in Nat \cup {NoRow}
  BY <1>2 DEF IInv, TypeOK
<1>6. x.pc = "bump" => age[KeyOf(r)] # NoRow
  BY <1>4 DEF InCooldown
<1>7. x.pc = "mark" => quiet[KeyOf(r)] = NoRow \/ quiet[KeyOf(r)] >= r.cooldown
  BY <1>2, <1>4, <1>5 DEF InCooldown
<1>8. LoopOK(p, x)
  BY <1>1, <1>2, <1>4, <1>7 DEF LoopOK
<1>9. /\ loop' = [loop EXCEPT ![p] = x] /\ loop[p].pc # "off" /\ x.pc # "off"
      /\ UNCHANGED <<world, table, phase, rules, stop, watcher, history, faults, stops>>
  BY <1>4 DEF Check, SetLoop
<1>10. MarkedIsSent'
  BY <1>4, <1>9, Covered DEF IInv, TypeOK, history
<1>11. QED
  BY <1>1, <1>3, <1>4, <1>6, <1>8, <1>9, <1>10, LoopStep DEF history

\* The next kind of rule, an answer to the last one, the end of the loop.
LEMMA LookUpStep ==
  ASSUME IInv, NEW p \in Loops, LookUp(p)
  PROVE  IInv'
<1>. DEFINE kind == NextKind[loop[p].kind]
            x == [loop[p] EXCEPT !.kind = kind,
                    !.due = Selected(kind, loop[p].on, loop[p].seen)]
<1>1. /\ loop[p] \in LoopType /\ LoopOK(p, loop[p]) /\ rules \subseteq AllRules
      /\ faults \in Nat /\ stops \in Nat /\ lost \subseteq Keys
  BY LoopFacts
<1>2. loop[p].pc = "eval" /\ loop[p].kind \in DOMAIN NextKind
  BY DEF LookUp
<1>3. kind \in {"composite", "indicator", "event"} /\ loop[p].kind \notin {"none", "sector"}
  BY <1>2 DEF NextKind
<1>4. kind \in Kinds /\ (kind = "sector" <=> p = "sector")
  BY <1>1, <1>3 DEF Kinds, TickerKinds, LoopOK
<1>5. Selected(kind, loop[p].on, loop[p].seen) \subseteq OwnRules(p)
  BY <1>1, <1>4, SelectedOwn
<1>6. x \in LoopType
  BY <1>1, <1>4, <1>5 DEF LoopType, OwnRules
<1>7. /\ x.pc = "eval" /\ x.verdicts = loop[p].verdicts /\ x.kind = kind
      /\ x.due = Selected(kind, loop[p].on, loop[p].seen)
  BY <1>1, <1>2 DEF LoopType
<1>8. LoopOK(p, x)
  BY <1>1, <1>4, <1>5, <1>7 DEF LoopOK
<1>9. /\ loop' = [loop EXCEPT ![p] = x] /\ loop[p].pc # "off" /\ x.pc \notin {"off", "bump"}
      /\ UNCHANGED <<world, table, phase, rules, stop, watcher, history, faults, stops>>
  BY <1>2, <1>7 DEF LookUp, SetLoop
<1>10. MarkedIsSent'
  BY <1>7, <1>9, Covered DEF IInv, TypeOK, history
<1>11. QED
  BY <1>1, <1>6, <1>8, <1>9, <1>10, LoopStep DEF history

LEMMA EvaluatedStep ==
  ASSUME IInv, NEW p \in Loops, Evaluated(p)
  PROVE  IInv'
<1>1. /\ loop[p] \in LoopType /\ LoopOK(p, loop[p]) /\ rules \subseteq AllRules
      /\ faults \in Nat /\ stops \in Nat /\ lost \subseteq Keys
  BY LoopFacts
<1>2. /\ loop[p].pc = "eval"
      /\ UNCHANGED <<world, table, phase, rules, stop, watcher, history, faults, stops>>
  BY DEF Evaluated
<1>3. CASE loop[p].verdicts = {}
  <2>1. PICK x : Fresh(p, x) /\ loop' = [loop EXCEPT ![p] = x]
    BY <1>1, <1>3, LeaveFresh DEF Evaluated, LoopOK
  <2>2. KeysOf(loop[p].verdicts) = {}
    BY <1>3 DEF KeysOf
  <2>3. QED
    BY <1>1, <1>2, <2>1, <2>2, FreshStep DEF history
<1>4. CASE loop[p].verdicts # {}
  <2>. DEFINE x == [loop[p] EXCEPT !.pc = "dispatch"]
  <2>1. /\ x \in LoopType /\ x.pc = "dispatch" /\ x.verdicts = loop[p].verdicts
        /\ x.due = loop[p].due /\ x.kind = loop[p].kind
    BY <1>1 DEF LoopType, LoopPCs
  <2>2. LoopOK(p, x)
    BY <1>1, <2>1 DEF LoopOK
  <2>3. loop' = [loop EXCEPT ![p] = x]
    BY <1>4 DEF Evaluated, SetLoop
  <2>4. MarkedIsSent'
    BY <1>2, <2>1, <2>3, Covered DEF IInv, TypeOK, history
  <2>5. QED
    BY <1>1, <1>2, <2>1, <2>2, <2>3, <2>4, LoopStep DEF history
<1>5. QED
  BY <1>3, <1>4

LEMMA EndLoopStep ==
  ASSUME IInv, NEW p \in Loops, EndLoop(p)
  PROVE  IInv'
<1>. DEFINE x == [Waiting EXCEPT !.pc = "ended"]
<1>1. /\ loop[p] \in LoopType /\ LoopOK(p, loop[p])
      /\ faults \in Nat /\ stops \in Nat /\ lost \subseteq Keys
  BY LoopFacts
<1>2. /\ loop[p].pc = "idle" /\ loop' = [loop EXCEPT ![p] = x]
      /\ UNCHANGED <<world, table, phase, rules, stop, watcher, history, faults, stops>>
  BY DEF EndLoop, SetLoop
<1>3. /\ x \in LoopType /\ x.pc = "ended" /\ x.verdicts = {} /\ x.due = {}
      /\ x.kind = "none"
  BY DEF Waiting, LoopType, LoopPCs
<1>4. LoopOK(p, x) /\ loop[p].verdicts = {}
  BY <1>1, <1>2, <1>3 DEF LoopOK
<1>5. MarkedIsSent'
  BY <1>2, <1>3, <1>4, Covered DEF IInv, TypeOK, history
<1>6. QED
  BY <1>1, <1>2, <1>3, <1>4, <1>5, LoopStep DEF history

\* An exception drops the verdicts, and counts them as lost.
LEMMA RaisesStep ==
  ASSUME IInv, NEW p \in Loops, Raises(p)
  PROVE  IInv'
<1>1. /\ KeysOf(loop[p].verdicts) \subseteq Keys
      /\ faults \in Nat /\ stops \in Nat /\ lost \subseteq Keys
  BY LoopFacts
<1>2. /\ loop[p].pc # "off" /\ loop' = [loop EXCEPT ![p] = Waiting]
      /\ faults' = faults + 1 /\ lost' = lost \cup KeysOf(loop[p].verdicts)
      /\ UNCHANGED <<world, table, phase, rules, stop, watcher, owed, quiet, stops>>
  BY DEF Raises, SetLoop
<1>3. faults' \in Nat /\ lost' \subseteq Keys
  BY <1>1, <1>2
<1>4. Fresh(p, Waiting)
  BY WaitingFresh
<1>5. QED
  BY <1>1, <1>2, <1>3, <1>4, FreshStep

\* A message is sent, or refused and counted as lost.
LEMMA DispatchStep ==
  ASSUME IInv, NEW p \in Loops, NEW m \in SUBSET loop[p].verdicts, NEW ok \in BOOLEAN,
         Dispatch(p, m, ok)
  PROVE  IInv'
<1>. DEFINE V == loop[p].verdicts
            left == V \ m
            x == [loop[p] EXCEPT !.verdicts = left]
<1>1. /\ loop[p] \in LoopType /\ LoopOK(p, loop[p]) /\ rules \subseteq AllRules
      /\ V \subseteq AllRules /\ KeysOf(V) \subseteq Keys
      /\ faults \in Nat /\ stops \in Nat /\ lost \subseteq Keys
  BY LoopFacts
<1>2. /\ loop[p].pc = "dispatch" /\ m \in Messages(p) /\ AfterMessage(p, left)
      /\ UNCHANGED <<world, table, phase, rules, stop, watcher, quiet, stops>>
  BY DEF Dispatch
<1>3. KeysOf(m) \subseteq Keys /\ KeysOf(V) \subseteq KeysOf(left) \cup KeysOf(m)
  BY <1>1 DEF KeysOf
<1>4. /\ faults' \in Nat /\ owed' \subseteq owed /\ lost \subseteq lost' /\ lost' \subseteq Keys
      /\ HasChannels => owed' \cap KeysOf(m) \subseteq lost'
  <2>1. CASE ok
    BY <1>1, <2>1 DEF Dispatch
  <2>2. CASE ~ok
    BY <1>1, <1>3, <2>2 DEF Dispatch
  <2>3. QED
    BY <2>1, <2>2
<1>5. CASE left = {} \/ loop[p].kind = "event"
  <2>1. m = V
    BY <1>2, <1>5 DEF Messages
  <2>2. Leave(p)
    BY <1>2, <1>5 DEF AfterMessage
  <2>3. PICK y : Fresh(p, y) /\ loop' = [loop EXCEPT ![p] = y]
    BY <1>1, <2>2, LeaveFresh DEF LoopOK
  <2>4. QED
    BY <1>1, <1>2, <1>4, <2>1, <2>3, FreshStep
<1>6. CASE ~(left = {} \/ loop[p].kind = "event")
  <2>1. /\ x \in LoopType /\ x.pc = "dispatch" /\ x.verdicts = left
        /\ x.due = loop[p].due /\ x.kind = loop[p].kind
    BY <1>1, <1>2 DEF LoopType
  <2>2. LoopOK(p, x)
    BY <1>1, <2>1 DEF LoopOK
  <2>3. loop' = [loop EXCEPT ![p] = x]
    BY <1>2, <1>6 DEF AfterMessage, SetLoop
  <2>4. HasChannels => owed' \cap KeysOf(V) \subseteq KeysOf(left) \cup lost'
    BY <1>3, <1>4
  <2>5. MarkedIsSent'
    BY <1>4, <2>1, <2>3, <2>4, Covered DEF IInv, TypeOK
  <2>6. QED
    BY <1>1, <1>2, <1>4, <2>1, <2>2, <2>3, <2>5, LoopStep
<1>7. QED
  BY <1>5, <1>6

\* A bump counts, and leaves the cooldown as it is.
LEMMA BumpStep ==
  ASSUME IInv, NEW p \in Loops, Bump(p)
  PROVE  IInv'
<1>. DEFINE r == loop[p].rule
            k == KeyOf(r)
            x == [loop[p] EXCEPT !.pc = "eval", !.rule = Nothing]
<1>1. loop[p] \in LoopType /\ LoopOK(p, loop[p]) /\ TypeOK
  BY LoopFacts DEF IInv
<1>2. /\ loop[p].pc = "bump" /\ loop' = [loop EXCEPT ![p] = x]
      /\ count' = CountUp(k) /\ age' = age
      /\ UNCHANGED <<world, phase, rules, stop, watcher, history, faults, stops>>
  BY DEF Bump, SetLoop, AgeAfterBump
<1>3. r \in OwnRules(p) /\ r \in AllRules
  BY <1>1, <1>2 DEF LoopOK, OwnRules
<1>4. k \in Keys /\ age[k] # NoRow
  BY <1>1, <1>2, <1>3, RuleTypes DEF TypeOK
<1>5. /\ count' \in [Keys -> 0..MaxCount]
      /\ \A j \in Keys : count'[j] = 0 <=> age'[j] = NoRow
  <2>1. count' = [count EXCEPT ![k] = IF @ = MaxCount THEN @ ELSE @ + 1]
    BY <1>2 DEF CountUp
  <2>2. MaxCount \in Nat \ {0} /\ count \in [Keys -> 0..MaxCount]
    BY <1>1, QuoteConstantsOK DEF TypeOK
  <2>3. count'[k] # 0 /\ count'[k] \in 0..MaxCount
    BY <1>4, <2>1, <2>2
  <2>4. \A j \in Keys : j # k => count'[j] = count[j]
    BY <2>1, <2>2
  <2>5. QED
    BY <1>1, <1>2, <1>4, <2>1, <2>2, <2>3, <2>4 DEF TypeOK
<1>6. /\ x \in LoopType /\ x.pc = "eval" /\ x.verdicts = loop[p].verdicts
      /\ x.due = loop[p].due /\ x.kind = loop[p].kind
  BY <1>1 DEF LoopType, LoopPCs
<1>u. /\ hot' = hot /\ file' = file /\ quiet' = quiet /\ owed' = owed /\ lost' = lost
      /\ phase' = phase /\ rules' = rules /\ stop' = stop
      /\ event' = event /\ read' = read /\ faults' = faults /\ stops' = stops
  BY <1>2 DEF world, watcher, history
<1>7. loop' \in [Loops -> LoopType]
  BY <1>1, <1>2, <1>6 DEF TypeOK
<1>8. \A q \in Loops : loop'[q].pc = "bump" => age'[KeyOf(loop'[q].rule)] # NoRow
  BY <1>1, <1>2, <1>6 DEF TypeOK
<1>9. TypeOK'
  BY <1>1, <1>5, <1>7, <1>8, <1>2, <1>u DEF TypeOK
<1>10. \A q \in Loops : LoopOK(q, loop[q])' /\ (phase' = "up" <=> loop'[q].pc # "off")
  <2>. SUFFICES ASSUME NEW q \in Loops
                PROVE  LoopOK(q, loop[q])' /\ (phase' = "up" <=> loop'[q].pc # "off")
    OBVIOUS
  <2>1. CASE q = p
    BY <2>1, <1>1, <1>2, <1>6, <1>u DEF LoopOK, IInv, TypeOK
  <2>2. CASE q # p
    <3>1. loop'[q] = loop[q]
      BY <2>2, <1>1, <1>2 DEF TypeOK
    <3>2. QED
      BY <3>1, <1>u DEF LoopOK, IInv
  <2>3. QED
    BY <2>1, <2>2
<1>11. MarkedIsSent'
  BY <1>1, <1>2, <1>6, <1>u, Covered DEF IInv, TypeOK
<1>12. QED
  BY <1>9, <1>10, <1>11, <1>2, <1>u DEF IInv

\* A mark arms the cooldown of a row that no other loop is about to mark, and
\* the verdict it produces is in flight.
LEMMA MarkStep ==
  ASSUME IInv, NEW p \in Loops, Mark(p)
  PROVE  IInv'
<1>. DEFINE r == loop[p].rule
            k == KeyOf(r)
            x == [loop[p] EXCEPT !.pc = "eval", !.rule = Nothing, !.verdicts = @ \cup {r}]
<1>1. loop[p] \in LoopType /\ LoopOK(p, loop[p]) /\ TypeOK /\ quiet = age
  BY LoopFacts DEF IInv
<1>2. /\ loop[p].pc = "mark" /\ loop' = [loop EXCEPT ![p] = x]
      /\ count' = CountUp(k) /\ age' = [age EXCEPT ![k] = 0]
      /\ quiet' = [quiet EXCEPT ![k] = 0]
      /\ owed' = owed \cup {k} /\ lost' = lost \ {k}
      /\ UNCHANGED <<world, phase, rules, stop, watcher, faults, stops>>
  BY DEF Mark, SetLoop
<1>3. r \in OwnRules(p) /\ r \in AllRules
  BY <1>1, <1>2 DEF LoopOK, OwnRules
<1>4. k \in Keys
  BY <1>3, RuleTypes
<1>5. /\ count' \in [Keys -> 0..MaxCount] /\ age' \in [Keys -> Nat \cup {NoRow}]
      /\ \A j \in Keys : count'[j] = 0 <=> age'[j] = NoRow
  <2>1. count' = [count EXCEPT ![k] = IF @ = MaxCount THEN @ ELSE @ + 1]
    BY <1>2 DEF CountUp
  <2>2. /\ MaxCount \in Nat \ {0} /\ count \in [Keys -> 0..MaxCount]
        /\ age \in [Keys -> Nat \cup {NoRow}]
    BY <1>1, QuoteConstantsOK DEF TypeOK
  <2>3. count'[k] # 0 /\ count'[k] \in 0..MaxCount /\ age'[k] = 0
    BY <1>2, <1>4, <2>1, <2>2
  <2>4. \A j \in Keys : j # k => count'[j] = count[j] /\ age'[j] = age[j]
    BY <1>2, <2>1, <2>2
  <2>5. NoRow # 0
    BY DEF NoRow
  <2>6. age' \in [Keys -> Nat \cup {NoRow}] /\ count' \in [Keys -> 0..MaxCount]
    BY <1>2, <2>1, <2>2, <2>3
  <2>7. QED
    BY <1>1, <2>3, <2>4, <2>5, <2>6 DEF TypeOK
<1>6. /\ x \in LoopType /\ x.pc = "eval" /\ x.verdicts = loop[p].verdicts \cup {r}
      /\ x.due = loop[p].due /\ x.kind = loop[p].kind
  BY <1>1, <1>3 DEF LoopType, LoopPCs
<1>u. /\ hot' = hot /\ file' = file
      /\ phase' = phase /\ rules' = rules /\ stop' = stop
      /\ event' = event /\ read' = read /\ faults' = faults /\ stops' = stops
  BY <1>2 DEF world, watcher
<1>7. loop' \in [Loops -> LoopType]
  BY <1>1, <1>2, <1>6 DEF TypeOK
<1>n. loop'[p] = x /\ \A q \in Loops \ {p} : loop'[q] = loop[q]
  BY <1>1, <1>2 DEF TypeOK
<1>8. \A q \in Loops : loop'[q].pc = "bump" => age'[KeyOf(loop'[q].rule)] # NoRow
  <2>. SUFFICES ASSUME NEW q \in Loops \ {p}, loop[q].pc = "bump"
                PROVE  age'[KeyOf(loop[q].rule)] # NoRow
    BY <1>6, <1>n
  <2>1. age[KeyOf(loop[q].rule)] # NoRow /\ loop[q].rule \in OwnRules(q)
    BY <1>1, LoopFacts DEF TypeOK, LoopOK
  <2>2. KeyOf(loop[q].rule) # k
    BY <1>3, <2>1, OwnKeys
  <2>3. age'[KeyOf(loop[q].rule)] = age[KeyOf(loop[q].rule)]
    BY <1>2, <2>2, <2>1, <1>1, RuleTypes DEF TypeOK, OwnRules
  <2>4. QED
    BY <2>1, <2>3
<1>9. TypeOK'
  <2>1. owed' \subseteq Keys /\ lost' \subseteq Keys /\ quiet' \in [Keys -> Nat \cup {NoRow}]
    BY <1>1, <1>2, <1>4, <1>5 DEF TypeOK
  <2>2. QED
    BY <1>1, <1>5, <1>7, <1>8, <2>1, <1>u DEF TypeOK
<1>10. \A q \in Loops : LoopOK(q, loop[q])' /\ (phase' = "up" <=> loop'[q].pc # "off")
  <2>. SUFFICES ASSUME NEW q \in Loops
                PROVE  LoopOK(q, loop[q])' /\ (phase' = "up" <=> loop'[q].pc # "off")
    OBVIOUS
  <2>1. CASE q = p
    <3>1. LoopOK(p, x)
      BY <1>1, <1>3, <1>6 DEF LoopOK
    <3>2. phase = "up"
      BY <1>2 DEF IInv
    <3>3. loop'[q] = x
      BY <2>1, <1>n
    <3>4. LoopOK(q, loop[q])'
      BY <2>1, <3>1, <3>3, <1>6 DEF LoopOK
    <3>5. QED
      BY <3>2, <3>3, <3>4, <1>6, <1>u
  <2>2. CASE q # p
    <3>1. loop'[q] = loop[q] /\ LoopOK(q, loop[q])
      BY <2>2, <1>n, LoopFacts
    <3>2. loop[q].pc = "mark" => quiet'[KeyOf(loop[q].rule)] = quiet[KeyOf(loop[q].rule)]
      <4>. SUFFICES ASSUME loop[q].pc = "mark"
                    PROVE  quiet'[KeyOf(loop[q].rule)] = quiet[KeyOf(loop[q].rule)]
        OBVIOUS
      <4>1. loop[q].rule \in OwnRules(q) /\ KeyOf(loop[q].rule) # k
        BY <1>3, <2>2, <3>1, OwnKeys DEF LoopOK
      <4>2. KeyOf(loop[q].rule) \in Keys /\ quiet \in [Keys -> Nat \cup {NoRow}]
        BY <1>1, <4>1, RuleTypes DEF OwnRules, TypeOK
      <4>3. QED
        BY <1>2, <4>1, <4>2
    <3>3. phase = "up" <=> loop[q].pc # "off"
      BY DEF IInv
    <3>4. QED
      BY <3>1, <3>2, <3>3, <1>u DEF LoopOK
  <2>3. QED
    BY <2>1, <2>2
<1>11. MarkedIsSent'
  <2>. SUFFICES ASSUME HasChannels, NEW j \in owed' PROVE j \in InFlight' \cup lost'
    BY DEF MarkedIsSent
  <2>1. CASE j = k
    <3>1. r \in loop'[p].verdicts
      BY <1>6, <1>n
    <3>2. k \in KeysOf(loop'[p].verdicts)
      BY <3>1 DEF KeysOf
    <3>3. QED
      BY <2>1, <3>2 DEF InFlight, KeysOf
  <2>2. CASE j # k
    <3>1. j \in InFlight \cup lost
      BY <2>2, <1>2 DEF IInv, MarkedIsSent
    <3>2. CASE j \in lost
      BY <2>2, <3>2, <1>2
    <3>3. CASE j \in InFlight
      <4>1. PICK q \in Loops : j \in KeysOf(loop[q].verdicts)
        BY <3>3 DEF InFlight
      <4>2. loop[q].verdicts \subseteq loop'[q].verdicts
        BY <1>6, <1>n
      <4>3. QED
        BY <4>1, <4>2 DEF InFlight, KeysOf
    <3>4. QED
      BY <3>1, <3>2, <3>3
  <2>3. QED
    BY <2>1, <2>2
<1>12. QED
  BY <1>1, <1>2, <1>9, <1>10, <1>11 DEF IInv

\* Every step of a loop, in order or failing.
LEMMA AnyLoopStep ==
  ASSUME IInv, NEW p \in Loops, Step(p) \/ Failures(p)
  PROVE  IInv'
<1>1. ASSUME PollNothing(p) PROVE IInv'
  BY <1>1 DEF PollNothing, vars, world, table, watcher, history, IInv, TypeOK, LoopOK,
       MarkedIsSent, InFlight, KeysOf
<1>2. QED
  BY <1>1, PollStep, CheckStep, BumpStep, MarkStep, LookUpStep, EvaluatedStep,
     DispatchStep, EndLoopStep, RaisesStep DEF Step, Failures

-----------------------------------------------------------------------------
(* The world and the process *)

\* The loops, the table and what is owed are left alone.
LEMMA AroundStep ==
  ASSUME IInv, UNCHANGED <<table, loop, history>>,
         phase' = phase \/ {phase, phase'} = {"down", "warmup"},
         hot' \subseteq Keys, file' \in Versions \cup {Broken}, rules' \subseteq AllRules,
         phase' \in {"down", "warmup", "up"}, stop' \in BOOLEAN, event' \in BOOLEAN,
         read' \in Versions \cup {Broken}, faults' \in Nat, stops' \in Nat
  PROVE  IInv'
<1>1. /\ age' = age /\ count' = count /\ loop' = loop
      /\ owed' = owed /\ lost' = lost /\ quiet' = quiet
  BY DEF table, history
<1>2. TypeOK'
  BY <1>1 DEF IInv, TypeOK
<1>3. MarkedIsSent'
  BY <1>1 DEF IInv, MarkedIsSent, InFlight
<1>4. \A p \in Loops : LoopOK(p, loop[p])' /\ (phase' = "up" <=> loop'[p].pc # "off")
  BY <1>1 DEF IInv, LoopOK
<1>5. QED
  BY <1>1, <1>2, <1>3, <1>4 DEF IInv

\* Time makes rows older, and no cooldown run again.
LEMMA MinuteStep ==
  ASSUME IInv, Minute
  PROVE  IInv'
<1>1. /\ TypeOK /\ age' = Older(age) /\ quiet' = Older(quiet)
      /\ UNCHANGED <<world, count, phase, rules, stop, loop, watcher, owed, lost,
                     faults, stops>>
  BY DEF IInv, Minute
<1>u. /\ hot' = hot /\ file' = file /\ count' = count /\ owed' = owed /\ lost' = lost
      /\ phase' = phase /\ rules' = rules /\ stop' = stop /\ loop' = loop
      /\ event' = event /\ read' = read /\ faults' = faults /\ stops' = stops
  BY <1>1 DEF world, watcher
<1>2. ASSUME NEW f \in [Keys -> Nat \cup {NoRow}], NEW k \in Keys
      PROVE  /\ Older(f)[k] \in Nat \cup {NoRow}
             /\ Older(f)[k] = NoRow <=> f[k] = NoRow
             /\ f[k] # NoRow => Older(f)[k] >= f[k]
  BY DEF Older, NoRow
<1>3. ASSUME NEW f \in [Keys -> Nat \cup {NoRow}]
      PROVE  Older(f) \in [Keys -> Nat \cup {NoRow}]
  BY <1>2 DEF Older
<1>4. age \in [Keys -> Nat \cup {NoRow}] /\ quiet \in [Keys -> Nat \cup {NoRow}]
  BY <1>1 DEF TypeOK
<1>5. \A p \in Loops : loop[p].pc = "bump" => age'[KeyOf(loop[p].rule)] # NoRow
  <2>. SUFFICES ASSUME NEW p \in Loops, loop[p].pc = "bump"
                PROVE  age'[KeyOf(loop[p].rule)] # NoRow
    OBVIOUS
  <2>1. KeyOf(loop[p].rule) \in Keys
    BY LoopFacts, RuleTypes DEF LoopOK, OwnRules
  <2>2. QED
    BY <1>1, <1>2, <1>4, <2>1 DEF TypeOK
<1>6. TypeOK'
  <2>1. age' \in [Keys -> Nat \cup {NoRow}] /\ quiet' \in [Keys -> Nat \cup {NoRow}]
    BY <1>1, <1>3, <1>4
  <2>2. \A k \in Keys : count'[k] = 0 <=> age'[k] = NoRow
    BY <1>1, <1>2, <1>4, <1>u DEF TypeOK
  <2>3. QED
    BY <1>1, <1>5, <2>1, <2>2, <1>u DEF TypeOK
<1>7. \A p \in Loops : LoopOK(p, loop[p])' /\ (phase' = "up" <=> loop'[p].pc # "off")
  <2>. SUFFICES ASSUME NEW p \in Loops
                PROVE  LoopOK(p, loop[p])' /\ (phase' = "up" <=> loop'[p].pc # "off")
    OBVIOUS
  <2>1. LoopOK(p, loop[p]) /\ (phase = "up" <=> loop[p].pc # "off")
    BY DEF IInv
  <2>2. loop[p].pc = "mark" => \/ quiet'[KeyOf(loop[p].rule)] = NoRow
                               \/ quiet'[KeyOf(loop[p].rule)] >= loop[p].rule.cooldown
    <3>. SUFFICES ASSUME loop[p].pc = "mark"
                  PROVE  \/ quiet'[KeyOf(loop[p].rule)] = NoRow
                         \/ quiet'[KeyOf(loop[p].rule)] >= loop[p].rule.cooldown
      OBVIOUS
    <3>. DEFINE k == KeyOf(loop[p].rule)
                c == loop[p].rule.cooldown
    <3>1. k \in Keys /\ c \in Nat
      BY <2>1, RuleTypes DEF LoopOK, OwnRules
    <3>2. quiet[k] = NoRow \/ quiet[k] >= c
      BY <2>1 DEF LoopOK
    <3>3. /\ quiet'[k] \in Nat \cup {NoRow} /\ quiet[k] \in Nat \cup {NoRow}
          /\ quiet'[k] = NoRow <=> quiet[k] = NoRow
          /\ quiet[k] # NoRow => quiet'[k] >= quiet[k]
      BY <1>1, <1>2, <1>4, <3>1
    <3>. HIDE DEF k, c
    <3>4. quiet'[k] = NoRow \/ quiet'[k] >= c
      BY <3>1, <3>2, <3>3 DEF NoRow
    <3>5. QED
      BY <3>4 DEF k, c
  <2>3. QED
    BY <2>1, <2>2, <1>u DEF LoopOK
<1>8. MarkedIsSent'
  BY <1>u DEF IInv, MarkedIsSent, InFlight
<1>9. QED
  BY <1>1, <1>6, <1>7, <1>8 DEF IInv

\* The process starts its loops, ends, or dies.
LEMMA ProcessStep ==
  ASSUME IInv, Start \/ Exit \/ Crash
  PROVE  IInv'
<1>1. PICK y \in {Waiting, Off} :
        /\ loop' = [p \in Loops |-> y]
        /\ phase' = IF y = Off THEN "down" ELSE "up"
        /\ rules' \subseteq AllRules /\ stops' \in Nat
        /\ event' \in BOOLEAN /\ read' \in Versions \cup {Broken}
        /\ UNCHANGED <<world, table, stop, owed, quiet, faults>>
        /\ lost \subseteq lost' /\ InFlight \subseteq lost' /\ lost' \subseteq Keys
  <2>0. /\ Waiting # Off /\ InFlight \subseteq Keys /\ TypeOK
        /\ \A p \in Loops : LoopOK(p, loop[p]) /\ (phase = "up" <=> loop[p].pc # "off")
    <3>1. Waiting.pc # Off.pc
      BY DEF Waiting, Off
    <3>2. InFlight \subseteq Keys
      BY LoopFacts DEF InFlight
    <3>3. QED
      BY <3>1, <3>2 DEF IInv
  <2>1. CASE Start
    <3>1. \A p \in Loops : loop[p].verdicts = {}
      BY <2>0, <2>1 DEF Start, LoopOK
    <3>2. InFlight = {}
      BY <3>1 DEF InFlight, KeysOf
    <3>3. QED
      BY <2>0, <2>1, <3>2 DEF Start, TypeOK, watcher, history
  <2>2. CASE Exit
    <3>1. \A p \in Loops : loop[p].verdicts = {}
      BY <2>0, <2>2 DEF Exit, LoopOK
    <3>2. InFlight = {}
      BY <3>1 DEF InFlight, KeysOf
    <3>3. QED
      BY <2>0, <2>2, <3>2 DEF Exit, Gone, TypeOK, history
  <2>3. CASE Crash
    <3>1. /\ loop' = [p \in Loops |-> Off] /\ phase' = "down" /\ rules' = {}
          /\ event' = FALSE /\ read' = Broken /\ lost' = lost \cup InFlight
          /\ stops' = stops + 1
          /\ UNCHANGED <<world, table, stop, owed, quiet, faults>>
      BY <2>3 DEF Crash, Gone
    <3>2. stops' \in Nat /\ lost' \subseteq Keys
      BY <2>0, <3>1 DEF TypeOK
    <3>3. QED
      BY <3>1, <3>2
  <2>4. QED
    BY <2>1, <2>2, <2>3
<1>2. /\ hot' = hot /\ file' = file /\ age' = age /\ count' = count /\ stop' = stop
      /\ owed' = owed /\ quiet' = quiet /\ faults' = faults
  BY <1>1 DEF world, table
<1>3. /\ y \in LoopType /\ y.verdicts = {} /\ y.due = {} /\ y.kind = "none"
      /\ y.pc = IF y = Off THEN "off" ELSE "idle"
  <2>1. Waiting.pc = "idle" /\ Off.pc = "off"
    BY DEF Waiting, Off
  <2>2. QED
    BY <2>1 DEF Waiting, Off, LoopType, LoopPCs
<1>4. \A p \in Loops : loop'[p] = y
  BY <1>1
<1>5. TypeOK'
  BY <1>1, <1>2, <1>3 DEF IInv, TypeOK
<1>6. \A p \in Loops : LoopOK(p, loop[p])' /\ (phase' = "up" <=> loop'[p].pc # "off")
  BY <1>1, <1>3, <1>4 DEF LoopOK
<1>7. MarkedIsSent'
  BY <1>1, <1>2 DEF IInv, MarkedIsSent
<1>8. QED
  BY <1>2, <1>5, <1>6, <1>7 DEF IInv

-----------------------------------------------------------------------------
(* The theorems *)

\* Every behaviour starts with no row, no loop and nothing owed.
LEMMA InitIInv == Init => IInv
<1>. SUFFICES ASSUME Init PROVE IInv
  OBVIOUS
<1>. USE DEF Init
<1>1. /\ Off \in LoopType /\ Off.pc = "off" /\ Off.verdicts = {} /\ Off.due = {}
      /\ Off.kind = "none"
  BY DEF Off, Waiting, LoopType, LoopPCs
<1>2. TypeOK
  <2>1. count \in [Keys -> 0..MaxCount]
    BY QuoteConstantsOK
  <2>2. hot \subseteq Keys /\ rules \subseteq AllRules
    OBVIOUS
  <2>3. QED
    BY <1>1, <2>1, <2>2, QuoteConstantsOK DEF TypeOK, NoRow
<1>3. \A p \in Loops : LoopOK(p, loop[p]) /\ (phase = "up" <=> loop[p].pc # "off")
  BY <1>1 DEF LoopOK
<1>4. MarkedIsSent
  BY DEF MarkedIsSent
<1>5. QED
  BY <1>2, <1>3, <1>4 DEF IInv

\* Every step keeps the invariant.
LEMMA NextIInv == IInv /\ [Next]_vars => IInv'
<1>. SUFFICES ASSUME IInv, [Next]_vars PROVE IInv'
  OBVIOUS
<1>0. TypeOK
  BY DEF IInv
<1>1. CASE Minute
  BY <1>1, MinuteStep
<1>2. ASSUME NEW k \in Moving, Move(k) PROVE IInv'
  BY <1>0, <1>2, AroundStep, QuoteConstantsOK DEF Move, TypeOK, table, watcher
<1>3. ASSUME NEW v \in Versions \cup {Broken}, NEW how \in Saves, Edit(v, how)
      PROVE  IInv'
  BY <1>0, <1>3, AroundStep DEF Edit, TypeOK
<1>4. CASE Boot
  <2>1. file \in Versions => Rules[file] \subseteq AllRules
    BY DEF AllRules
  <2>2. /\ hot' = hot /\ file' = file /\ event' = event /\ read' = read
        /\ faults' = faults /\ stops' = stops
    BY <1>4 DEF Boot, world, watcher
  <2>3. /\ {phase, phase'} = {"down", "warmup"} /\ stop' = FALSE
        /\ rules' \subseteq AllRules /\ UNCHANGED <<table, loop, history>>
    BY <1>0, <1>4, <2>1 DEF Boot, TypeOK
  <2>4. QED
    BY <1>0, <2>2, <2>3, AroundStep DEF TypeOK
<1>5. CASE Start \/ Exit \/ Crash
  BY <1>5, ProcessStep
<1>6. CASE Stop
  BY <1>0, <1>6, AroundStep DEF Stop, TypeOK, world, watcher
<1>7. CASE ReadFile
  BY <1>0, <1>7, AroundStep DEF ReadFile, TypeOK, world
<1>8. CASE SwapRules
  <2>1. read \in Versions => Rules[read] \subseteq AllRules
    BY DEF AllRules
  <2>2. /\ hot' = hot /\ file' = file /\ faults' = faults /\ stops' = stops
        /\ phase' = phase /\ stop' = stop /\ event' = event /\ read' = Broken
    BY <1>8 DEF SwapRules, KeepEvent, world
  <2>3. rules' \subseteq AllRules /\ UNCHANGED <<table, loop, history>>
    BY <1>0, <1>8, <2>1 DEF SwapRules, TypeOK
  <2>4. QED
    BY <1>0, <2>2, <2>3, AroundStep DEF TypeOK
<1>9. ASSUME NEW p \in Loops, Step(p) \/ Failures(p) PROVE IInv'
  BY <1>9, AnyLoopStep
<1>10. CASE UNCHANGED vars
  BY <1>10 DEF vars, world, table, watcher, history, IInv, TypeOK, LoopOK,
       MarkedIsSent, InFlight, KeysOf
<1>11. QED
  BY <1>1, <1>2, <1>3, <1>4, <1>5, <1>6, <1>7, <1>8, <1>9, <1>10 DEF Next, Reload

\* The invariant holds throughout.
THEOREM Invariance == Spec => []IInv
BY InitIInv, NextIInv, PTL DEF Spec

\* Every variable has its type: a row of alert_state that is_in_cooldown has
\* seen is still there when bump_count updates it.
THEOREM TypeCorrect == Spec => []TypeOK
<1>1. IInv => TypeOK
  BY DEF IInv
<1>2. QED
  BY <1>1, Invariance, PTL

\* Every armed cooldown belongs to an alert that is sent, about to be sent, or
\* was dropped by an exception, a refused message or a crash.
THEOREM MarkedIsSentHolds == Spec => []MarkedIsSent
<1>1. IInv => MarkedIsSent
  BY DEF IInv
<1>2. QED
  BY <1>1, Invariance, PTL

-----------------------------------------------------------------------------
(* The cooldown *)

\* A loop that gets a record without new verdicts adds none anywhere.
LEMMA NoNewVerdict ==
  ASSUME IInv, NEW q \in Loops, NEW y, loop' = [loop EXCEPT ![q] = y],
         y.verdicts \subseteq loop[q].verdicts
  PROVE  \A p \in Loops : loop'[p].verdicts \subseteq loop[p].verdicts
<1>1. loop \in [Loops -> LoopType]
  BY DEF IInv, TypeOK
<1>2. loop'[q] = y /\ \A p \in Loops \ {q} : loop'[p] = loop[p]
  BY <1>1
<1>3. QED
  BY <1>2

LEMMA FreshAddsNone ==
  ASSUME IInv, NEW q \in Loops, \E y : Fresh(q, y) /\ loop' = [loop EXCEPT ![q] = y]
  PROVE  \A p \in Loops : loop'[p].verdicts \subseteq loop[p].verdicts
<1>1. PICK y : Fresh(q, y) /\ loop' = [loop EXCEPT ![q] = y]
  OBVIOUS
<1>2. y.verdicts \subseteq loop[q].verdicts
  BY <1>1 DEF Fresh
<1>3. QED
  BY <1>1, <1>2, NoNewVerdict

\* Only mark_triggered makes a verdict.
LEMMA OnlyMarkAdds ==
  ASSUME IInv, NEW q \in Loops, Step(q) \/ Failures(q), ~Mark(q)
  PROVE  \A p \in Loops : loop'[p].verdicts \subseteq loop[p].verdicts
<1>0. /\ loop[q] \in LoopType /\ rules \subseteq AllRules /\ hot \in SUBSET Keys
      /\ loop[q].kind = "none" \/ (loop[q].kind = "sector" <=> q = "sector")
  BY LoopFacts DEF LoopOK
<1>1. ASSUME NEW S \in SUBSET Tickers, q = "ticker", PollTickers(S)
      PROVE  \E y : Fresh(q, y) /\ loop' = [loop EXCEPT ![q] = y]
  BY <1>0, <1>1, EnterNextFresh DEF PollTickers
<1>2. ASSUME q = "sector", PollSectors
      PROVE  \E y : Fresh(q, y) /\ loop' = [loop EXCEPT ![q] = y]
  <2>1. "sector" \in Kinds
    BY DEF Kinds
  <2>2. QED
    BY <1>0, <1>2, <2>1, EnterFresh DEF PollSectors
<1>3. ASSUME NEW r \in loop[q].due, Check(q, r)
      PROVE  \E y : y.verdicts \subseteq loop[q].verdicts /\ loop' = [loop EXCEPT ![q] = y]
  <2>. DEFINE y == [loop[q] EXCEPT !.pc = IF InCooldown(r) THEN "bump" ELSE "mark",
                                   !.due = @ \ {r}, !.rule = r]
  <2>1. y.verdicts = loop[q].verdicts
    BY <1>0 DEF LoopType
  <2>2. loop' = [loop EXCEPT ![q] = y]
    BY <1>3 DEF Check, SetLoop
  <2>. HIDE DEF y
  <2>3. QED
    BY <2>1, <2>2
<1>4. ASSUME Bump(q)
      PROVE  \E y : y.verdicts \subseteq loop[q].verdicts /\ loop' = [loop EXCEPT ![q] = y]
  <2>. DEFINE y == [loop[q] EXCEPT !.pc = "eval", !.rule = Nothing]
  <2>1. y.verdicts = loop[q].verdicts
    BY <1>0 DEF LoopType
  <2>2. loop' = [loop EXCEPT ![q] = y]
    BY <1>4 DEF Bump, SetLoop
  <2>. HIDE DEF y
  <2>3. QED
    BY <2>1, <2>2
<1>5. ASSUME LookUp(q)
      PROVE  \E y : y.verdicts \subseteq loop[q].verdicts /\ loop' = [loop EXCEPT ![q] = y]
  <2>. DEFINE kind == NextKind[loop[q].kind]
              y == [loop[q] EXCEPT !.kind = kind,
                      !.due = Selected(kind, loop[q].on, loop[q].seen)]
  <2>1. y.verdicts = loop[q].verdicts
    BY <1>0 DEF LoopType
  <2>2. loop' = [loop EXCEPT ![q] = y]
    BY <1>5 DEF LookUp, SetLoop
  <2>. HIDE DEF y
  <2>3. QED
    BY <2>1, <2>2
<1>6. ASSUME Leave(q)
      PROVE  \E y : Fresh(q, y) /\ loop' = [loop EXCEPT ![q] = y]
  BY <1>0, <1>6, LeaveFresh
<1>7. ASSUME Evaluated(q), ~Leave(q)
      PROVE  \E y : y.verdicts \subseteq loop[q].verdicts /\ loop' = [loop EXCEPT ![q] = y]
  <2>. DEFINE y == [loop[q] EXCEPT !.pc = "dispatch"]
  <2>1. y.verdicts = loop[q].verdicts
    BY <1>0 DEF LoopType
  <2>2. loop' = [loop EXCEPT ![q] = y]
    BY <1>7 DEF Evaluated, SetLoop
  <2>. HIDE DEF y
  <2>3. QED
    BY <2>1, <2>2
<1>8. ASSUME NEW m, NEW ok, Dispatch(q, m, ok), ~Leave(q)
      PROVE  \E y : y.verdicts \subseteq loop[q].verdicts /\ loop' = [loop EXCEPT ![q] = y]
  <2>. DEFINE y == [loop[q] EXCEPT !.verdicts = loop[q].verdicts \ m]
  <2>1. y.verdicts \subseteq loop[q].verdicts
    BY <1>0 DEF LoopType
  <2>2. loop' = [loop EXCEPT ![q] = y]
    BY <1>8 DEF Dispatch, AfterMessage, SetLoop
  <2>. HIDE DEF y
  <2>3. QED
    BY <2>1, <2>2
<1>9. ASSUME EndLoop(q)
      PROVE  \E y : y.verdicts \subseteq loop[q].verdicts /\ loop' = [loop EXCEPT ![q] = y]
  <2>. DEFINE y == [Waiting EXCEPT !.pc = "ended"]
  <2>1. y.verdicts = {}
    BY DEF Waiting
  <2>2. loop' = [loop EXCEPT ![q] = y]
    BY <1>9 DEF EndLoop, SetLoop
  <2>. HIDE DEF y
  <2>3. QED
    BY <2>1, <2>2
<1>10. ASSUME Raises(q)
       PROVE  \E y : Fresh(q, y) /\ loop' = [loop EXCEPT ![q] = y]
  BY <1>10, WaitingFresh DEF Raises, SetLoop
<1>11. CASE PollNothing(q)
  BY <1>11 DEF PollNothing, vars
<1>12. CASE ~PollNothing(q)
  <2>1. \/ \E y : Fresh(q, y) /\ loop' = [loop EXCEPT ![q] = y]
        \/ \E y : y.verdicts \subseteq loop[q].verdicts /\ loop' = [loop EXCEPT ![q] = y]
    BY <1>1, <1>2, <1>3, <1>4, <1>5, <1>6, <1>7, <1>8, <1>9, <1>10, <1>12
       DEF Step, Failures
  <2>2. QED
    BY <2>1, FreshAddsNone, NoNewVerdict
<1>13. QED
  BY <1>11, <1>12

\* A rule speaks again about the same thing only after its cooldown, however
\* the loops interleave and however often the rules are reloaded and the
\* process restarted.
THEOREM CooldownKeptHolds == Spec => CooldownKept
<1>. DEFINE Kept == \A p \in Loops : \A r \in loop'[p].verdicts \ loop[p].verdicts :
                      quiet[KeyOf(r)] = NoRow \/ quiet[KeyOf(r)] >= r.cooldown
<1>1. IInv /\ [Next]_vars => [Kept]_vars
  <2>. SUFFICES ASSUME IInv, Next, NEW p \in Loops,
                       NEW r \in loop'[p].verdicts \ loop[p].verdicts
                PROVE  quiet[KeyOf(r)] = NoRow \/ quiet[KeyOf(r)] >= r.cooldown
    OBVIOUS
  <2>0. loop \in [Loops -> LoopType] /\ loop # loop'
    BY DEF IInv, TypeOK
  <2>1. loop' # [q \in Loops |-> Waiting] /\ loop' # [q \in Loops |-> Off]
    BY DEF Waiting, Off
  <2>2. PICK q \in Loops : Step(q) \/ Failures(q)
    BY <2>0, <2>1 DEF Next, Reload, Minute, Move, Edit, Boot, Start, Stop, Exit, Crash,
         Gone, ReadFile, SwapRules
  <2>3. Mark(q)
    BY <2>2, OnlyMarkAdds
  <2>4. /\ loop' = [loop EXCEPT ![q] = [loop[q] EXCEPT !.pc = "eval", !.rule = Nothing,
                                          !.verdicts = @ \cup {loop[q].rule}]]
        /\ loop[q].pc = "mark"
    BY <2>3 DEF Mark, SetLoop
  <2>5. p = q
    BY <2>0, <2>4
  <2>6. loop'[p].verdicts = loop[p].verdicts \cup {loop[p].rule}
    BY <2>0, <2>4, <2>5 DEF LoopType
  <2>7. r = loop[p].rule
    BY <2>6
  <2>8. LoopOK(p, loop[p])
    BY DEF IInv
  <2>9. QED
    BY <2>4, <2>5, <2>7, <2>8 DEF LoopOK
<1>2. QED
  BY <1>1, Invariance, PTL DEF Spec, CooldownKept

-----------------------------------------------------------------------------
(* Edits and reloads *)

\* A step of a loop, of the quotes or of time leaves the file, the rules and the
\* reload alone.
LEMMA OthersLeaveReload ==
  ASSUME \/ Minute \/ Stop \/ \E k \in Moving : Move(k)
         \/ \E p \in Loops : Step(p) \/ Failures(p)
  PROVE  UNCHANGED <<file, phase, rules, event, read>>
<1>1. ASSUME NEW p \in Loops, Step(p) \/ Failures(p)
      PROVE  UNCHANGED <<file, phase, rules, event, read>>
  <2>1. Step(p) => UNCHANGED <<file, phase, rules, event, read>>
    BY DEF Step, PollTickers, PollSectors, Check, Bump, Mark, LookUp, Evaluated,
       Dispatch, EndLoop, world, watcher
  <2>2. Failures(p) => UNCHANGED <<file, phase, rules, event, read>>
    BY DEF Failures, PollNothing, Raises, PollTickers, Dispatch, vars, world, watcher
  <2> QED
    BY <1>1, <2>1, <2>2
<1>2. ASSUME \E k \in Moving : Move(k)
      PROVE  UNCHANGED <<file, phase, rules, event, read>>
  BY <1>2 DEF Move, watcher
<1> QED
  BY <1>1, <1>2 DEF Minute, Stop, world, watcher

LEMMA ReloadStep ==
  ASSUME [Next]_vars
  PROVE  phase = "up" /\ phase' = "up" /\ InForce => InForce' \/ RenamedOver
<1> USE DEF InForce
<1>1. CASE UNCHANGED <<file, phase, rules, event, read>>
  BY <1>1
<1>2. ASSUME NEW v \in Versions \cup {Broken}, NEW how \in Saves, Edit(v, how)
      PROVE  phase = "up" /\ phase' = "up" /\ InForce => InForce' \/ RenamedOver
  <2>1. how \in {"in place", "rename"}
    BY SavesOK
  <2>2. CASE how = "in place"
    BY <1>2, <2>2 DEF Edit
  <2>3. CASE how = "rename"
    BY <1>2, <2>3 DEF RenamedOver
  <2> QED
    BY <2>1, <2>2, <2>3
<1>3. CASE Boot \/ Start
  BY <1>3 DEF Boot, Start
<1>4. CASE Exit \/ Crash
  BY <1>4 DEF Exit, Crash, Gone
<1>5. CASE ReadFile
  BY <1>5 DEF ReadFile, world
<1>6. CASE SwapRules
  BY <1>6 DEF SwapRules, KeepEvent, world
<1>7. CASE UNCHANGED vars
  BY <1>1, <1>7 DEF vars, world, watcher
<1> QED
  BY <1>1, <1>2, <1>3, <1>4, <1>5, <1>6, <1>7, OthersLeaveReload DEF Next, Reload

\* However many edits of alerts.yml there are and however they fall between the
\* steps of a reload, none is missed but one that was saved by a rename.
THEOREM NoEditForgottenHolds == Spec => NoEditForgotten
BY ReloadStep, PTL DEF Spec, NoEditForgotten

-----------------------------------------------------------------------------
(* QuoteAlerts implements AlertContract: what a step does to the alerts in   *)
(* flight                                                                    *)

Rest == faults' + stops' = faults + stops
Stays == InFlight' = InFlight /\ UNCHANGED <<owed, lost, quiet>> /\ Rest
Ages == InFlight' = InFlight /\ UNCHANGED <<owed, lost>> /\ quiet' = Older(quiet) /\ Rest
Arms(k) ==
  /\ \E c \in CooldownsOf[k] : quiet[k] = NoRow \/ quiet[k] >= c
  /\ InFlight' = InFlight \cup {k} /\ owed' = owed \cup {k} /\ lost' = lost \ {k}
  /\ quiet' = [quiet EXCEPT ![k] = 0] /\ Rest
Sends(S) ==
  /\ InFlight' = InFlight \ S /\ owed' = (IF HasChannels THEN owed \ S ELSE owed)
  /\ UNCHANGED <<lost, quiet>> /\ Rest
Drops(S) ==
  /\ InFlight' = InFlight \ S /\ lost' = lost \cup S
  /\ UNCHANGED <<owed, quiet>> /\ faults' + stops' = faults + stops + 1
Effect ==
  \/ Stays \/ Ages \/ \E k \in Keys : Arms(k)
  \/ \E S \in SUBSET InFlight : Sends(S) \/ Drops(S)

LEMMA FlightIsKeys ==
  ASSUME IInv
  PROVE  InFlight \subseteq Keys /\ InFlight = KeysOf(loop["ticker"].verdicts)
                                               \cup KeysOf(loop["sector"].verdicts)
<1>1. InFlight \subseteq Keys
  BY LoopFacts DEF InFlight
<1> QED
  BY <1>1 DEF InFlight, Loops

\* The accounts stay in order.
LEMMA EffectKeeps ==
  ASSUME ContractInv, Effect
  PROVE  (lost \cap InFlight = {} /\ InFlight \cup lost \subseteq owed)'
BY DEF ContractInv, Effect, Stays, Ages, Arms, Sends, Drops

\* With channels everything owed is in flight or lost, and never both.
LEMMA Standing ==
  ASSUME HasChannels, IInv, ContractInv, NEW k \in Keys
  PROVE  StageOf(k, InFlight) = IF k \in InFlight THEN "armed" ELSE IF k \in lost THEN "lost" ELSE "idle"
BY DEF StageOf, IInv, MarkedIsSent, ContractInv

LEMMA StandingNext ==
  ASSUME HasChannels, IInv', ContractInv', NEW k \in Keys
  PROVE  StageOf(k, InFlight)' = IF k \in InFlight' THEN "armed"
                       ELSE IF k \in lost' THEN "lost" ELSE "idle"
BY DEF StageOf, IInv, MarkedIsSent, ContractInv

\* What the effects are in the terms of the contract.
LEMMA EffectSimulates ==
  ASSUME HasChannels, IInv, ContractInv, IInv', ContractInv', Effect
  PROVE  Contract!Next \/ UNCHANGED <<Stages, quiet, faults + stops>>
<1> DEFINE Now(k) == IF k \in InFlight THEN "armed" ELSE IF k \in lost THEN "lost" ELSE "idle"
           Then(k) == IF k \in InFlight' THEN "armed" ELSE IF k \in lost' THEN "lost" ELSE "idle"
<1>1. Stages = [k \in Keys |-> Now(k)]
  BY Standing DEF Stages
<1>2. Stages' = [k \in Keys |-> Then(k)]
  BY StandingNext DEF Stages
<1>3. lost \cap InFlight = {} /\ InFlight \subseteq Keys
      /\ Contract!Armed = InFlight
  <2>1. lost \cap InFlight = {} /\ InFlight \subseteq Keys
    BY FlightIsKeys DEF ContractInv
  <2>2. Contract!Armed = {k \in Keys : Stages[k] = "armed"}
    BY DEF Contract!Armed
  <2> QED
    BY <1>1, <2>1, <2>2
<1>4. \A S, to : Contract!Become(S, to) <=>
        Stages' = [k \in Keys |-> IF k \in S THEN to ELSE Stages[k]]
  BY DEF Contract!Become
<1>5. CASE Stays
  <2>1. Stages' = Stages
    BY <1>1, <1>2, <1>5 DEF Stays
  <2> QED
    BY <2>1, <1>5 DEF Stays, Rest
<1>6. CASE Ages
  <2>1. Stages' = Stages
    BY <1>1, <1>2, <1>6 DEF Ages
  <2>2. quiet' = [k \in Keys |-> IF quiet[k] \in {NoRow, MaxAge[k]} THEN quiet[k]
                                 ELSE quiet[k] + 1]
    BY <1>6 DEF Ages, Older
  <2>3. Contract!Minute
    BY <2>1, <2>2, <1>6 DEF Contract!Minute, Contract!NoRow, NoRow, Ages, Rest
  <2> QED
    BY <2>3 DEF Contract!Next
<1>7. ASSUME NEW k \in Keys, Arms(k) PROVE Contract!Next
  <2>1. Stages' = [j \in Keys |-> IF j \in {k} THEN "armed" ELSE Stages[j]]
    <3>1. \A j \in Keys : Then(j) = IF j \in {k} THEN "armed" ELSE Now(j)
      BY <1>7 DEF Arms
    <3> QED
      BY <1>1, <1>2, <3>1
  <2>2. Contract!Become({k}, "armed")
    BY <1>4, <2>1
  <2>3. Contract!Arm(k)
    BY <2>2, <1>7 DEF Contract!Arm, Contract!NoRow, NoRow, Arms, Rest
  <2> QED
    BY <2>3 DEF Contract!Next
<1>8. ASSUME NEW S \in SUBSET InFlight, Sends(S), S # {} PROVE Contract!Next
  <2>1. Stages' = [j \in Keys |-> IF j \in S THEN "idle" ELSE Stages[j]]
    <3>1. \A j \in Keys : Then(j) = IF j \in S THEN "idle" ELSE Now(j)
      BY <1>3, <1>8 DEF Sends
    <3> QED
      BY <1>1, <1>2, <3>1
  <2>2. Contract!Become(S, "idle")
    BY <1>4, <2>1
  <2>3. Contract!Say(S)
    BY <2>2, <1>8 DEF Contract!Say, Sends, Rest
  <2> QED
    BY <1>3, <2>3 DEF Contract!Next
<1>9. ASSUME NEW S \in SUBSET InFlight, Drops(S) PROVE Contract!Next
  <2>1. Stages' = [j \in Keys |-> IF j \in S THEN "lost" ELSE Stages[j]]
    <3>1. \A j \in Keys : Then(j) = IF j \in S THEN "lost" ELSE Now(j)
      BY <1>3, <1>9 DEF Drops
    <3> QED
      BY <1>1, <1>2, <3>1
  <2>2. Contract!Become(S, "lost")
    BY <1>4, <2>1
  <2>3. Contract!Interrupt(S)
    BY <2>2, <1>9 DEF Contract!Interrupt, Drops
  <2> QED
    BY <1>3, <2>3 DEF Contract!Next
<1>10. ASSUME NEW S \in SUBSET InFlight, Sends(S), S = {} PROVE Stays
  BY <1>10 DEF Sends, Stays
<1> QED
  BY <1>5, <1>6, <1>7, <1>8, <1>9, <1>10 DEF Effect

-----------------------------------------------------------------------------
(* The effect of each step, and the rules a loop deals with *)

LEMMA RulesApart ==
  ASSUME NEW v \in Versions
  PROVE  OneRuleEach(Rules[v])
BY QuoteConstantsOK DEF OneRuleEach

\* A loop that starts afresh deals with rules of one version.
LEMMA FreshApart ==
  ASSUME ContractInv, NEW p, NEW x, Fresh(p, x)
  PROVE  LoopApart(x)
BY DEF ContractInv, Fresh, LoopApart, Pending, OneRuleEach

LEMMA StillApart ==
  ASSUME NEW x, NEW y, LoopApart(x), Pending(y) \subseteq Pending(x), y.kind = x.kind,
         y.pc # "dispatch"
  PROVE  LoopApart(y)
BY DEF LoopApart, OneRuleEach

LEMMA OthersApart ==
  ASSUME IInv, ContractInv, NEW p \in Loops, NEW x, LoopApart(x),
         loop' = [loop EXCEPT ![p] = x], rules' = rules
  PROVE  OneRuleEach(rules') /\ \A q \in Loops : LoopApart(loop'[q])
<1>1. loop \in [Loops -> LoopType]
  BY DEF IInv, TypeOK
<1>2. loop'[p] = x /\ \A q \in Loops \ {p} : loop'[q] = loop[q]
  BY <1>1
<1> QED
  BY <1>2 DEF ContractInv

\* The keys in flight when loop p goes from its record to x: those of the other
\* loop stay, and are none of p's.
Elsewhere(p) == UNION {KeysOf(loop[q].verdicts) : q \in Loops \ {p}}

LEMMA FlightOf ==
  ASSUME IInv, NEW p \in Loops, NEW x, loop' = [loop EXCEPT ![p] = x]
  PROVE  /\ InFlight = KeysOf(loop[p].verdicts) \cup Elsewhere(p)
         /\ InFlight' = KeysOf(x.verdicts) \cup Elsewhere(p)
         /\ KeysOf(loop[p].verdicts) \cap Elsewhere(p) = {}
<1>1. loop \in [Loops -> LoopType]
  BY DEF IInv, TypeOK
<1>2. loop'[p] = x /\ \A q \in Loops \ {p} : loop'[q] = loop[q]
  BY <1>1
<1>3. InFlight = KeysOf(loop[p].verdicts) \cup Elsewhere(p)
  BY DEF InFlight, Elsewhere
<1>4. InFlight' = KeysOf(x.verdicts) \cup Elsewhere(p)
  <2>1. InFlight' = UNION {KeysOf(loop'[q].verdicts) : q \in Loops}
    BY DEF InFlight, KeysOf
  <2>2. InFlight' = KeysOf(loop'[p].verdicts)
                      \cup UNION {KeysOf(loop'[q].verdicts) : q \in Loops \ {p}}
    BY <2>1
  <2>3. UNION {KeysOf(loop'[q].verdicts) : q \in Loops \ {p}} = Elsewhere(p)
    BY <1>2 DEF Elsewhere
  <2> QED
    BY <1>2, <2>2, <2>3
<1>5. ASSUME NEW k \in KeysOf(loop[p].verdicts), k \in Elsewhere(p) PROVE FALSE
  <2>1. PICK r \in loop[p].verdicts : k = KeyOf(r)
    BY DEF KeysOf
  <2>2. PICK q \in Loops \ {p} : k \in KeysOf(loop[q].verdicts)
    BY <1>5 DEF Elsewhere
  <2>3. PICK s \in loop[q].verdicts : k = KeyOf(s)
    BY <2>2 DEF KeysOf
  <2>4. r \in OwnRules(p) /\ s \in OwnRules(q)
    BY <2>1, <2>2, <2>3, LoopFacts DEF LoopOK
  <2> QED
    BY <2>1, <2>2, <2>3, <2>4, OwnKeys
<1> QED
  BY <1>3, <1>4, <1>5

\* A loop that keeps its verdicts changes nothing in flight.
LEMMA SameVerdicts ==
  ASSUME IInv, NEW p \in Loops, NEW x, loop' = [loop EXCEPT ![p] = x],
         x.verdicts = loop[p].verdicts
  PROVE  InFlight' = InFlight
BY FlightOf

\* A loop without verdicts that goes on without them changes nothing either, and
\* one that starts afresh has dropped its own.
LEMMA FreshFlight ==
  ASSUME IInv, NEW p \in Loops, NEW x, Fresh(p, x), loop' = [loop EXCEPT ![p] = x]
  PROVE  InFlight' = InFlight \ KeysOf(loop[p].verdicts)
<1>1. KeysOf(x.verdicts) = {}
  BY DEF Fresh, KeysOf
<1> QED
  BY <1>1, FlightOf

Apart == OneRuleEach(rules') /\ \A q \in Loops : LoopApart(loop'[q])

\* A failed fetch may cost nothing but be counted.
LEMMA CountedOrNot ==
  ASSUME IInv, InFlight' = InFlight, UNCHANGED <<owed, lost, quiet, stops>>,
         faults' = faults \/ faults' = faults + 1
  PROVE  Effect
<1>1. faults \in Nat /\ stops \in Nat
  BY DEF IInv, TypeOK
<1>2. Stays \/ Drops({})
  BY <1>1 DEF Stays, Drops, Rest
<1> QED
  BY <1>2 DEF Effect

\* A new round.
LEMMA PollEffect ==
  ASSUME IInv, ContractInv,
         (\E S \in SUBSET Tickers : PollTickers(S)) \/ PollSectors
  PROVE  Effect /\ Apart
<1>1. ASSUME NEW p \in Loops, NEW x, Fresh(p, x), loop' = [loop EXCEPT ![p] = x],
             loop[p].pc = "idle", UNCHANGED <<rules, owed, lost, quiet, stops>>,
             faults' = faults \/ faults' = faults + 1
      PROVE  Effect /\ Apart
  <2>1. LoopOK(p, loop[p])
    BY LoopFacts
  <2>2. loop[p].verdicts = {}
    BY <1>1, <2>1 DEF LoopOK
  <2>3. KeysOf(loop[p].verdicts) = {}
    BY <2>2 DEF KeysOf
  <2>4. InFlight' = InFlight
    BY <1>1, <2>3, FreshFlight
  <2>5. LoopApart(x)
    BY <1>1, FreshApart
  <2>6. Apart
    BY <1>1, <2>5, OthersApart DEF Apart
  <2> QED
    BY <1>1, <2>4, <2>6, CountedOrNot
<1>2. ASSUME NEW S \in SUBSET Tickers, PollTickers(S) PROVE Effect /\ Apart
  <2>0. "ticker" \in Loops /\ "ticker" # "sector"
    BY DEF Loops
  <2>1. rules \subseteq AllRules /\ hot \in SUBSET Keys
    BY <2>0, LoopFacts
  <2>2. PICK x : Fresh("ticker", x) /\ loop' = [loop EXCEPT !["ticker"] = x]
    BY <1>2, <2>0, <2>1, EnterNextFresh DEF PollTickers
  <2>3. /\ loop["ticker"].pc = "idle" /\ UNCHANGED <<rules, owed, lost, quiet, stops>>
        /\ faults' = faults \/ faults' = faults + 1
    BY <1>2 DEF PollTickers, history
  <2> QED
    BY <1>1, <2>0, <2>2, <2>3
<1>3. ASSUME PollSectors PROVE Effect /\ Apart
  <2>0. "sector" \in Loops /\ "sector" \in Kinds
    BY DEF Loops, Kinds
  <2>1. rules \subseteq AllRules /\ hot \in SUBSET Keys
    BY <2>0, LoopFacts
  <2>2. PICK x : Fresh("sector", x) /\ loop' = [loop EXCEPT !["sector"] = x]
    BY <1>3, <2>0, <2>1, EnterFresh DEF PollSectors
  <2>3. /\ loop["sector"].pc = "idle" /\ UNCHANGED <<rules, owed, lost, quiet, stops>>
        /\ faults' = faults
    BY <1>3 DEF PollSectors, history
  <2> QED
    BY <1>1, <2>0, <2>2, <2>3
<1> QED
  BY <1>2, <1>3

\* Steps that keep the verdicts: a check, a bump, a lookup, the end of a loop.
LEMMA QuietEffect ==
  ASSUME IInv, ContractInv, NEW p \in Loops,
         (\E r \in loop[p].due : Check(p, r)) \/ Bump(p) \/ LookUp(p) \/ EndLoop(p)
  PROVE  Effect /\ Apart
<1>0. loop[p] \in LoopType /\ LoopApart(loop[p])
  BY LoopFacts DEF ContractInv
<1>1. ASSUME NEW x, loop' = [loop EXCEPT ![p] = x], x.verdicts = loop[p].verdicts,
             LoopApart(x), UNCHANGED <<rules, owed, lost, quiet, faults, stops>>
      PROVE  Effect /\ Apart
  <2>1. InFlight' = InFlight
    BY <1>1, SameVerdicts
  <2>2. Apart
    BY <1>1, OthersApart DEF Apart
  <2> QED
    BY <1>1, <2>1, <2>2, CountedOrNot
<1>2. ASSUME NEW r \in loop[p].due, Check(p, r) PROVE Effect /\ Apart
  <2> DEFINE x == [loop[p] EXCEPT !.pc = IF InCooldown(r) THEN "bump" ELSE "mark",
                                  !.due = @ \ {r}, !.rule = r]
  <2>1. /\ x.rule = r /\ x.verdicts = loop[p].verdicts /\ x.kind = loop[p].kind
        /\ x.due \subseteq loop[p].due /\ x.pc \in {"bump", "mark"}
    BY <1>0 DEF LoopType
  <2>2. loop' = [loop EXCEPT ![p] = x] /\ UNCHANGED <<rules, owed, lost, quiet, faults, stops>>
    BY <1>2 DEF Check, SetLoop, history
  <2> HIDE DEF x
  <2>3. Pending(x) \subseteq Pending(loop[p])
    BY <2>1 DEF Pending
  <2>4. LoopApart(x)
    BY <1>0, <2>1, <2>3, StillApart
  <2> QED
    BY <1>1, <2>1, <2>2, <2>4
<1>3. ASSUME Bump(p) PROVE Effect /\ Apart
  <2> DEFINE x == [loop[p] EXCEPT !.pc = "eval", !.rule = Nothing]
  <2>1. /\ x.verdicts = loop[p].verdicts /\ x.kind = loop[p].kind
        /\ x.due = loop[p].due /\ x.pc = "eval"
    BY <1>0 DEF LoopType
  <2>2. loop' = [loop EXCEPT ![p] = x] /\ UNCHANGED <<rules, owed, lost, quiet, faults, stops>>
    BY <1>3 DEF Bump, SetLoop, history
  <2> HIDE DEF x
  <2>3. Pending(x) \subseteq Pending(loop[p])
    BY <2>1 DEF Pending
  <2>4. LoopApart(x)
    BY <1>0, <2>1, <2>3, StillApart
  <2> QED
    BY <1>1, <2>1, <2>2, <2>4
<1>4. ASSUME LookUp(p) PROVE Effect /\ Apart
  <2> DEFINE kind == NextKind[loop[p].kind]
             x == [loop[p] EXCEPT !.kind = kind,
                     !.due = Selected(kind, loop[p].on, loop[p].seen)]
  <2>1. x.verdicts = loop[p].verdicts /\ x.kind = kind /\ x.pc = "eval"
    BY <1>0, <1>4 DEF LoopType, LookUp
  <2>2. loop' = [loop EXCEPT ![p] = x] /\ UNCHANGED <<rules, owed, lost, quiet, faults, stops>>
    BY <1>4 DEF LookUp, SetLoop, history
  <2>3. kind \in TickerKinds
    BY <1>4 DEF LookUp, NextKind, TickerKinds
  <2> HIDE DEF x, kind
  <2>4. LoopApart(x)
    BY <2>1, <2>3 DEF LoopApart
  <2> QED
    BY <1>1, <2>1, <2>2, <2>4
<1>5. ASSUME EndLoop(p) PROVE Effect /\ Apart
  <2> DEFINE x == [Waiting EXCEPT !.pc = "ended"]
  <2>1. x.verdicts = {} /\ x.due = {} /\ x.pc = "ended"
    BY DEF Waiting
  <2>2. /\ loop' = [loop EXCEPT ![p] = x] /\ loop[p].pc = "idle"
        /\ UNCHANGED <<rules, owed, lost, quiet, faults, stops>>
    BY <1>5 DEF EndLoop, SetLoop, history
  <2> HIDE DEF x
  <2>3. loop[p].verdicts = {}
    BY <2>2, LoopFacts DEF LoopOK
  <2>4. LoopApart(x)
    BY <2>1 DEF LoopApart, Pending, OneRuleEach
  <2> QED
    BY <1>1, <2>1, <2>2, <2>3, <2>4
<1> QED
  BY <1>2, <1>3, <1>4, <1>5

\* A target without verdicts is left, one with verdicts goes on to send them.
LEMMA EvaluatedEffect ==
  ASSUME IInv, ContractInv, NEW p \in Loops, Evaluated(p)
  PROVE  Effect /\ Apart
<1>0. /\ loop[p] \in LoopType /\ LoopApart(loop[p]) /\ LoopOK(p, loop[p])
      /\ rules \subseteq AllRules
  BY LoopFacts DEF ContractInv
<1>1. /\ UNCHANGED <<rules, owed, lost, quiet, faults, stops>>
      /\ loop[p].pc = "eval" /\ loop[p].kind \notin DOMAIN NextKind
  BY DEF Evaluated, history
<1>2. CASE loop[p].verdicts = {}
  <2>1. PICK x : Fresh(p, x) /\ loop' = [loop EXCEPT ![p] = x]
    BY <1>0, <1>2, LeaveFresh DEF Evaluated, LoopOK
  <2>2. KeysOf(loop[p].verdicts) = {}
    BY <1>2 DEF KeysOf
  <2>3. InFlight' = InFlight
    BY <2>1, <2>2, FreshFlight
  <2>4. Apart
    BY <1>1, <2>1, FreshApart, OthersApart DEF Apart
  <2> QED
    BY <1>1, <2>3, <2>4, CountedOrNot
<1>3. CASE loop[p].verdicts # {}
  <2> DEFINE x == [loop[p] EXCEPT !.pc = "dispatch"]
  <2>1. /\ x.pc = "dispatch" /\ x.verdicts = loop[p].verdicts
        /\ x.due = loop[p].due /\ x.kind = loop[p].kind
    BY <1>0 DEF LoopType
  <2>2. loop' = [loop EXCEPT ![p] = x]
    BY <1>3 DEF Evaluated, SetLoop
  <2> HIDE DEF x
  <2>3. LoopApart(x)
    BY <1>0, <1>1, <2>1 DEF LoopApart, Pending, OneRuleEach
  <2>4. InFlight' = InFlight
    BY <2>1, <2>2, SameVerdicts
  <2>5. Apart
    BY <1>1, <2>2, <2>3, OthersApart DEF Apart
  <2> QED
    BY <1>1, <2>4, <2>5, CountedOrNot
<1> QED
  BY <1>2, <1>3

\* mark_triggered arms one key, out of a cooldown of one of its rules.
LEMMA MarkEffect ==
  ASSUME IInv, ContractInv, NEW p \in Loops, Mark(p)
  PROVE  Effect /\ Apart
<1> DEFINE r == loop[p].rule
           k == KeyOf(r)
           x == [loop[p] EXCEPT !.pc = "eval", !.rule = Nothing, !.verdicts = @ \cup {r}]
<1>1. /\ loop[p] \in LoopType /\ LoopOK(p, loop[p]) /\ LoopApart(loop[p])
  BY LoopFacts DEF ContractInv
<1>2. /\ loop[p].pc = "mark" /\ loop' = [loop EXCEPT ![p] = x]
      /\ quiet' = [quiet EXCEPT ![k] = 0]
      /\ owed' = owed \cup {k} /\ lost' = lost \ {k}
      /\ UNCHANGED <<rules, faults, stops>>
  BY DEF Mark, SetLoop
<1>3. r \in AllRules /\ k \in Keys
  BY <1>1, <1>2, RuleTypes DEF LoopOK, OwnRules
<1>4. \E c \in CooldownsOf[k] : quiet[k] = NoRow \/ quiet[k] >= c
  <2>1. r.cooldown \in CooldownsOf[k]
    BY <1>3 DEF CooldownsOf
  <2>2. quiet[k] = NoRow \/ quiet[k] >= r.cooldown
    BY <1>1, <1>2 DEF LoopOK
  <2> QED
    BY <2>1, <2>2
<1>5. /\ x.pc = "eval" /\ x.verdicts = loop[p].verdicts \cup {r}
      /\ x.due = loop[p].due /\ x.kind = loop[p].kind
  BY <1>1 DEF LoopType
<1> HIDE DEF x
<1>6. InFlight' = InFlight \cup {k}
  <2>1. KeysOf(x.verdicts) = KeysOf(loop[p].verdicts) \cup {k}
    BY <1>5 DEF KeysOf
  <2> QED
    BY <1>2, <2>1, FlightOf
<1>7. LoopApart(x)
  <2>1. Pending(x) \subseteq Pending(loop[p])
    BY <1>2, <1>5 DEF Pending
  <2> QED
    BY <1>1, <1>5, <2>1, StillApart
<1>8. Apart
  BY <1>2, <1>7, OthersApart DEF Apart
<1>9. Arms(k)
  BY <1>2, <1>4, <1>6 DEF Arms, Rest
<1> QED
  BY <1>3, <1>8, <1>9 DEF Effect

\* What is sent, or refused, leaves the flight as a whole: every verdict about
\* its keys is in the message.
LEMMA DispatchEffect ==
  ASSUME IInv, ContractInv, NEW p \in Loops, NEW m \in SUBSET loop[p].verdicts,
         NEW ok \in BOOLEAN, Dispatch(p, m, ok)
  PROVE  Effect /\ Apart
<1> DEFINE V == loop[p].verdicts
           left == V \ m
           x == [loop[p] EXCEPT !.verdicts = left]
           S == KeysOf(m)
<1>1. /\ loop[p] \in LoopType /\ LoopOK(p, loop[p]) /\ LoopApart(loop[p])
      /\ rules \subseteq AllRules /\ KeysOf(V) \subseteq Keys
  BY LoopFacts DEF ContractInv
<1>2. /\ loop[p].pc = "dispatch" /\ m \in Messages(p) /\ AfterMessage(p, left)
      /\ UNCHANGED <<rules, quiet, stops>>
  BY DEF Dispatch
<1>3. InFlight' = InFlight \ S /\ S \subseteq InFlight /\ Apart
  <2>0. S \subseteq KeysOf(V)
    BY DEF KeysOf
  <2>1. CASE left = {} \/ loop[p].kind = "event"
    <3>1. m = V
      BY <1>2, <2>1 DEF Messages
    <3>2. Leave(p)
      BY <1>2, <2>1 DEF AfterMessage
    <3>3. PICK y : Fresh(p, y) /\ loop' = [loop EXCEPT ![p] = y]
      BY <1>1, <3>2, LeaveFresh DEF LoopOK
    <3>4. InFlight' = InFlight \ S /\ KeysOf(V) \subseteq InFlight
      BY <3>1, <3>3, FreshFlight, FlightOf
    <3>5. Apart
      BY <1>2, <3>3, FreshApart, OthersApart DEF Apart
    <3> QED
      BY <2>0, <3>4, <3>5
  <2>2. CASE ~(left = {} \/ loop[p].kind = "event")
    <3>1. /\ x.pc = "dispatch" /\ x.verdicts = left
          /\ x.due = loop[p].due /\ x.kind = loop[p].kind
      BY <1>1, <1>2 DEF LoopType
    <3>2. loop' = [loop EXCEPT ![p] = x]
      BY <1>2, <2>2 DEF AfterMessage, SetLoop
    <3> HIDE DEF x
    <3>3. LoopApart(x)
      <4>1. Pending(x) \subseteq Pending(loop[p])
        BY <1>2, <3>1 DEF Pending
      <4> QED
        BY <1>1, <1>2, <3>1, <4>1 DEF LoopApart, OneRuleEach
    <3>4. Apart
      BY <1>2, <3>2, <3>3, OthersApart DEF Apart
    <3>5. OneRuleEach(V)
      <4>1. loop[p].kind \notin TickerKinds
        BY <1>1, <1>2, <2>2 DEF LoopApart, TickerKinds, NextKind
      <4>2. V \subseteq Pending(loop[p])
        BY DEF Pending
      <4> QED
        BY <1>1, <4>1, <4>2 DEF LoopApart, OneRuleEach
    <3>6. KeysOf(left) = KeysOf(V) \ S
      BY <3>5 DEF KeysOf, OneRuleEach
    <3>7. InFlight' = InFlight \ S /\ KeysOf(V) \subseteq InFlight
      <4>1. /\ InFlight = KeysOf(V) \cup Elsewhere(p)
            /\ InFlight' = KeysOf(x.verdicts) \cup Elsewhere(p)
            /\ KeysOf(V) \cap Elsewhere(p) = {}
        BY <3>2, FlightOf
      <4>2. KeysOf(x.verdicts) = KeysOf(V) \ S
        BY <3>1, <3>6
      <4> HIDE DEF V, S
      <4> QED
        BY <2>0, <4>1, <4>2
    <3> QED
      BY <2>0, <3>4, <3>7
  <2> QED
    BY <2>1, <2>2
<1> HIDE DEF S
<1>4. CASE ok
  <2>1. Sends(S)
    <3>1. /\ owed' = IF HasChannels THEN owed \ S ELSE owed
          /\ UNCHANGED <<lost, faults>>
      BY <1>4 DEF Dispatch, S
    <3> QED
      BY <1>2, <1>3, <3>1 DEF Sends, Rest
  <2> QED
    BY <1>3, <2>1 DEF Effect
<1>5. CASE ~ok
  <2>1. Drops(S)
    <3>1. faults' = faults + 1 /\ lost' = lost \cup S /\ owed' = owed
      BY <1>5 DEF Dispatch, S
    <3>2. faults \in Nat /\ stops \in Nat
      BY DEF IInv, TypeOK
    <3> QED
      BY <1>2, <1>3, <3>1, <3>2 DEF Drops
  <2> QED
    BY <1>3, <2>1 DEF Effect
<1> QED
  BY <1>4, <1>5

\* An exception drops the verdicts of its round.
LEMMA RaisesEffect ==
  ASSUME IInv, ContractInv, NEW p \in Loops, Raises(p)
  PROVE  Effect /\ Apart
<1> DEFINE S == KeysOf(loop[p].verdicts)
<1>1. /\ loop' = [loop EXCEPT ![p] = Waiting] /\ faults' = faults + 1
      /\ lost' = lost \cup S /\ UNCHANGED <<rules, owed, quiet, stops>>
  BY DEF Raises, SetLoop
<1>2. Fresh(p, Waiting)
  BY WaitingFresh
<1>3. InFlight' = InFlight \ S /\ S \subseteq InFlight
  BY <1>1, <1>2, FreshFlight, FlightOf
<1>4. Apart
  BY <1>1, <1>2, FreshApart, OthersApart DEF Apart
<1>5. faults \in Nat /\ stops \in Nat
  BY DEF IInv, TypeOK
<1> HIDE DEF S
<1>6. Drops(S)
  BY <1>1, <1>3, <1>5 DEF Drops
<1> QED
  BY <1>3, <1>4, <1>6 DEF Effect

LEMMA AnyLoopEffect ==
  ASSUME IInv, ContractInv, NEW p \in Loops, Step(p) \/ Failures(p)
  PROVE  Effect /\ Apart
<1>1. CASE PollNothing(p)
  <2>1. UNCHANGED <<loop, rules, owed, lost, quiet, faults, stops>>
    BY <1>1 DEF PollNothing, vars, history
  <2>2. InFlight' = InFlight
    BY <2>1 DEF InFlight, KeysOf
  <2>3. Apart
    BY <2>1 DEF Apart, ContractInv
  <2> QED
    BY <2>1, <2>2, <2>3, CountedOrNot
<1>2. CASE \/ (\E S \in SUBSET Tickers : PollTickers(S)) \/ PollSectors
           \/ Evaluated(p) \/ Mark(p) \/ Raises(p)
           \/ (\E r \in loop[p].due : Check(p, r)) \/ Bump(p) \/ LookUp(p) \/ EndLoop(p)
  BY <1>2, PollEffect, EvaluatedEffect, MarkEffect, RaisesEffect, QuietEffect
<1>3. ASSUME NEW m \in SUBSET loop[p].verdicts, NEW ok \in BOOLEAN, Dispatch(p, m, ok)
      PROVE  Effect /\ Apart
  BY <1>3, DispatchEffect
<1>4. \/ PollNothing(p)
      \/ \/ (\E S \in SUBSET Tickers : PollTickers(S)) \/ PollSectors
         \/ Evaluated(p) \/ Mark(p) \/ Raises(p)
         \/ (\E r \in loop[p].due : Check(p, r)) \/ Bump(p) \/ LookUp(p) \/ EndLoop(p)
      \/ \E m \in SUBSET loop[p].verdicts, ok \in BOOLEAN : Dispatch(p, m, ok)
  <2>1. Tickers \in SUBSET Tickers /\ TRUE \in BOOLEAN /\ FALSE \in BOOLEAN
    OBVIOUS
  <2>2. CASE Step(p)
    BY <2>1, <2>2 DEF Step
  <2>3. CASE Failures(p)
    BY <2>1, <2>3 DEF Failures
  <2> QED
    BY <2>2, <2>3
<1> QED
  BY <1>1, <1>2, <1>3, <1>4

\* A loop that waits, or is not there, deals with nothing.
LEMMA IdleApart ==
  /\ LoopApart(Waiting) /\ Waiting.verdicts = {}
  /\ LoopApart(Off) /\ Off.verdicts = {}
BY DEF Waiting, Off, LoopApart, Pending, OneRuleEach

\* The process starts, ends or dies: all loops are set to one idle record.
LEMMA LifeEffect ==
  ASSUME IInv, ContractInv, Boot \/ Start \/ Stop \/ Exit \/ Crash
  PROVE  Effect /\ Apart
<1>0. faults \in Nat /\ stops \in Nat
  BY DEF IInv, TypeOK
<1>1. ASSUME NEW x \in {Waiting, Off}, loop' = [p \in Loops |-> x]
      PROVE  InFlight' = {} /\ \A q \in Loops : LoopApart(loop'[q])
  <2>1. LoopApart(x) /\ x.verdicts = {}
    BY IdleApart
  <2> QED
    BY <1>1, <2>1 DEF InFlight, KeysOf
<1>2. ASSUME \A p \in Loops : loop[p].pc \in {"off", "ended"} PROVE InFlight = {}
  <2>1. \A p \in Loops : loop[p].verdicts = {}
    BY <1>2, LoopFacts DEF LoopOK
  <2> QED
    BY <2>1 DEF InFlight, KeysOf
<1>3. OneRuleEach({})
  BY DEF OneRuleEach
<1>4. CASE Boot
  <2>1. UNCHANGED <<loop, owed, lost, quiet, faults, stops>> /\ rules' = Rules[file]
        /\ file \in Versions
    BY <1>4 DEF Boot, history, IInv, TypeOK
  <2>2. InFlight' = InFlight
    BY <2>1 DEF InFlight, KeysOf
  <2>3. Apart
    BY <2>1, RulesApart DEF Apart, ContractInv
  <2> QED
    BY <2>1, <2>2, <2>3, CountedOrNot
<1>5. CASE Start
  <2>1. UNCHANGED <<rules, owed, lost, quiet, faults, stops>>
        /\ loop' = [p \in Loops |-> Waiting]
    BY <1>5 DEF Start, history
  <2>2. InFlight' = {} /\ Apart
    BY <1>1, <2>1 DEF Apart, ContractInv
  <2>3. \A p \in Loops : loop[p].pc = "off"
    BY <1>5 DEF Start, IInv
  <2>4. InFlight = {}
    BY <1>2, <2>3
  <2> QED
    BY <2>1, <2>2, <2>4, CountedOrNot
<1>6. CASE Stop
  <2>1. UNCHANGED <<loop, rules, owed, lost, quiet, faults>> /\ stops' = stops + 1
    BY <1>6 DEF Stop, history
  <2>2. InFlight' = InFlight
    BY <2>1 DEF InFlight, KeysOf
  <2>3. Drops({})
    BY <1>0, <2>1, <2>2 DEF Drops
  <2>4. Apart
    BY <2>1 DEF Apart, ContractInv
  <2> QED
    BY <2>3, <2>4 DEF Effect
<1>7. CASE Exit
  <2>1. UNCHANGED <<owed, lost, quiet, faults, stops>>
        /\ loop' = [p \in Loops |-> Off] /\ rules' = {}
    BY <1>7 DEF Exit, Gone, history
  <2>2. InFlight' = {} /\ Apart
    BY <1>1, <1>3, <2>1 DEF Apart
  <2>3. \A p \in Loops : loop[p].pc = "ended"
    BY <1>7 DEF Exit
  <2>4. InFlight = {}
    BY <1>2, <2>3
  <2> QED
    BY <2>1, <2>2, <2>4, CountedOrNot
<1>8. CASE Crash
  <2>1. UNCHANGED <<owed, quiet, faults>> /\ stops' = stops + 1 /\ lost' = lost \cup InFlight
        /\ loop' = [p \in Loops |-> Off] /\ rules' = {}
    BY <1>8 DEF Crash, Gone
  <2>2. InFlight' = {} /\ Apart
    BY <1>1, <1>3, <2>1 DEF Apart
  <2>3. Drops(InFlight)
    BY <1>0, <2>1, <2>2 DEF Drops
  <2> QED
    BY <2>2, <2>3 DEF Effect
<1> QED
  BY <1>4, <1>5, <1>6, <1>7, <1>8

\* Time, the quotes, the file and the reload leave the loops alone.
LEMMA WorldEffect ==
  ASSUME IInv, ContractInv,
         \/ Minute \/ (\E k \in Moving : Move(k)) \/ Reload \/ UNCHANGED vars
         \/ \E v \in Versions \cup {Broken}, how \in Saves : Edit(v, how)
  PROVE  Effect /\ Apart
<1>1. UNCHANGED <<loop, owed, lost, faults, stops>>
  BY DEF Minute, Move, Edit, Reload, ReadFile, SwapRules, vars, history
<1>2. InFlight' = InFlight
  BY <1>1 DEF InFlight, KeysOf
<1>3. CASE Minute
  <2>1. rules' = rules /\ quiet' = Older(quiet)
    BY <1>3 DEF Minute
  <2>2. Ages
    BY <1>1, <1>2, <2>1 DEF Ages, Rest
  <2> QED
    BY <1>1, <2>1, <2>2 DEF Effect, Apart, ContractInv
<1>4. CASE SwapRules
  <2>1. read \in Versions /\ rules' = Rules[read] /\ quiet' = quiet
    BY <1>4 DEF SwapRules, history, IInv, TypeOK
  <2>2. Apart
    BY <1>1, <2>1, RulesApart DEF Apart, ContractInv
  <2> QED
    BY <1>1, <1>2, <2>1, <2>2, CountedOrNot
<1>5. CASE ~Minute /\ ~SwapRules
  <2>1. rules' = rules /\ quiet' = quiet
    BY <1>5 DEF Move, Edit, Reload, ReadFile, vars, history
  <2>2. Apart
    BY <1>1, <2>1 DEF Apart, ContractInv
  <2> QED
    BY <1>1, <1>2, <2>1, <2>2, CountedOrNot
<1> QED
  BY <1>3, <1>4, <1>5

LEMMA AnyEffect ==
  ASSUME IInv, ContractInv, [Next]_vars
  PROVE  Effect /\ Apart
BY AnyLoopEffect, LifeEffect, WorldEffect DEF Next

LEMMA ContractInit == Init => ContractInv /\ Contract!Init
<1> SUFFICES ASSUME Init PROVE ContractInv /\ Contract!Init
  OBVIOUS
<1>1. /\ owed = {} /\ lost = {} /\ rules = {} /\ faults = 0 /\ stops = 0
      /\ quiet = [k \in Keys |-> NoRow] /\ \A p \in Loops : loop[p] = Off
  BY DEF Init
<1>2. InFlight = {}
  BY <1>1, IdleApart DEF InFlight, KeysOf
<1>3. ContractInv
  BY <1>1, <1>2, IdleApart DEF ContractInv, OneRuleEach
<1>4. Stages = [k \in Keys |-> "idle"]
  BY <1>1, <1>2 DEF Stages, StageOf
<1>5. faults + stops = 0
  BY <1>1
<1> QED
  BY <1>1, <1>3, <1>4, <1>5 DEF Contract!Init, Contract!NoRow, NoRow

LEMMA ContractStep ==
  ASSUME IInv, ContractInv, [Next]_vars
  PROVE  ContractInv'
<1>1. Effect /\ Apart
  BY AnyEffect
<1>2. (lost \cap InFlight = {} /\ InFlight \cup lost \subseteq owed)'
  BY <1>1, EffectKeeps
<1> QED
  BY <1>1, <1>2 DEF ContractInv, Apart

\* What is in flight or lost is owed, nothing is both, and every loop deals with
\* one rule for each key where it sends them one by one.
THEOREM ContractInvariance == Spec => []ContractInv
BY Invariance, ContractInit, ContractStep, PTL DEF Spec

\* With channels to send to, whatever the loops, the reloads, the crashes and the
\* failures do, every alert is armed out of a cooldown, and sent unless one of
\* the counted interruptions comes between.
THEOREM ImplementsContractHolds ==
  ASSUME HasChannels
  PROVE  Spec => ImplementsContract
<1>1. Init => Contract!Init
  BY ContractInit
<1>2. IInv /\ ContractInv /\ IInv' /\ ContractInv' /\ [Next]_vars
        => Contract!Next \/ UNCHANGED <<Stages, quiet, faults + stops>>
  BY AnyEffect, EffectSimulates
<1> QED
  BY <1>1, <1>2, Invariance, ContractInvariance, PTL
     DEF Spec, ImplementsContract, Contract!Spec
=============================================================================
