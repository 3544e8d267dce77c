---------------------------- MODULE AlertContract ----------------------------
(***************************************************************************)
(* What quote_watcher promises about the alerts of one key, the rule and   *)
(* the thing it is about: it arms an alert only out of a cooldown, sends   *)
(* an armed alert and nothing else, and drops one only when something      *)
(* interrupts it.  Loops, reloads and restarts are not seen here.          *)
(* QuoteAlerts implements this module.                                     *)
(***************************************************************************)
EXTENDS Integers

CONSTANTS
  Keys,          \* primary keys of alert_state
  Cooldowns,     \* Cooldowns[k]: the cooldowns rules may give k
  MaxAge         \* MaxAge[k]: minutes are counted up to here

VARIABLES
  stage,         \* stage[k]: "idle", "armed" or "lost"
  since,         \* since[k]: minutes since k was last armed, or NoRow
  slips          \* interruptions so far

NoRow == -1
Armed == {k \in Keys : stage[k] = "armed"}
Become(S, to) == stage' = [k \in Keys |-> IF k \in S THEN to ELSE stage[k]]

Init ==
  /\ stage = [k \in Keys |-> "idle"] /\ since = [k \in Keys |-> NoRow]
  /\ slips = 0

Minute ==
  /\ since' = [k \in Keys |-> IF since[k] \in {NoRow, MaxAge[k]} THEN since[k]
                              ELSE since[k] + 1]
  /\ UNCHANGED <<stage, slips>>

Arm(k) ==
  /\ \E c \in Cooldowns[k] : since[k] = NoRow \/ since[k] >= c
  /\ since' = [since EXCEPT ![k] = 0]
  /\ Become({k}, "armed") /\ UNCHANGED slips

\* One message tells of several keys.
Say(S) ==
  /\ UNCHANGED <<since, slips>>
  /\ S # {} /\ Become(S, "idle")

\* One interruption may cost any alerts that are armed, or none.
Interrupt(S) ==
  /\ slips' = slips + 1 /\ UNCHANGED since
  /\ Become(S, "lost")

Next ==
  \/ Minute
  \/ \E k \in Keys : Arm(k)
  \/ \E S \in SUBSET Armed : Say(S) \/ Interrupt(S)

Spec == Init /\ [][Next]_<<stage, since, slips>>
=============================================================================
