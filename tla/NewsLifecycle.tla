---------------------------- MODULE NewsLifecycle ----------------------------
(***************************************************************************)
(* What the news pipeline promises about one article, whatever the order   *)
(* of its jobs and wherever they are interrupted: an article is rejected   *)
(* or accepted once, and an accepted article is announced along one path   *)
(* only, at once or in a digest.  NewsPipeline implements this module.     *)
(***************************************************************************)
EXTENDS Naturals

CONSTANT Raws          \* the articles (rows of raw_news)

VARIABLE stage         \* stage[r]: how far article r has come

Stages == {"absent", "pending", "rejected", "accepted",
           "pushed", "queued", "digested"}

Init == stage = [r \in Raws |-> "absent"]

Move(r, from, to) ==
  /\ stage[r] = from
  /\ stage' = [stage EXCEPT ![r] = to]

Arrive(r) == Move(r, "absent", "pending")
Reject(r) == Move(r, "pending", "rejected")
Accept(r) == Move(r, "pending", "accepted")
Push(r)   == Move(r, "accepted", "pushed")
Queue(r)  == Move(r, "accepted", "queued")

\* A digest retires all the rows it read at once.
Flush(S) ==
  /\ \A r \in S : stage[r] = "queued"
  /\ stage' = [r \in Raws |-> IF r \in S THEN "digested" ELSE stage[r]]

Next ==
  \/ \E r \in Raws : Arrive(r) \/ Reject(r) \/ Accept(r) \/ Push(r) \/ Queue(r)
  \/ \E S \in SUBSET Raws : Flush(S)

Spec == Init /\ [][Next]_stage
=============================================================================
