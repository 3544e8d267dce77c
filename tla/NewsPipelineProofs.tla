------------------------- MODULE NewsPipelineProofs -------------------------
(***************************************************************************)
(* Proofs about NewsPipeline, for any number of articles, any batch size   *)
(* and cap, and any number of exceptions and crashes at any await.         *)
(***************************************************************************)
EXTENDS NewsPipeline, FiniteSetTheorems, WellFoundedInduction, TLAPS

\* A non-empty set of row numbers has a least one.
LEMMA LeastRow ==
  ASSUME NEW S \in SUBSET Raws, S # {}
  PROVE  \E r \in S : \A x \in S : r <= x
<1>. DEFINE Below(r) == {x \in S : x < r}
            T == {Below(r) : r \in S}
<1>0. S \subseteq Nat
  BY ConstantsOK
<1>1. PICK t \in T : \A u \in T : <<u, t>> \notin StrictSubsetOrdering(S)
  <2>1. FiniteSubsetsOf(S) = SUBSET S
    BY RawsFinite, FS_Subset, FS_FiniteSubsetsOfFinite
  <2>2. IsWellFoundedOn(StrictSubsetOrdering(S), SUBSET S)
    BY <2>1, FS_StrictSubsetOrderingWellFounded
  <2>3. T \subseteq SUBSET S /\ T # {}
    OBVIOUS
  <2>4. QED
    BY <2>2, <2>3, WFMin
<1>2. PICK r \in S : t = Below(r)
  OBVIOUS
<1>3. ASSUME NEW x \in S, x < r PROVE FALSE
  <2>1. \A y \in S : y < x => y < r
    BY <1>0, <1>3
  <2>2. x \in Below(r) /\ x \notin Below(x)
    BY <1>0, <1>3
  <2>a. Below(x) \subseteq Below(r)
    BY <2>1
  <2>b. <<Below(x), Below(r)>> \in StrictSubsetOrdering(S)
    BY <2>a, <2>2 DEF StrictSubsetOrdering
  <2>3. QED
    BY <1>1, <1>2, <2>b
<1>4. QED
  BY <1>0, <1>3

\* The row the job handles is one of its batch.
LEMMA LeastIn ==
  ASSUME NEW S \in SUBSET Raws, S # {}
  PROVE  Least(S) \in S
BY LeastRow DEF Least

\* A batch is never empty while rows are pending.
LEMMA OldestNotEmpty ==
  ASSUME NEW S \in SUBSET Raws, S # {}, NEW n \in Nat \ {0}
  PROVE  Oldest(n, S) # {} /\ Oldest(n, S) \subseteq S
<1>1. PICK r \in S : \A x \in S : r <= x
  BY LeastRow
<1>2. {x \in S : x < r} = {}
  <2>1. S \subseteq Nat
    BY ConstantsOK
  <2>2. \A x \in S : ~(x < r)
    BY <1>1, <2>1
  <2>3. QED
    BY <2>2
<1>3. Cardinality({x \in S : x < r}) = 0
  BY <1>2, FS_EmptySet
<1>4. r \in Oldest(n, S)
  BY <1>3 DEF Oldest
<1>5. QED
  BY <1>4 DEF Oldest

-----------------------------------------------------------------------------
(* The inductive invariant *)

\* The part of TypeOK about the process_pending coroutine.
JobType ==
  /\ pc \in JobPCs /\ todo \subseteq Raws /\ critical \in BOOLEAN
  /\ plans \subseteq Markets /\ answers \subseteq AllChannels \X BOOLEAN

\* A coroutine that ends, for whatever reason, leaves nothing to go wrong.
LEMMA JobEndsOK ==
  ASSUME JobEnds
  PROVE  JobType' /\ JobInv'
BY DEF JobEnds, JobType, JobInv, JobPCs

\* Going on to the next row keeps the batch fresh, if only the current row
\* changed its status.
LEMMA NextRowOK ==
  ASSUME IInv, todo # {}, NextRow,
         \A r \in Raws \ {Cur} : status'[r] = status[r]
  PROVE  JobType' /\ JobInv'
<1>1. CASE todo = {Cur}
  BY <1>1, JobEndsOK DEF NextRow
<1>2. CASE todo # {Cur}
  <2>1. Cur \in todo /\ todo \subseteq Raws
    BY LeastIn DEF Cur, IInv, TypeOK
  <2>2. /\ pc' = "next" /\ todo' = todo \ {Cur}
        /\ critical' = FALSE /\ plans' = {} /\ answers' = {}
    BY <1>2 DEF NextRow
  <2>3. \A r \in todo' : status'[r] = "pending"
    BY <2>1, <2>2 DEF IInv, JobInv
  <2>4. todo' # {}
    BY <1>2, <2>1, <2>2
  <2>5. QED
    BY <2>1, <2>2, <2>3, <2>4 DEF JobType, JobInv, JobPCs
<1>3. QED
  BY <1>1, <1>2

\* What the invariant says of the current row whenever there is one.
LEMMA CurFacts ==
  ASSUME IInv, pc # "idle"
  PROVE  /\ todo # {} /\ Cur \in todo /\ Cur \in Raws
         /\ pc \in {"next", "insert", "mark"} => status[Cur] = "pending"
<1>1. todo # {} /\ todo \subseteq Raws
  BY DEF IInv, JobInv, TypeOK
<1>2. Cur \in todo
  BY <1>1, LeastIn DEF Cur
<1>3. QED
  BY <1>1, <1>2 DEF IInv, JobInv

THEOREM InitIInv == Init => IInv
<1>. SUFFICES ASSUME Init PROVE IInv
  OBVIOUS
<1>1. TypeOK
  BY ConstantsOK DEF Init, TypeOK, Statuses, JobPCs, None, Asleep
<1>2. TablesInv
  BY DEF Init, TablesInv, OnePath, AtMostOncePush, Announced, Buffered, None
<1>3. JobInv
  BY DEF Init, JobInv
<1>4. DigestInv
  BY DEF Init, DigestInv, Asleep
<1>. QED
  BY <1>1, <1>2, <1>3, <1>4 DEF IInv

\* The scheduler's ticks and the new rows disturb nothing.
LEMMA IngestStep ==
  ASSUME IInv, NEW r \in Raws, Ingest(r)
  PROVE  IInv'
<1>1. TypeOK'
  BY DEF IInv, TypeOK, Ingest, Statuses, job, chats
<1>2. TablesInv'
  BY DEF IInv, TypeOK, TablesInv, OnePath, AtMostOncePush, Announced, Buffered,
         Ingest, job, chats
<1>3. JobInv'
  BY DEF IInv, TypeOK, TablesInv, JobInv, Cur, Buffered, Ingest, job, chats
<1>4. DigestInv'
  BY DEF IInv, DigestInv, Buffered, Ingest
<1>. QED
  BY <1>1, <1>2, <1>3, <1>4 DEF IInv

LEMMA ListPendingStep ==
  ASSUME IInv, ListPending
  PROVE  IInv'
<1>. USE DEF ListPending, tables, chats
<1>0. Pending \subseteq Raws /\ todo' # {} /\ todo' \subseteq Pending
  BY OldestNotEmpty, ConstantsOK DEF Pending
<1>1. TypeOK'
  BY <1>0 DEF IInv, TypeOK, JobPCs
<1>2. TablesInv'
  BY DEF IInv, TablesInv, OnePath, AtMostOncePush, Announced, Buffered
<1>3. JobInv'
  BY <1>0 DEF JobInv, Pending
<1>4. DigestInv'
  BY DEF IInv, DigestInv, Buffered
<1>. QED
  BY <1>1, <1>2, <1>3, <1>4 DEF IInv

LEMMA RejectStep ==
  ASSUME IInv, NEW o \in Rejections, Reject(o)
  PROVE  IInv'
<1>. USE DEF Reject, SetStatus, chats
<1>0. Cur \in Raws /\ status[Cur] = "pending" /\ todo # {}
  BY CurFacts
<1>1. JobType' /\ JobInv'
  BY <1>0, NextRowOK DEF IInv, TypeOK
<1>2. TypeOK'
  BY <1>0, <1>1 DEF IInv, TypeOK, JobType, Statuses
<1>3. o # "absent" /\ o # "processed"
  BY DEF Rejections
<1>4. TablesInv'
  BY <1>0, <1>3 DEF IInv, TypeOK, TablesInv, OnePath, AtMostOncePush,
                    Announced, Buffered
<1>5. DigestInv'
  BY DEF IInv, DigestInv, Buffered
<1>. QED
  BY <1>1, <1>2, <1>4, <1>5 DEF IInv

LEMMA ScoreStep ==
  ASSUME IInv, NEW crit \in BOOLEAN, Score(crit)
  PROVE  IInv'
<1>. USE DEF Score, tables, chats
<1>1. TypeOK'
  BY DEF IInv, TypeOK, JobPCs
<1>2. TablesInv'
  BY DEF IInv, TablesInv, OnePath, AtMostOncePush, Announced, Buffered
<1>3. JobInv'
  BY DEF IInv, JobInv, Cur
<1>4. DigestInv'
  BY DEF IInv, DigestInv, Buffered
<1>. QED
  BY <1>1, <1>2, <1>3, <1>4 DEF IInv

LEMMA InsertStep ==
  ASSUME IInv, Insert
  PROVE  IInv'
<1>. USE DEF Insert, chats
<1>0. Cur \in Raws /\ status[Cur] = "pending"
  BY CurFacts
<1>1. TypeOK'
  BY <1>0 DEF IInv, TypeOK, JobPCs
<1>2. TablesInv'
  BY <1>0 DEF IInv, TablesInv, OnePath, AtMostOncePush, Announced, Buffered
<1>3. Cur' = Cur
  BY DEF Cur
<1>4. JobInv'
  BY <1>3 DEF IInv, JobInv
<1>5. DigestInv'
  BY DEF IInv, DigestInv, Buffered
<1>. QED
  BY <1>1, <1>2, <1>4, <1>5 DEF IInv

\* A step that leaves the tables, the digests and the chats alone.
LEMMA JobEndsStep ==
  ASSUME IInv, JobEnds, UNCHANGED <<tables, dig, chats>>,
         faults' \in Nat, crashes' \in Nat
  PROVE  IInv'
<1>. USE DEF tables, chats
<1>1. JobType' /\ JobInv'
  BY JobEndsOK
<1>2. TypeOK'
  BY <1>1 DEF IInv, TypeOK, JobType
<1>3. TablesInv'
  BY DEF IInv, TablesInv, OnePath, AtMostOncePush, Announced, Buffered
<1>4. DigestInv'
  BY DEF IInv, DigestInv, Buffered
<1>. QED
  BY <1>1, <1>2, <1>3, <1>4 DEF IInv

LEMMA MarkStep ==
  ASSUME IInv, NEW target \in SUBSET Markets, Mark(target)
  PROVE  IInv'
<1>. USE DEF Mark, SetStatus, chats
<1>0. Cur \in Raws /\ status[Cur] = "pending" /\ todo # {} /\ Cur \in proc
  BY CurFacts DEF IInv, JobInv
<1>1. JobType' /\ JobInv'
  <2>1. CASE NextRow
    BY <1>0, <2>1, NextRowOK DEF IInv, TypeOK
  <2>2. CASE ~NextRow
    <3>. DEFINE routed == {m \in target : Channels[m] # {}}
    <3>1. pc' = "route" /\ plans' = routed /\ UNCHANGED <<todo, critical, answers>>
      BY <2>2
    <3>2. Cur' = Cur
      BY <3>1 DEF Cur
    <3>3. JobType'
      BY <3>1 DEF IInv, TypeOK, JobType, JobPCs
    <3>4. ~Announced(Cur)
      BY <1>0 DEF IInv, TablesInv
    <3>5. Cur \notin Buffered' /\ \A m \in Markets : pushed'[Cur][m] = 0
      BY <1>0, <3>4 DEF Announced, Buffered, IInv, TypeOK
    <3>6. status'[Cur] = "processed"
      BY <1>0 DEF IInv, TypeOK
    <3>7. \A r \in todo' : r # Cur => status'[r] = "pending"
      BY <1>0, <3>1 DEF IInv, JobInv, TypeOK
    <3>8. JobInv'
      BY <1>0, <3>1, <3>2, <3>5, <3>6, <3>7 DEF JobInv
    <3>. QED
      BY <3>3, <3>8
  <2>. QED
    BY <2>1, <2>2
<1>2. TypeOK'
  BY <1>0, <1>1 DEF IInv, TypeOK, JobType, Statuses
<1>3. TablesInv'
  BY <1>0 DEF IInv, TypeOK, TablesInv, OnePath, AtMostOncePush, Announced, Buffered
<1>4. DigestInv'
  BY DEF IInv, DigestInv, Buffered
<1>. QED
  BY <1>1, <1>2, <1>3, <1>4 DEF IInv

\* Dropping a plan, or going on to the next one, disturbs nothing.
LEMMA SuppressStep ==
  ASSUME IInv, NEW m \in Markets, Suppress(m)
  PROVE  IInv'
<1>. USE DEF Suppress, tables, chats
<1>1. JobType' /\ JobInv'
  <2>1. CASE NextRow
    BY <2>1, CurFacts, NextRowOK
  <2>2. CASE ~NextRow
    <3>1. pc' = "route" /\ plans' = plans \ {m} /\ UNCHANGED <<todo, critical>>
          /\ answers' = {}
      BY <2>2 DEF NextPlan
    <3>2. Cur' = Cur
      BY <3>1 DEF Cur
    <3>3. QED
      BY <3>1, <3>2 DEF IInv, TypeOK, JobType, JobInv, JobPCs, Buffered
  <2>. QED
    BY <2>1, <2>2
<1>2. TypeOK'
  BY <1>1 DEF IInv, TypeOK, JobType
<1>3. TablesInv'
  BY DEF IInv, TablesInv, OnePath, AtMostOncePush, Announced, Buffered
<1>4. DigestInv'
  BY DEF IInv, DigestInv, Buffered
<1>. QED
  BY <1>1, <1>2, <1>3, <1>4 DEF IInv

\* Sending is safe because a plan is taken off before anything else: m is in
\* `plans` only as long as nothing was sent to it.
LEMMA DispatchStep ==
  ASSUME IInv, NEW m \in Markets, NEW ok \in SUBSET Channels[m], Dispatch(m, ok)
  PROVE  IInv'
<1>. USE DEF Dispatch, tables
<1>0. /\ Cur \in Raws /\ status[Cur] = "processed" /\ Cur \in proc
      /\ Cur \notin Buffered /\ pushed[Cur][m] = 0
  BY CurFacts DEF IInv, JobInv
<1>1. pushed' \in [Raws -> [Markets -> Nat]]
  BY <1>0 DEF IInv, TypeOK
<1>2. /\ pushed'[Cur][m] = 1
      /\ \A r \in Raws, n \in Markets :
            r # Cur \/ n # m => pushed'[r][n] = pushed[r][n]
  BY <1>0 DEF IInv, TypeOK
<1>3. answers' \subseteq AllChannels \X BOOLEAN
  BY DEF AllChannels
<1>4. TypeOK'
  BY <1>1, <1>3 DEF IInv, TypeOK, JobPCs, PlansLeft
<1>5. TablesInv'
  <2>1. \A r \in Raws : status'[r] # "processed" => ~Announced(r)'
    BY <1>0, <1>2 DEF IInv, TablesInv, Announced, Buffered
  <2>2. OnePath'
    BY <1>0, <1>2 DEF IInv, TablesInv, OnePath, Buffered
  <2>3. AtMostOncePush'
    BY <1>2 DEF IInv, TablesInv, AtMostOncePush
  <2>. QED
    BY <2>1, <2>2, <2>3 DEF IInv, TablesInv, Buffered
<1>6. Cur' = Cur
  BY DEF Cur
<1>7. JobInv'
  <2>1. \A n \in plans' : pushed'[Cur][n] = 0
    BY <1>0, <1>2 DEF IInv, JobInv, TypeOK, PlansLeft
  <2>. QED
    BY <1>0, <1>6, <2>1 DEF IInv, JobInv, Buffered
<1>8. DigestInv'
  BY DEF IInv, DigestInv, Buffered
<1>. QED
  BY <1>4, <1>5, <1>7, <1>8 DEF IInv

LEMMA WriteLogStep ==
  ASSUME IInv, NEW a \in answers, WriteLog(a)
  PROVE  IInv'
<1>. USE DEF WriteLog, chats
<1>0. Cur \in Raws /\ todo # {}
  BY CurFacts
<1>1. JobType' /\ JobInv'
  <2>1. CASE NextRow
    BY <1>0, <2>1, NextRowOK
  <2>2. CASE ~NextRow
    <3>1. /\ pc' \in {"route", "log"} /\ UNCHANGED <<todo, critical, plans>>
          /\ answers' \subseteq answers
      BY <2>2
    <3>2. Cur' = Cur
      BY <3>1 DEF Cur
    <3>. QED
      BY <3>1, <3>2 DEF IInv, TypeOK, JobType, JobInv, JobPCs, Buffered
  <2>. QED
    BY <2>1, <2>2
<1>2. LogRow(a) \subseteq Raws \X AllChannels \X BOOLEAN
  BY <1>0 DEF LogRow, IInv, TypeOK
<1>3. TypeOK'
  BY <1>1, <1>2 DEF IInv, TypeOK, JobType
<1>4. TablesInv'
  BY DEF IInv, TablesInv, OnePath, AtMostOncePush, Announced, Buffered
<1>5. DigestInv'
  BY DEF IInv, DigestInv, Buffered
<1>. QED
  BY <1>1, <1>3, <1>4, <1>5 DEF IInv

LEMMA EnqueueStep ==
  ASSUME IInv, NEW p \in Periods, Enqueue(p)
  PROVE  IInv'
<1>. USE DEF Enqueue, chats, Waits
<1>0. /\ Cur \in Raws /\ status[Cur] = "processed" /\ todo # {}
      /\ \A m \in Markets : pushed[Cur][m] = 0
  BY CurFacts DEF IInv, JobInv
<1>1. JobType' /\ JobInv'
  BY <1>0, NextRowOK DEF IInv, TypeOK
<1>2. <<p, MarketOf[Cur]>> \in Keys
  BY <1>0, ConstantsOK DEF Keys
<1>3. Cardinality(Buffered) \in Nat
  BY RawsFinite, FS_Subset, FS_CardinalityType DEF Buffered
<1>4. TypeOK'
  BY <1>0, <1>1, <1>2, <1>3 DEF IInv, TypeOK, JobType
<1>5. Buffered' = Buffered \cup {Cur}
  BY <1>0, <1>2 DEF Buffered, IInv, TypeOK, None, Keys
<1>6. TablesInv'
  BY <1>0, <1>5 DEF IInv, TablesInv, OnePath, AtMostOncePush, Announced
<1>7. DigestInv'
  BY <1>5 DEF IInv, DigestInv
<1>. QED
  BY <1>1, <1>4, <1>6, <1>7 DEF IInv

LEMMA DigestListStep ==
  ASSUME IInv, NEW k \in Keys, DigestList(k)
  PROVE  IInv'
<1>. USE DEF tables, job, chats
<1>. DEFINE rows == Rows(k)
            shown == Earliest(DigestCap, rows) \cap proc
            d == [pc |-> IF shown = {} THEN "consume" ELSE "dispatch",
                  ids |-> rows, items |-> shown]
<1>1. dig' = [dig EXCEPT ![k] = d] /\ UNCHANGED <<tables, job, chats, faults, crashes>>
  BY DEF DigestList
<1>2. rows \subseteq Buffered /\ shown \subseteq rows /\ rows \subseteq Raws
  BY DEF Rows, Earliest, Buffered, Keys, None
<1>. HIDE DEF rows, shown
<1>3. TypeOK'
  BY <1>1, <1>2 DEF IInv, TypeOK
<1>4. TablesInv'
  BY <1>1 DEF IInv, TablesInv, OnePath, AtMostOncePush, Announced, Buffered
<1>5. JobInv'
  BY <1>1 DEF IInv, JobInv, Cur, Buffered
<1>6. DigestInv'
  BY <1>1, <1>2 DEF IInv, TypeOK, DigestInv, Buffered
<1>. QED
  BY <1>3, <1>4, <1>5, <1>6 DEF IInv

LEMMA DigestDispatchStep ==
  ASSUME IInv, NEW k \in Keys, NEW ok \in SUBSET Channels[k[2]], DigestDispatch(k, ok)
  PROVE  IInv'
<1>. USE DEF DigestDispatch, CountUp, tables, job
<1>. DEFINE d == [pc |-> "consume", ids |-> dig[k].ids, items |-> dig[k].items]
<1>0. dig' = [dig EXCEPT ![k] = d]
  <2>1. dig[k] \in [pc : {"idle", "dispatch", "consume"},
                    ids : SUBSET Raws, items : SUBSET Raws]
    BY DEF IInv, TypeOK
  <2>2. [dig[k] EXCEPT !.pc = "consume"] = d
    BY <2>1
  <2>. QED
    BY <2>2
<1>1. TypeOK'
  BY <1>0, SMTT(30) DEF IInv, TypeOK
<1>2. TablesInv'
  BY DEF IInv, TablesInv, OnePath, AtMostOncePush, Announced, Buffered
<1>3. JobInv'
  BY DEF IInv, JobInv, Cur, Buffered
<1>4. DigestInv'
  BY DEF IInv, TypeOK, DigestInv, Buffered
<1>. QED
  BY <1>1, <1>2, <1>3, <1>4 DEF IInv

LEMMA DigestConsumeStep ==
  ASSUME IInv, NEW k \in Keys, DigestConsume(k)
  PROVE  IInv'
<1>. USE DEF DigestConsume, ConsumedIds, job, chats
<1>0. dig[k].ids \subseteq Buffered /\ Buffered \subseteq Raws
  BY DEF IInv, DigestInv, Buffered
<1>1. TypeOK'
  BY <1>0 DEF IInv, TypeOK, Asleep
<1>2. TablesInv'
  BY <1>0 DEF IInv, TablesInv, OnePath, AtMostOncePush, Announced, Buffered
<1>3. JobInv'
  BY DEF IInv, JobInv, Cur, Buffered
<1>4. DigestInv'
  BY DEF IInv, TypeOK, DigestInv, Buffered, Asleep
<1>. QED
  BY <1>1, <1>2, <1>3, <1>4 DEF IInv

LEMMA DigestRaisesStep ==
  ASSUME IInv, NEW k \in Keys, DigestRaises(k)
  PROVE  IInv'
<1>. USE DEF DigestRaises, tables, job, chats
<1>1. TypeOK'
  BY DEF IInv, TypeOK, Asleep
<1>2. TablesInv'
  BY DEF IInv, TablesInv, OnePath, AtMostOncePush, Announced, Buffered
<1>3. JobInv'
  BY DEF IInv, JobInv, Cur, Buffered
<1>4. DigestInv'
  BY DEF IInv, TypeOK, DigestInv, Buffered, Asleep
<1>. QED
  BY <1>1, <1>2, <1>3, <1>4 DEF IInv

LEMMA CrashStep ==
  ASSUME IInv, Crash
  PROVE  IInv'
<1>. USE DEF Crash, tables, chats
<1>1. JobType' /\ JobInv'
  BY JobEndsOK
<1>2. TypeOK'
  BY <1>1 DEF IInv, TypeOK, JobType, Asleep
<1>3. TablesInv'
  BY DEF IInv, TablesInv, OnePath, AtMostOncePush, Announced, Buffered
<1>4. DigestInv'
  BY DEF DigestInv, Asleep
<1>. QED
  BY <1>1, <1>2, <1>3, <1>4 DEF IInv

LEMMA StutterStep ==
  ASSUME IInv, UNCHANGED vars
  PROVE  IInv'
<1>. USE DEF vars, tables, job, chats
<1>1. TypeOK'
  BY DEF IInv, TypeOK
<1>2. TablesInv'
  BY DEF IInv, TablesInv, OnePath, AtMostOncePush, Announced, Buffered
<1>3. JobInv'
  BY DEF IInv, JobInv, Cur, Buffered
<1>4. DigestInv'
  BY DEF IInv, DigestInv, Buffered
<1>. QED
  BY <1>1, <1>2, <1>3, <1>4 DEF IInv

LEMMA JobStepIInv ==
  ASSUME IInv, JobStep
  PROVE  IInv'
<1>1. CASE ListPending
  BY <1>1, ListPendingStep
<1>2. CASE \E o \in Rejections : Reject(o)
  BY <1>2, RejectStep
<1>3. CASE \E crit \in BOOLEAN : Score(crit)
  BY <1>3, ScoreStep
<1>4. CASE Insert
  BY <1>4, InsertStep
<1>5. CASE InsertCollides
  BY <1>5, JobEndsStep DEF InsertCollides, IInv, TypeOK
<1>6. CASE pc = "mark" /\ \E target \in Targets(Cur) : Mark(target)
  <2>1. Cur \in Raws
    BY <1>6, CurFacts
  <2>2. Targets(Cur) \subseteq SUBSET Markets
    BY <2>1, ConstantsOK DEF Targets
  <2>. QED
    BY <1>6, <2>2, MarkStep
<1>7. CASE \E m \in Markets : Suppress(m)
  BY <1>7, SuppressStep
<1>8. CASE \E m \in Markets : \E ok \in SUBSET Channels[m] : Dispatch(m, ok)
  BY <1>8, DispatchStep
<1>9. CASE \E a \in answers : WriteLog(a)
  BY <1>9, WriteLogStep
<1>10. CASE \E p \in Periods : Enqueue(p)
  BY <1>10, EnqueueStep
<1>. QED
  BY <1>1, <1>2, <1>3, <1>4, <1>5, <1>6, <1>7, <1>8, <1>9, <1>10 DEF JobStep

THEOREM NextIInv == IInv /\ [Next]_vars => IInv'
<1>. SUFFICES ASSUME IInv, [Next]_vars PROVE IInv'
  OBVIOUS
<1>1. CASE \E r \in Raws : Ingest(r)
  BY <1>1, IngestStep
<1>2. CASE JobStep
  BY <1>2, JobStepIInv
<1>3. CASE JobRaises
  BY <1>3, JobEndsStep DEF JobRaises, IInv, TypeOK
<1>4. ASSUME NEW k \in Keys, DigestStep(k) \/ DigestRaises(k) PROVE IInv'
  BY <1>4, DigestListStep, DigestDispatchStep, DigestConsumeStep, DigestRaisesStep
  DEF DigestStep
<1>5. CASE Crash
  BY <1>5, CrashStep
<1>6. CASE EmptyTick \/ (\E k \in Keys : EmptyDigest(k)) \/ UNCHANGED vars
  BY <1>6, StutterStep DEF EmptyTick, EmptyDigest
<1>. QED
  BY <1>1, <1>2, <1>3, <1>4, <1>5, <1>6 DEF Next

\* The inductive invariant holds in every state the pipeline can reach.
THEOREM Invariance == Spec => []IInv
BY InitIInv, NextIInv, PTL DEF Spec

-----------------------------------------------------------------------------
(* What follows from it *)

\* Every variable keeps its type, whatever is interrupted where.
THEOREM TypeCorrect == Spec => []TypeOK
<1>1. IInv => TypeOK
  BY DEF IInv
<1>. QED
  BY <1>1, Invariance, PTL

\* No article is both in digest_buffer and sent at once.
THEOREM OnePathHolds == Spec => []OnePath
<1>1. IInv => OnePath
  BY DEF IInv, TablesInv
<1>. QED
  BY <1>1, Invariance, PTL

\* No market's channels get an article at once twice, however often the job
\* is interrupted and run again.
THEOREM AtMostOncePushHolds == Spec => []AtMostOncePush
<1>1. IInv => AtMostOncePush
  BY DEF IInv, TablesInv
<1>. QED
  BY <1>1, Invariance, PTL

\* Whatever was announced is "processed" in raw_news and has its row in
\* news_processed.
THEOREM AnnouncedIsProcessedHolds == Spec => []AnnouncedIsProcessed
<1>1. IInv => AnnouncedIsProcessed
  BY DEF IInv, TablesInv, AnnouncedIsProcessed
<1>. QED
  BY <1>1, Invariance, PTL

LEMMA StatusFinalStep ==
  ASSUME IInv, Next,
         NEW r \in Raws, status[r] \notin {"absent", "pending"}
  PROVE  status'[r] = status[r]
<1>. USE DEF tables, job, chats
<1>1. ASSUME NEW o, NEW x \in Raws, status[x] = "pending", SetStatus(x, o)
      PROVE  status'[r] = status[r]
  BY <1>1 DEF SetStatus, IInv, TypeOK
<1>2. CASE \E x \in Raws : Ingest(x)
  BY <1>2 DEF Ingest, IInv, TypeOK
<1>3. CASE \E o \in Rejections : Reject(o)
  BY <1>1, <1>3, CurFacts DEF Reject
<1>4. CASE pc = "mark" /\ \E target \in Targets(Cur) : Mark(target)
  BY <1>1, <1>4, CurFacts DEF Mark
<1>5. CASE UNCHANGED status
  BY <1>5
<1>. QED
  BY <1>2, <1>3, <1>4, <1>5
  DEF Next, JobStep, EmptyTick, ListPending, Score, Insert, InsertCollides,
      Suppress, Dispatch, WriteLog, Enqueue, JobRaises, EmptyDigest, DigestStep,
      DigestList, DigestDispatch, DigestConsume, DigestRaises, Crash, vars

\* A row that was rejected or processed keeps that status for good.
THEOREM StatusFinalHolds == Spec => StatusFinal
<1>. DEFINE A == \A r \in Raws : status[r] \notin {"absent", "pending"}
                                   => status'[r] = status[r]
<1>1. IInv /\ [Next]_vars => [A]_vars
  BY StatusFinalStep
<1>. QED
  BY <1>1, Invariance, PTL DEF Spec, StatusFinal

-----------------------------------------------------------------------------
(* NewsPipeline implements NewsLifecycle *)

Stage == [r \in Raws |-> StageOf(r)]

\* The moves of one article that NewsLifecycle allows.
Moves == {<<"absent", "pending">>, <<"pending", "rejected">>,
          <<"pending", "accepted">>, <<"accepted", "pushed">>,
          <<"accepted", "queued">>}

LEMMA OneMove ==
  ASSUME NEW r \in Raws,
         \A x \in Raws \ {r} : StageOf(x)' = StageOf(x),
         <<StageOf(r), StageOf(r)'>> \in Moves
  PROVE  Lifecycle!Next
<1>. DEFINE to == StageOf(r)'
<1>1. Stage' = [Stage EXCEPT ![r] = to]
  BY DEF Stage
<1>2. Stage[r] = StageOf(r)
  BY DEF Stage
<1>3. Lifecycle!Move(r, StageOf(r), to)
  BY <1>1, <1>2 DEF Lifecycle!Move, Stage
<1>. HIDE DEF to
<1>4. \/ Lifecycle!Arrive(r) \/ Lifecycle!Reject(r) \/ Lifecycle!Accept(r)
      \/ Lifecycle!Push(r) \/ Lifecycle!Queue(r)
  BY <1>3 DEF Moves, to, Lifecycle!Arrive, Lifecycle!Reject, Lifecycle!Accept,
              Lifecycle!Push, Lifecycle!Queue
<1>. QED
  BY <1>4 DEF Lifecycle!Next

LEMMA SameStage ==
  ASSUME UNCHANGED <<status, proc, digestOf, consumed, pushed>>
  PROVE  UNCHANGED Stage
BY DEF Stage, StageOf, Buffered

\* A row that is neither announced nor processed stands where its status
\* and its news_processed row say.
LEMMA StageOfUnannounced ==
  ASSUME IInv, NEW r \in Raws, ~Announced(r)
  PROVE  StageOf(r) = IF r \in proc THEN "accepted"
                      ELSE IF status[r] \in {"absent", "pending"} THEN status[r]
                      ELSE "rejected"
BY DEF IInv, TablesInv, Announced, StageOf

LEMMA RefinementInit == Init => Lifecycle!Init
BY DEF Init, Lifecycle!Init, StageOf, Buffered, None

LEMMA IngestRefines ==
  ASSUME IInv, NEW r \in Raws, Ingest(r)
  PROVE  Lifecycle!Next
<1>1. status[r] = "absent" /\ ~Announced(r) /\ r \notin proc
  BY DEF Ingest, IInv, TablesInv
<1>2. StageOf(r) = "absent"
  BY <1>1, StageOfUnannounced
<1>3. StageOf(r)' = "pending"
  BY <1>1 DEF Ingest, StageOf, Announced, Buffered, IInv, TablesInv, TypeOK, chats
<1>4. \A x \in Raws \ {r} : StageOf(x)' = StageOf(x)
  BY DEF Ingest, StageOf, Buffered, IInv, TypeOK, chats
<1>. QED
  BY <1>2, <1>3, <1>4, OneMove DEF Moves

\* A dropped row is rejected, unless an interrupted run had accepted it.
LEMMA RejectRefines ==
  ASSUME IInv, NEW o \in Rejections, Reject(o)
  PROVE  Lifecycle!Next \/ UNCHANGED Stage
<1>0. PICK c \in Raws : c = Cur /\ status[c] = "pending" /\ ~Announced(c)
  BY CurFacts DEF Reject, IInv, TablesInv
<1>1. /\ status' = [status EXCEPT ![c] = o]
      /\ UNCHANGED <<proc, digestOf, consumed, pushed>>
  BY <1>0 DEF Reject, SetStatus, chats
<1>2. o \notin {"absent", "pending"}
  BY DEF Rejections
<1>3. \A x \in Raws \ {c} : StageOf(x)' = StageOf(x)
  BY <1>1 DEF StageOf, Buffered, IInv, TypeOK
<1>4. /\ c \notin consumed' /\ c \notin Buffered'
      /\ ~ \E m \in Markets : pushed'[c][m] > 0
      /\ status'[c] = o
  BY <1>0, <1>1 DEF Announced, Buffered, IInv, TablesInv, TypeOK
<1>5. CASE c \in proc
  <2>1. StageOf(c) = "accepted"
    BY <1>0, <1>5, StageOfUnannounced
  <2>2. StageOf(c)' = "accepted"
    BY <1>1, <1>4, <1>5 DEF StageOf
  <2>. QED
    BY <1>3, <2>1, <2>2 DEF Stage
<1>6. CASE c \notin proc
  <2>1. StageOf(c) = "pending"
    BY <1>0, <1>6, StageOfUnannounced
  <2>2. StageOf(c)' = "rejected"
    BY <1>1, <1>2, <1>4, <1>6 DEF StageOf
  <2>. QED
    BY <1>3, <2>1, <2>2, OneMove DEF Moves
<1>. QED
  BY <1>5, <1>6

LEMMA InsertRefines ==
  ASSUME IInv, Insert
  PROVE  Lifecycle!Next
<1>0. PICK c \in Raws : c = Cur /\ status[c] = "pending" /\ ~Announced(c)
  BY CurFacts DEF Insert, IInv, TablesInv
<1>1. c \notin proc /\ proc' = proc \cup {c}
      /\ UNCHANGED <<status, digestOf, consumed, pushed>>
  BY <1>0 DEF Insert, chats
<1>2. StageOf(c) = "pending"
  BY <1>0, <1>1, StageOfUnannounced
<1>3. StageOf(c)' = "accepted"
  BY <1>0, <1>1 DEF StageOf, Announced, Buffered, IInv, TablesInv
<1>4. \A x \in Raws \ {c} : StageOf(x)' = StageOf(x)
  BY <1>1 DEF StageOf, Buffered
<1>. QED
  BY <1>2, <1>3, <1>4, OneMove DEF Moves

\* The status of a row that has its news_processed row does not show.
LEMMA MarkRefines ==
  ASSUME IInv, NEW target \in SUBSET Markets, Mark(target)
  PROVE  UNCHANGED Stage
<1>0. PICK c \in Raws : c = Cur /\ c \in proc
  BY CurFacts DEF Mark, IInv, JobInv
<1>1. /\ status' = [status EXCEPT ![c] = "processed"]
      /\ UNCHANGED <<proc, digestOf, consumed, pushed>>
  BY <1>0 DEF Mark, SetStatus, chats
<1>2. \A x \in Raws : StageOf(x)' = StageOf(x)
  BY <1>0, <1>1 DEF StageOf, Buffered, IInv, TypeOK
<1>. QED
  BY <1>2 DEF Stage

LEMMA DispatchRefines ==
  ASSUME IInv, NEW m \in Markets, NEW ok \in SUBSET Channels[m], Dispatch(m, ok)
  PROVE  Lifecycle!Next \/ UNCHANGED Stage
<1>0. PICK c \in Raws : c = Cur /\ c \in proc /\ c \notin Buffered /\ c \notin consumed
  BY CurFacts DEF Dispatch, IInv, JobInv, TablesInv
<1>1. /\ pushed' = [pushed EXCEPT ![c][m] = @ + 1]
      /\ UNCHANGED <<status, proc, digestOf, consumed>>
  BY <1>0 DEF Dispatch, tables
<1>2. pushed'[c][m] > 0 /\ \A x \in Raws \ {c} : pushed'[x] = pushed[x]
  BY <1>1 DEF IInv, TypeOK
<1>3. StageOf(c)' = "pushed"
  BY <1>0, <1>1, <1>2 DEF StageOf, Buffered
<1>4. StageOf(c) \in {"accepted", "pushed"}
  BY <1>0 DEF StageOf
<1>5. \A x \in Raws \ {c} : StageOf(x)' = StageOf(x)
  BY <1>1, <1>2 DEF StageOf, Buffered
<1>6. CASE StageOf(c) = "accepted"
  BY <1>3, <1>5, <1>6, OneMove DEF Moves
<1>7. CASE StageOf(c) = "pushed"
  BY <1>3, <1>5, <1>7 DEF Stage
<1>. QED
  BY <1>4, <1>6, <1>7

LEMMA EnqueueRefines ==
  ASSUME IInv, NEW p \in Periods, Enqueue(p)
  PROVE  Lifecycle!Next
<1>0. PICK c \in Raws : /\ c = Cur /\ c \in proc /\ c \notin Buffered /\ c \notin consumed
                        /\ \A m \in Markets : pushed[c][m] = 0
  BY CurFacts DEF Enqueue, Waits, IInv, JobInv, TablesInv
<1>1. <<p, MarketOf[c]>> # None
  BY DEF None
<1>2. /\ digestOf' = [digestOf EXCEPT ![c] = <<p, MarketOf[c]>>]
      /\ UNCHANGED <<status, proc, consumed, pushed>>
  BY <1>0 DEF Enqueue, chats
<1>3. Buffered' = Buffered \cup {c}
  BY <1>1, <1>2 DEF Buffered, IInv, TypeOK
<1>4. StageOf(c) = "accepted"
  BY <1>0 DEF StageOf
<1>5. StageOf(c)' = "queued"
  BY <1>0, <1>2, <1>3 DEF StageOf
<1>6. \A x \in Raws \ {c} : StageOf(x)' = StageOf(x)
  BY <1>2, <1>3 DEF StageOf
<1>. QED
  BY <1>4, <1>5, <1>6, OneMove DEF Moves

\* mark_consumed retires exactly the rows not retired before.
LEMMA DigestConsumeRefines ==
  ASSUME IInv, NEW k \in Keys, DigestConsume(k)
  PROVE  Lifecycle!Next
<1>. DEFINE S == dig[k].ids \ consumed
<1>1. /\ consumed' = consumed \cup S
      /\ UNCHANGED <<status, proc, digestOf, pushed>>
  BY DEF DigestConsume, ConsumedIds, chats
<1>2. S \subseteq Buffered /\ S \in SUBSET Raws
  BY DEF IInv, DigestInv, Buffered
<1>. HIDE DEF S
<1>3. PICK R \in SUBSET Raws : R = S
  BY <1>2
<1>4. \A r \in R : r \in Buffered /\ r \notin consumed
  BY <1>2, <1>3 DEF S
<1>5. \A r \in R : StageOf(r) = "queued" /\ StageOf(r)' = "digested"
  BY <1>1, <1>3, <1>4 DEF StageOf
<1>6. \A r \in Raws \ R : StageOf(r)' = StageOf(r)
  BY <1>1, <1>3 DEF StageOf, Buffered
<1>7. \A r \in R : Stage[r] = "queued"
  BY <1>5 DEF Stage
<1>8. Stage' = [r \in Raws |-> IF r \in R THEN "digested" ELSE Stage[r]]
  BY <1>5, <1>6 DEF Stage
<1>9. Lifecycle!Flush(R)
  BY <1>7, <1>8 DEF Lifecycle!Flush, Stage
<1>. QED
  BY <1>9 DEF Lifecycle!Next

LEMMA RefinementStep ==
  ASSUME IInv, [Next]_vars
  PROVE  Lifecycle!Next \/ UNCHANGED Stage
<1>1. CASE \E r \in Raws : Ingest(r)
  BY <1>1, IngestRefines
<1>2. CASE \E o \in Rejections : Reject(o)
  BY <1>2, RejectRefines
<1>3. CASE Insert
  BY <1>3, InsertRefines
<1>4. CASE pc = "mark" /\ \E target \in Targets(Cur) : Mark(target)
  <2>1. Cur \in Raws
    BY <1>4, CurFacts
  <2>2. Targets(Cur) \subseteq SUBSET Markets
    BY <2>1, ConstantsOK DEF Targets
  <2>. QED
    BY <1>4, <2>2, MarkRefines
<1>5. CASE \E m \in Markets : \E ok \in SUBSET Channels[m] : Dispatch(m, ok)
  BY <1>5, DispatchRefines
<1>6. CASE \E p \in Periods : Enqueue(p)
  BY <1>6, EnqueueRefines
<1>7. CASE \E k \in Keys : DigestConsume(k)
  BY <1>7, DigestConsumeRefines
<1>8. CASE UNCHANGED <<status, proc, digestOf, consumed, pushed>>
  BY <1>8, SameStage
<1>. QED
  BY <1>1, <1>2, <1>3, <1>4, <1>5, <1>6, <1>7, <1>8
  DEF Next, JobStep, EmptyTick, ListPending, Score, InsertCollides, Suppress,
      WriteLog, JobRaises, EmptyDigest, DigestStep, DigestList, DigestDispatch,
      DigestRaises, Crash, vars, tables, job, chats

\* The pipeline implements the life of an article that NewsLifecycle states,
\* for any number of articles, exceptions and crashes.
THEOREM Refinement == Spec => ImplementsLifecycle
<1>1. Init => Lifecycle!Init
  BY RefinementInit
<1>2. IInv /\ [Next]_vars => [Lifecycle!Next]_Stage
  BY RefinementStep
<1>. QED
  BY <1>1, <1>2, Invariance, PTL DEF Spec, ImplementsLifecycle, Lifecycle!Spec, Stage

-----------------------------------------------------------------------------
(* push_log *)

\* A channel of a market that got r at once.
Sent(r, c) == \E m \in Markets : c \in Channels[m] /\ pushed[r][m] > 0

Logged(r, c) == \E ok \in BOOLEAN : <<r, c, ok>> \in pushLog
ToLog(r, c) == pc = "log" /\ r = Cur /\ \E ok \in BOOLEAN : <<c, ok>> \in answers

\* Every row of push_log, and every row still to be written, stands for a
\* message; without interruptions every message has its rows, or gets them
\* before the job goes on.
LogInv ==
  /\ pc # "log" => answers = {}
  /\ \A row \in pushLog : Sent(row[1], row[2])
  /\ \A a \in answers : Sent(Cur, a[1])
  /\ faults + crashes = 0 =>
       \A r \in Raws, m \in Markets : pushed[r][m] > 0 =>
         \A c \in Channels[m] : Logged(r, c) \/ ToLog(r, c)

\* A step of the job that sends and logs nothing.
LEMMA SilentLog ==
  ASSUME LogInv, pc # "log", answers' = {}, pc' # "log", UNCHANGED <<pushLog, pushed>>,
         faults' + crashes' = 0 => faults + crashes = 0
  PROVE  LogInv'
BY DEF LogInv, Sent, Logged, ToLog

\* A step of another job.
LEMMA FrameLog ==
  ASSUME LogInv, UNCHANGED <<pushLog, pushed, pc, todo, answers>>,
         faults' + crashes' = 0 => faults + crashes = 0
  PROVE  LogInv'
BY DEF LogInv, Sent, Logged, ToLog, Cur

\* An interruption, after which push_log may lack rows.
LEMMA InterruptedLog ==
  ASSUME LogInv, answers' = {}, UNCHANGED <<pushLog, pushed>>,
         faults' + crashes' # 0
  PROVE  LogInv'
BY DEF LogInv, Sent

LEMMA DispatchLog ==
  ASSUME IInv, LogInv, NEW m \in Markets, NEW ok \in SUBSET Channels[m], Dispatch(m, ok)
  PROVE  LogInv'
<1>1. /\ pushed' = [pushed EXCEPT ![Cur][m] = @ + 1] /\ pc' = "log" /\ pc = "route"
      /\ answers' = (ok \X {TRUE}) \cup ((Channels[m] \ ok) \X {FALSE})
      /\ UNCHANGED <<todo, pushLog, faults, crashes>>
  BY DEF Dispatch, tables
<1>2. /\ Cur \in Raws /\ Cur' = Cur /\ pushed \in [Raws -> [Markets -> Nat]]
      /\ answers = {}
  BY <1>1, CurFacts DEF IInv, TypeOK, Cur, LogInv
<1>3. \A r \in Raws, n \in Markets :
        pushed'[r][n] = IF r = Cur /\ n = m THEN pushed[r][n] + 1 ELSE pushed[r][n]
  BY <1>1, <1>2
<1>4. \A r \in Raws : \A c : Sent(r, c) => Sent(r, c)'
  BY <1>2, <1>3 DEF Sent
<1>5. \A row \in pushLog : row[1] \in Raws
  BY DEF IInv, TypeOK
<1>6. \A row \in pushLog' : Sent(row[1], row[2])'
  BY <1>1, <1>4, <1>5 DEF LogInv
<1>7. \A a \in answers' : Sent(Cur, a[1])'
  <2> SUFFICES ASSUME NEW a \in answers'
               PROVE  a[1] \in Channels[m] /\ pushed'[Cur][m] > 0
    BY <1>2 DEF Sent
  <2>1. a[1] \in Channels[m]
    BY <1>1
  <2> QED
    BY <1>2, <1>3, <2>1
<1>8. ASSUME faults' + crashes' = 0, NEW r \in Raws, NEW n \in Markets,
             pushed'[r][n] > 0, NEW c \in Channels[n]
      PROVE  Logged(r, c)' \/ ToLog(r, c)'
  <2>1. CASE r = Cur /\ n = m
    <3>1. <<c, TRUE>> \in answers' \/ <<c, FALSE>> \in answers'
      BY <1>1, <1>8, <2>1
    <3> QED
      BY <1>1, <1>2, <2>1, <3>1 DEF ToLog
  <2>2. CASE ~(r = Cur /\ n = m)
    <3>1. pushed[r][n] > 0 /\ faults + crashes = 0
      BY <1>1, <1>3, <1>8, <2>2
    <3>2. Logged(r, c)
      BY <1>1, <1>8, <3>1 DEF LogInv, ToLog
    <3> QED
      BY <1>1, <3>2 DEF Logged
  <2> QED
    BY <2>1, <2>2
<1> QED
  BY <1>1, <1>6, <1>7, <1>8 DEF LogInv

\* A row per answer: an answer that is no longer to be written has its row.
LEMMA WriteLogLog ==
  ASSUME IInv, LogInv, NEW a \in answers, WriteLog(a)
  PROVE  LogInv'
<1>1. /\ pc = "log" /\ pushLog' = pushLog \cup {<<Cur, a[1], a[2]>>}
      /\ UNCHANGED <<pushed, faults, crashes>>
      /\ Cur \in Raws /\ a[1] \in AllChannels /\ a[2] \in BOOLEAN /\ a = <<a[1], a[2]>>
  BY CurFacts DEF WriteLog, LogRow, chats, IInv, TypeOK
<1>2. \/ pc' = "log" /\ answers' = answers \ {a} /\ todo' = todo
      \/ pc' # "log" /\ answers' = {} /\ answers = {a}
  BY <1>1 DEF WriteLog, NextRow, JobEnds
<1>3. \A row \in pushLog' : Sent(row[1], row[2])'
  BY <1>1 DEF LogInv, Sent
<1>4. \A b \in answers' : Sent(Cur, b[1])'
  BY <1>1, <1>2 DEF LogInv, Sent, Cur
<1>5. ASSUME faults' + crashes' = 0, NEW r \in Raws, NEW m \in Markets,
             pushed'[r][m] > 0, NEW c \in Channels[m]
      PROVE  Logged(r, c)' \/ ToLog(r, c)'
  <2>1. Logged(r, c) \/ ToLog(r, c)
    BY <1>1, <1>5 DEF LogInv
  <2>2. CASE Logged(r, c)
    BY <1>1, <2>2 DEF Logged
  <2>3. ASSUME r = Cur, NEW ok \in BOOLEAN, <<c, ok>> \in answers
        PROVE  Logged(r, c)' \/ ToLog(r, c)'
    <3>1. CASE <<c, ok>> = a
      <4>1. <<r, c, ok>> \in pushLog'
        BY <1>1, <2>3, <3>1
      <4> QED
        BY <4>1 DEF Logged
    <3>2. CASE <<c, ok>> # a
      <4>1. pc' = "log" /\ <<c, ok>> \in answers' /\ Cur' = Cur
        BY <1>2, <2>3, <3>2 DEF Cur
      <4> QED
        BY <2>3, <4>1 DEF ToLog
    <3> QED
      BY <3>1, <3>2
  <2> QED
    BY <2>1, <2>2, <2>3 DEF ToLog
<1> QED
  BY <1>2, <1>3, <1>4, <1>5 DEF LogInv

LEMMA LogStep == IInv /\ LogInv /\ [Next]_vars => LogInv'
<1>. SUFFICES ASSUME IInv, LogInv, [Next]_vars PROVE LogInv'
  OBVIOUS
<1>. USE DEF tables, job, chats
<1>0. faults \in Nat /\ crashes \in Nat /\ (pc # "log" => answers = {})
  BY DEF IInv, TypeOK, LogInv
<1>1. CASE \E r \in Raws : Ingest(r)
  BY <1>1, FrameLog DEF Ingest
<1>2. CASE \E k \in Keys : DigestStep(k) \/ DigestRaises(k)
  BY <1>0, <1>2, FrameLog
  DEF DigestStep, DigestList, DigestDispatch, DigestConsume, DigestRaises
<1>3. CASE JobRaises \/ Crash
  BY <1>0, <1>3, InterruptedLog DEF JobRaises, Crash, JobEnds
<1>4. CASE EmptyTick \/ (\E k \in Keys : EmptyDigest(k)) \/ UNCHANGED vars
  BY <1>4, FrameLog DEF EmptyTick, EmptyDigest, vars
<1>5. CASE ListPending \/ Insert \/ InsertCollides \/ \E crit \in BOOLEAN : Score(crit)
  BY <1>0, <1>5, SilentLog DEF ListPending, Insert, InsertCollides, Score, JobEnds
<1>6. CASE \E o \in Rejections : Reject(o)
  BY <1>0, <1>6, SilentLog DEF Reject, NextRow, JobEnds
<1>7. CASE pc = "mark" /\ \E target \in Targets(Cur) : Mark(target)
  BY <1>0, <1>7, SilentLog DEF Mark, NextRow, JobEnds
<1>8. CASE \E m \in Markets : Suppress(m)
  BY <1>0, <1>8, SilentLog DEF Suppress, NextPlan, NextRow, JobEnds
<1>9. CASE \E p \in Periods : Enqueue(p)
  BY <1>0, <1>9, SilentLog DEF Enqueue, NextRow, JobEnds
<1>10. CASE \E m \in Markets : \E ok \in SUBSET Channels[m] : Dispatch(m, ok)
  BY <1>10, DispatchLog
<1>11. CASE \E a \in answers : WriteLog(a)
  BY <1>11, WriteLogLog
<1>. QED
  BY <1>1, <1>2, <1>3, <1>4, <1>5, <1>6, <1>7, <1>8, <1>9, <1>10, <1>11
  DEF Next, JobStep

\* push_log tells nothing that was not sent, and without interruptions it has
\* a row for every channel of every message at once when the job is at rest
\* (process_pending's loop over the results).
THEOREM LogMatchesPushesHolds == Spec => []LogMatchesPushes
<1>1. Init => LogInv
  BY DEF Init, LogInv
<1>2. IInv /\ LogInv => LogMatchesPushes
  BY DEF LogInv, Sent, Logged, ToLog, LogMatchesPushes
<1>. QED
  BY <1>1, <1>2, Invariance, LogStep, PTL DEF Spec
=============================================================================
