-------------------------- MODULE NewsDigestProofs --------------------------
(***************************************************************************)
(* Proofs about what the digests lose and repeat, and about what an        *)
(* interrupted run leaves behind: the properties of NewsPipeline that      *)
(* count.                                                                  *)
(***************************************************************************)
EXTENDS NewsPipelineProofs

\* A larger set of rows is at least as large.
LEMMA MoreRows ==
  ASSUME NEW S \in SUBSET Raws, NEW T \in SUBSET Raws, S \subseteq T
  PROVE  /\ Cardinality(S) \in Nat /\ Cardinality(T) \in Nat
         /\ Cardinality(S) <= Cardinality(T)
BY RawsFinite, FS_Subset, FS_CardinalityType

\* The steps that touch no digest row and no digest.
LEMMA DigestRowsFrame ==
  ASSUME DigestRowsInv,
         UNCHANGED <<digestOf, addedAt, consumed, dig, digested, faults, crashes>>
  PROVE  DigestRowsInv'
<1>1. \A r \in Raws : Ahead(r)' = Ahead(r)
  BY DEF Ahead
<1>. QED
  BY <1>1 DEF DigestRowsInv, Held, UnsentIsExplained,
              DigestRepeatsNeedInterruption, Ahead, Buffered

LEMMA DigestRowsInit == Init => DigestRowsInv
<1>. SUFFICES ASSUME Init PROVE DigestRowsInv
  OBVIOUS
<1>1. \A k \in Keys : dig[k].pc = "idle" /\ dig[k].ids = {} /\ dig[k].items = {}
  BY DEF Init, Asleep
<1>. QED
  BY <1>1 DEF Init, DigestRowsInv, Held, UnsentIsExplained,
              DigestRepeatsNeedInterruption, Buffered

\* A new row goes behind the others: nobody's place in the digest gets better.
LEMMA EnqueueRows ==
  ASSUME IInv, DigestRowsInv, NEW p \in Periods, Enqueue(p)
  PROVE  DigestRowsInv'
<1>. USE DEF chats
<1>0. PICK c \in Raws : c = Cur /\ c \notin Buffered
  BY CurFacts DEF Enqueue, IInv, JobInv
<1>1. /\ digestOf' = [digestOf EXCEPT ![c] = <<p, MarketOf[c]>>]
      /\ \A x \in Raws \ {c} : digestOf'[x] = digestOf[x] /\ addedAt'[x] = addedAt[x]
      /\ UNCHANGED <<consumed, dig, digested, faults, crashes>>
  BY <1>0 DEF Enqueue, IInv, TypeOK
<1>2. ASSUME NEW r \in Buffered
      PROVE  /\ r \in Raws /\ digestOf'[r] = digestOf[r]
             /\ Cardinality(Ahead(r)) >= DigestCap
                  => Cardinality(Ahead(r)') >= DigestCap
  <2>1. r \in Raws /\ r # c
    BY <1>0, <1>2 DEF Buffered
  <2>2. Ahead(r) \subseteq Ahead(r)'
    BY <1>0, <1>1, <1>2, <2>1 DEF Ahead, Buffered
  <2>3. Cardinality(Ahead(r)) <= Cardinality(Ahead(r)')
        /\ Cardinality(Ahead(r)) \in Nat /\ Cardinality(Ahead(r)') \in Nat
    <3>1. Ahead(r) \in SUBSET Raws /\ Ahead(r)' \in SUBSET Raws
      BY DEF Ahead
    <3>. QED
      BY <2>2, <3>1, MoreRows
  <2>4. Cardinality(Ahead(r)) >= DigestCap => Cardinality(Ahead(r)') >= DigestCap
    <3>1. DigestCap \in Nat
      BY ConstantsOK
    <3>. QED
      BY <2>3, <3>1
  <2>. QED
    BY <1>1, <2>1, <2>4
<1>3. consumed \subseteq Buffered /\ \A k \in Keys : dig[k].ids \subseteq Buffered
  BY DEF IInv, TablesInv, DigestInv
<1>4. \A k \in Keys : Held(k)'
  BY <1>1, <1>2, <1>3 DEF DigestRowsInv, Held
<1>5. UnsentIsExplained'
  BY <1>1, <1>2, <1>3 DEF DigestRowsInv, UnsentIsExplained
<1>6. \A r \in Buffered' : digestOf'[r][2] = MarketOf[r]
  BY <1>0, <1>1 DEF DigestRowsInv, Buffered, IInv, TypeOK
<1>. QED
  BY <1>1, <1>4, <1>5, <1>6 DEF DigestRowsInv, DigestRepeatsNeedInterruption

\* What a digest lists was not shown since the last interruption, and what it
\* will not show is over the cap.
LEMMA DigestListRows ==
  ASSUME IInv, DigestRowsInv, NEW k \in Keys, DigestList(k)
  PROVE  DigestRowsInv'
<1>. USE DEF tables, chats
<1>. DEFINE rows == Rows(k)
            shown == Earliest(DigestCap, rows) \cap proc
            d == [pc |-> IF shown = {} THEN "consume" ELSE "dispatch",
                  ids |-> rows, items |-> shown]
<1>1. /\ dig[k].pc = "idle" /\ dig' = [dig EXCEPT ![k] = d]
      /\ UNCHANGED <<digestOf, addedAt, consumed, digested, faults, crashes>>
  BY DEF DigestList
<1>2. \A r \in rows : r \in Raws /\ digestOf[r] = k /\ r \notin consumed /\ r \in proc
  BY DEF Rows, IInv, TablesInv, Announced, Buffered, Keys, None
<1>3. ASSUME NEW r \in rows \ shown PROVE Cardinality(Ahead(r)) >= DigestCap
  <2>. DEFINE before == {x \in rows : addedAt[x] < addedAt[r]}
  <2>1. ~(Cardinality(before) < DigestCap)
    BY <1>2 DEF Earliest
  <2>2. before \subseteq Ahead(r) /\ Ahead(r) \in SUBSET Raws /\ before \in SUBSET Raws
    BY <1>2 DEF Ahead
  <2>. HIDE DEF before
  <2>3. /\ Cardinality(before) \in Nat /\ Cardinality(Ahead(r)) \in Nat
        /\ Cardinality(before) <= Cardinality(Ahead(r))
    BY <2>2, MoreRows
  <2>. QED
    BY <2>1, <2>3, ConstantsOK
<1>4. \A r \in rows : digested[r] <= faults + crashes
  <2>1. ASSUME NEW r \in rows PROVE ~(digested[r] > faults + crashes)
    <3>1. ~ \E j \in Keys : dig[j].pc = "consume" /\ r \in dig[j].ids
      BY <1>1, <1>2 DEF DigestRowsInv, Held
    <3>. QED
      BY <1>2, <3>1 DEF DigestRowsInv
  <2>. QED
    BY <1>2, <2>1 DEF IInv, TypeOK
<1>5. shown \subseteq rows
  BY DEF Earliest
<1>. HIDE DEF rows, shown
<1>6. /\ dig'[k] = d /\ \A j \in Keys \ {k} : dig'[j] = dig[j]
  BY <1>1 DEF IInv, TypeOK
<1>7. \A r \in Raws : Ahead(r)' = Ahead(r)
  BY <1>1 DEF Ahead
<1>8. Held(k)'
  <2>1. CASE shown = {}
    BY <1>1, <1>2, <1>3, <1>6, <1>7, <2>1 DEF Held, Ahead
  <2>2. CASE shown # {}
    BY <1>1, <1>2, <1>3, <1>4, <1>5, <1>6, <1>7, <2>2 DEF Held, Ahead
  <2>. QED
    BY <2>1, <2>2
<1>9. \A j \in Keys \ {k} : Held(j)'
  BY <1>1, <1>6 DEF DigestRowsInv, Held, Ahead
<1>10. \A r \in Raws : digested'[r] > (faults + crashes)' =>
         r \in consumed' \/ \E j \in Keys : dig'[j].pc = "consume" /\ r \in dig'[j].ids
  BY <1>1, <1>6 DEF DigestRowsInv
<1>11. UnsentIsExplained' /\ DigestRepeatsNeedInterruption'
  BY <1>1 DEF DigestRowsInv, UnsentIsExplained, DigestRepeatsNeedInterruption, Ahead
<1>. QED
  BY <1>1, <1>8, <1>9, <1>10, <1>11 DEF DigestRowsInv, Buffered

\* A message goes out: its rows were shown at most once per interruption.
LEMMA DigestDispatchRows ==
  ASSUME IInv, DigestRowsInv, NEW k \in Keys,
         NEW ok \in SUBSET Channels[k[2]], DigestDispatch(k, ok)
  PROVE  DigestRowsInv'
<1>. USE DEF tables
<1>. DEFINE d == [pc |-> "consume", ids |-> dig[k].ids, items |-> dig[k].items]
<1>1. /\ dig'[k] = d /\ \A j \in Keys \ {k} : dig'[j] = dig[j]
      /\ dig[k].pc = "dispatch"
  <2>1. dig[k] \in [pc : {"idle", "dispatch", "consume"},
                    ids : SUBSET Raws, items : SUBSET Raws]
    BY DEF IInv, TypeOK
  <2>2. [dig[k] EXCEPT !.pc = "consume"] = d
    BY <2>1
  <2>. QED
    BY <2>2 DEF DigestDispatch, IInv, TypeOK
<1>2. /\ UNCHANGED <<digestOf, addedAt, consumed, faults, crashes>>
      /\ \A r \in Raws :
           digested'[r] = IF r \in dig[k].items /\ Channels[k[2]] # {}
                          THEN digested[r] + 1 ELSE digested[r]
  BY DEF DigestDispatch, CountUp
<1>3. \A r \in Raws : digested[r] \in Nat /\ digested'[r] \in Nat
  BY <1>2 DEF IInv, TypeOK
<1>4. /\ dig[k].items \subseteq dig[k].ids /\ dig[k].ids \subseteq Raws
      /\ \A r \in dig[k].items : digested[r] <= faults + crashes
  BY <1>1 DEF IInv, DigestInv, DigestRowsInv, Held, Buffered
<1>5. \A r \in Raws : Ahead(r)' = Ahead(r)
  BY <1>2 DEF Ahead
<1>6. Held(k)'
  <2>1. ASSUME NEW r \in dig[k].items, Channels[k[2]] # {} PROVE digested'[r] > 0
    BY <1>2, <1>3, <1>4, <2>1
  <2>. QED
    BY <1>1, <1>2, <1>5, <2>1 DEF DigestRowsInv, Held, Ahead
<1>7. ASSUME NEW j \in Keys \ {k} PROVE Held(j)'
  <2>1. dig[j].items \subseteq dig[j].ids /\ dig[j].ids \subseteq Raws /\ Held(j) /\ Held(k)
    BY DEF IInv, DigestInv, DigestRowsInv, Buffered
  <2>2. \A r \in dig[j].items : r \in Raws /\ r \notin dig[k].items
    BY <1>4, <1>7, <2>1 DEF Held
  <2>3. \A r \in dig[j].items : digested'[r] = digested[r]
    BY <1>2, <2>2
  <2>. QED
    BY <1>1, <1>2, <1>5, <1>7, <2>1, <2>3 DEF Held, Ahead
<1>8. ASSUME NEW r \in Raws, digested'[r] > (faults + crashes)'
      PROVE  r \in consumed' \/ \E j \in Keys : dig'[j].pc = "consume" /\ r \in dig'[j].ids
  <2>1. CASE r \in dig[k].items
    BY <1>1, <1>4, <2>1
  <2>2. CASE r \notin dig[k].items
    BY <1>1, <1>2, <1>8, <2>2 DEF DigestRowsInv
  <2>. QED
    BY <2>1, <2>2
<1>9. UnsentIsExplained'
  <2>1. ASSUME NEW r \in consumed, digested'[r] = 0
        PROVE  r \in Raws /\ digested[r] = 0
    BY <1>2, <1>3, <2>1 DEF IInv, TypeOK
  <2>. QED
    BY <1>2, <1>5, <2>1 DEF DigestRowsInv, UnsentIsExplained
<1>10. DigestRepeatsNeedInterruption'
  <2>1. \A r \in Raws : digested[r] <= 1 + faults + crashes
    BY DEF DigestRowsInv, DigestRepeatsNeedInterruption
  <2>2. faults \in Nat /\ crashes \in Nat
    BY DEF IInv, TypeOK
  <2>. QED
    BY <1>2, <1>3, <1>4, <2>1, <2>2 DEF DigestRepeatsNeedInterruption
<1>. QED
  BY <1>2, <1>6, <1>7, <1>8, <1>9, <1>10 DEF DigestRowsInv, Buffered

\* What is retired was shown, is over the cap, or has nobody to be shown to.
LEMMA DigestConsumeRows ==
  ASSUME IInv, DigestRowsInv, NEW k \in Keys, DigestConsume(k)
  PROVE  DigestRowsInv'
<1>. USE DEF chats
<1>1. /\ dig'[k] = Asleep /\ \A j \in Keys \ {k} : dig'[j] = dig[j]
      /\ dig[k].pc = "consume" /\ consumed' = consumed \cup dig[k].ids
      /\ UNCHANGED <<digestOf, addedAt, digested, faults, crashes>>
  BY DEF DigestConsume, ConsumedIds, IInv, TypeOK
<1>2. \A j \in Keys : Held(j)'
  <2>1. \A r \in Raws : Ahead(r)' = Ahead(r)
    BY <1>1 DEF Ahead
  <2>2. Held(k)'
    BY <1>1 DEF Held, Asleep
  <2>3. ASSUME NEW j \in Keys \ {k} PROVE Held(j)'
    <3>1. Held(j) /\ dig[j].ids \subseteq Raws
      BY DEF IInv, DigestInv, DigestRowsInv, Buffered
    <3>. QED
      BY <1>1, <2>1, <2>3, <3>1 DEF Held
  <2>. QED
    BY <2>2, <2>3
<1>3. \A r \in Raws : digested'[r] > (faults + crashes)' =>
        r \in consumed' \/ \E j \in Keys : dig'[j].pc = "consume" /\ r \in dig'[j].ids
  BY <1>1 DEF DigestRowsInv
<1>4. \A r \in dig[k].ids : digested[r] = 0 =>
        Cardinality(Ahead(r)) >= DigestCap \/ Channels[MarketOf[r]] = {}
  <2>1. \A r \in dig[k].ids : r \in Buffered /\ digestOf[r] = k
    BY DEF IInv, DigestInv, DigestRowsInv, Held
  <2>2. \A r \in dig[k].ids : k[2] = MarketOf[r]
    BY <2>1 DEF DigestRowsInv
  <2>. QED
    BY <1>1, <2>2 DEF DigestRowsInv, Held
<1>5. UnsentIsExplained'
  BY <1>1, <1>4 DEF DigestRowsInv, UnsentIsExplained, Ahead
<1>6. DigestRepeatsNeedInterruption'
  BY <1>1 DEF DigestRowsInv, DigestRepeatsNeedInterruption
<1>. QED
  BY <1>1, <1>2, <1>3, <1>5, <1>6 DEF DigestRowsInv, Buffered

\* An interruption makes every digest forget what it did: each row may be
\* shown once more.
LEMMA InterruptionRows ==
  ASSUME IInv, DigestRowsInv, UNCHANGED <<digestOf, addedAt, consumed, digested>>,
         (faults + crashes)' = faults + crashes + 1, IInv',
         \A k \in Keys : dig'[k] \in {dig[k], Asleep}
  PROVE  DigestRowsInv'
<1>1. faults \in Nat /\ crashes \in Nat /\ \A r \in Raws : digested[r] \in Nat
  BY DEF IInv, TypeOK
<1>2. \A r \in Raws : digested[r] <= 1 + faults + crashes
  BY DEF DigestRowsInv, DigestRepeatsNeedInterruption
<1>3. \A r \in Raws : ~(digested'[r] > (faults + crashes)')
  BY <1>1, <1>2
<1>4. \A r \in Raws : digested'[r] <= (faults + crashes)'
                      /\ digested'[r] <= 1 + (faults + crashes)'
  BY <1>1, <1>2
<1>5. UnsentIsExplained'
  BY DEF DigestRowsInv, UnsentIsExplained, Ahead
<1>6. DigestRepeatsNeedInterruption'
  <2>1. faults' \in Nat /\ crashes' \in Nat
    BY DEF IInv, TypeOK
  <2>2. 1 + faults' + crashes' = 1 + (faults' + crashes')
    BY <2>1
  <2>. QED
    BY <1>4, <2>2 DEF DigestRepeatsNeedInterruption
<1>7. ASSUME NEW k \in Keys PROVE Held(k)'
  <2>1. dig[k].items \subseteq Raws /\ Held(k)
    BY DEF IInv, TypeOK, DigestRowsInv
  <2>2. CASE dig'[k] = Asleep
    BY <2>2 DEF Held, Asleep
  <2>3. CASE dig'[k] = dig[k]
    BY <1>4, <2>1, <2>3 DEF Held, Ahead
  <2>. QED
    BY <2>2, <2>3
<1>. QED
  BY <1>3, <1>5, <1>6, <1>7 DEF DigestRowsInv, Buffered

LEMMA DigestRowsStep == IInv /\ DigestRowsInv /\ [Next]_vars => DigestRowsInv'
<1>. SUFFICES ASSUME IInv, DigestRowsInv, [Next]_vars, IInv' PROVE DigestRowsInv'
  BY NextIInv
<1>. USE DEF tables, job, chats
<1>0. faults \in Nat /\ crashes \in Nat
  BY DEF IInv, TypeOK
<1>1. CASE \E p \in Periods : Enqueue(p)
  BY <1>1, EnqueueRows
<1>2. CASE \E k \in Keys : DigestStep(k)
  BY <1>2, DigestListRows, DigestDispatchRows, DigestConsumeRows DEF DigestStep
<1>3. CASE JobRaises
  <2>1. (faults + crashes)' = faults + crashes + 1
    BY <1>0, <1>3 DEF JobRaises
  <2>. QED
    BY <1>3, <2>1, InterruptionRows DEF JobRaises
<1>4. CASE \E k \in Keys : DigestRaises(k)
  <2>1. (faults + crashes)' = faults + crashes + 1
    BY <1>0, <1>4 DEF DigestRaises
  <2>2. \A k \in Keys : dig'[k] \in {dig[k], Asleep}
    BY <1>4 DEF DigestRaises, IInv, TypeOK
  <2>. QED
    BY <1>4, <2>1, <2>2, InterruptionRows DEF DigestRaises
<1>5. CASE Crash
  <2>1. (faults + crashes)' = faults + crashes + 1
    BY <1>0, <1>5 DEF Crash
  <2>. QED
    BY <1>5, <2>1, InterruptionRows DEF Crash
<1>6. CASE UNCHANGED <<digestOf, addedAt, consumed, dig, digested, faults, crashes>>
  BY <1>6, DigestRowsFrame
<1>. QED
  BY <1>1, <1>2, <1>3, <1>4, <1>5, <1>6
  DEF Next, JobStep, Ingest, EmptyTick, ListPending, Reject, Score, Insert,
      InsertCollides, Mark, Suppress, Dispatch, WriteLog, EmptyDigest, vars

\* The digests' invariant holds in every reachable state.
THEOREM DigestRowsInvariance == Spec => []DigestRowsInv
BY DigestRowsInit, DigestRowsStep, Invariance, PTL DEF Spec

\* A row is listed in a second digest only after an exception or a restart,
\* in one more for each.
THEOREM DigestRepeatsHolds == Spec => []DigestRepeatsNeedInterruption
<1>1. DigestRowsInv => DigestRepeatsNeedInterruption
  BY DEF DigestRowsInv
<1>. QED
  BY <1>1, DigestRowsInvariance, PTL

\* A row is retired unseen only if as many rows as one message shows were
\* there before it, if its market has no channel at all, or if its message was
\* refused everywhere: what arrives while a digest is being sent is never lost.
THEOREM OnlyOverflowHolds == Spec => []OnlyOverflowIsLost
<1>1. IInv /\ DigestRowsInv => OnlyOverflowIsLost
  <2>. SUFFICES ASSUME IInv, DigestRowsInv, NEW r \in consumed, ~Seen(r), ~(refused[r] > 0)
                PROVE  \/ Cardinality(Ahead(r)) >= DigestCap
                       \/ Channels[MarketOf[r]] = {}
    BY DEF OnlyOverflowIsLost
  <2>1. digested[r] \in Nat /\ refused[r] \in Nat
    BY DEF IInv, TypeOK
  <2>2. digested[r] = 0
    BY <2>1 DEF Seen
  <2>. QED
    BY <2>2 DEF DigestRowsInv, UnsentIsExplained
<1>. QED
  BY <1>1, Invariance, DigestRowsInvariance, PTL

-----------------------------------------------------------------------------
(* What interrupted runs leave behind *)

\* No step but an interruption makes an orphan, and an interruption makes one.
LEMMA OrphansStep ==
  ASSUME IInv, IInv', [Next]_vars
  PROVE  \/ Orphans' \subseteq Orphans /\ faults' + crashes' = faults + crashes
         \/ /\ \E c \in Raws : Orphans' \subseteq Orphans \cup {c}
            /\ faults' + crashes' = faults + crashes + 1
         \/ Orphans' \subseteq Orphans /\ faults' + crashes' = faults + crashes + 1
<1>. USE DEF tables, job, chats
<1>0. faults \in Nat /\ crashes \in Nat
  BY DEF IInv, TypeOK
<1>1. ASSUME pc # "mark", UNCHANGED <<status, proc>>
      PROVE  Orphans' \subseteq Orphans
  BY <1>1 DEF Orphans
<1>2. ASSUME UNCHANGED <<status, proc, pc, todo>>
      PROVE  Orphans' \subseteq Orphans
  BY <1>2 DEF Orphans, Cur
<1>3. ASSUME NEW r \in Raws, Ingest(r)
      PROVE  Orphans' \subseteq Orphans
  BY <1>3 DEF Ingest, Orphans, Cur, IInv, TablesInv, TypeOK
<1>4. ASSUME NEW o \in Rejections, Reject(o)
      PROVE  Orphans' \subseteq Orphans
  <2>1. Cur \in Raws /\ status[Cur] = "pending"
    BY <1>4, CurFacts DEF Reject
  <2>. QED
    BY <1>4, <2>1 DEF Reject, SetStatus, Orphans, IInv, TypeOK
<1>5. CASE Insert
  <2>1. Orphans' \subseteq Orphans
    BY <1>5 DEF Insert, Orphans, Cur
  <2>. QED
    BY <1>5, <2>1 DEF Insert
<1>6. ASSUME NEW target \in SUBSET Markets, Mark(target), pc = "mark"
      PROVE  Orphans' \subseteq Orphans
  <2>1. Cur \in Raws
    BY <1>6, CurFacts
  <2>. QED
    BY <1>6, <2>1 DEF Mark, SetStatus, Orphans, IInv, TypeOK
<1>7. ASSUME UNCHANGED <<status, proc>>, pc = "mark"
      PROVE  \E c \in Raws : Orphans' \subseteq Orphans \cup {c}
  <2>1. PICK c \in Raws : c = Cur
    BY <1>7, CurFacts
  <2>. QED
    BY <1>7, <2>1 DEF Orphans
<1>8. CASE JobRaises
  <2>1. faults' + crashes' = faults + crashes + 1
    BY <1>0, <1>8 DEF JobRaises
  <2>. QED
    BY <1>1, <1>7, <1>8, <2>1 DEF JobRaises
<1>9. CASE Crash
  <2>1. faults' + crashes' = faults + crashes + 1
    BY <1>0, <1>9 DEF Crash
  <2>. QED
    BY <1>1, <1>7, <1>9, <2>1 DEF Crash
<1>10. CASE \E k \in Keys : DigestRaises(k)
  <2>1. faults' + crashes' = faults + crashes + 1
    BY <1>0, <1>10 DEF DigestRaises
  <2>. QED
    BY <1>2, <1>10, <2>1 DEF DigestRaises
<1>11. CASE pc = "mark" /\ \E target \in Targets(Cur) : Mark(target)
  <2>1. Cur \in Raws
    BY <1>11, CurFacts
  <2>2. Targets(Cur) \subseteq SUBSET Markets
    BY <2>1, ConstantsOK DEF Targets
  <2>. QED
    BY <1>6, <1>11, <2>2 DEF Mark
<1>12. CASE UNCHANGED <<status, proc, pc, todo, faults, crashes>>
  BY <1>2, <1>12
<1>13. CASE pc # "mark" /\ UNCHANGED <<status, proc, faults, crashes>>
  BY <1>1, <1>13
<1>14. CASE (\E r \in Raws : Ingest(r)) \/ (\E o \in Rejections : Reject(o))
  BY <1>3, <1>4, <1>14 DEF Ingest, Reject
<1>. QED
  BY <1>5, <1>8, <1>9, <1>11, <1>12, <1>13, <1>14, <1>10
  DEF Next, JobStep, EmptyTick, ListPending, Score, InsertCollides, Suppress,
      Dispatch, WriteLog, Enqueue, EmptyDigest, DigestStep, DigestList,
      DigestDispatch, DigestConsume, vars

\* A news_processed row without a "processed" raw row costs one exception or
\* crash each: no schedule of the jobs makes one.
THEOREM OrphansHolds == Spec => []OrphansNeedInterruption
<1>1. IInv => Orphans \subseteq Raws /\ faults \in Nat /\ crashes \in Nat
  BY DEF IInv, TypeOK, Orphans
<1>2. Init => OrphansNeedInterruption
  <2>. SUFFICES ASSUME Init PROVE OrphansNeedInterruption
    OBVIOUS
  <2>1. Orphans = {}
    BY DEF Init, Orphans
  <2>. QED
    BY <2>1, FS_EmptySet DEF Init, OrphansNeedInterruption
<1>3. IInv /\ IInv' /\ OrphansNeedInterruption /\ [Next]_vars
        => OrphansNeedInterruption'
  <2>. SUFFICES ASSUME IInv, IInv', OrphansNeedInterruption, [Next]_vars
                PROVE  OrphansNeedInterruption'
    OBVIOUS
  <2>1. Orphans \in SUBSET Raws /\ Orphans' \in SUBSET Raws
    BY DEF IInv, TypeOK, Orphans
  <2>2. Cardinality(Orphans) \in Nat /\ Cardinality(Orphans) <= faults + crashes
    BY <2>1, MoreRows DEF OrphansNeedInterruption
  <2>3. CASE Orphans' \subseteq Orphans
    <3>1. Cardinality(Orphans') \in Nat /\ Cardinality(Orphans') <= Cardinality(Orphans)
      BY <2>1, <2>3, MoreRows
    <3>2. faults' + crashes' \in Nat /\ faults + crashes \in Nat
          /\ faults' + crashes' >= faults + crashes
      <4>1. faults \in Nat /\ crashes \in Nat
        BY DEF IInv, TypeOK
      <4>2. faults' + crashes' = faults + crashes
            \/ faults' + crashes' = faults + crashes + 1
        BY OrphansStep
      <4>. QED
        BY <4>1, <4>2
    <3>. QED
      BY <2>2, <3>1, <3>2 DEF OrphansNeedInterruption
  <2>4. ASSUME NEW c \in Raws, Orphans' \subseteq Orphans \cup {c},
               faults' + crashes' = faults + crashes + 1
        PROVE  OrphansNeedInterruption'
    <3>1. IsFiniteSet(Orphans)
      BY <2>1, RawsFinite, FS_Subset
    <3>2. Cardinality(Orphans \cup {c}) <= Cardinality(Orphans) + 1
          /\ Cardinality(Orphans \cup {c}) \in Nat
      <4>1. CASE c \in Orphans
        <5>1. Cardinality(Orphans \cup {c}) = Cardinality(Orphans)
          BY <3>1, <4>1, FS_AddElement
        <5>. QED
          BY <2>2, <5>1
      <4>2. CASE c \notin Orphans
        <5>1. Cardinality(Orphans \cup {c}) = Cardinality(Orphans) + 1
          BY <3>1, <4>2, FS_AddElement
        <5>. QED
          BY <2>2, <5>1
      <4>. QED
        BY <4>1, <4>2
    <3>3. Cardinality(Orphans') \in Nat
          /\ Cardinality(Orphans') <= Cardinality(Orphans \cup {c})
      BY <2>1, <2>4, MoreRows
    <3>4. faults + crashes \in Nat
      BY DEF IInv, TypeOK
    <3>. QED
      BY <2>2, <2>4, <3>2, <3>3, <3>4 DEF OrphansNeedInterruption
  <2>. QED
    BY <2>3, <2>4, OrphansStep
<1>. QED
  BY <1>2, <1>3, Invariance, PTL DEF Spec
=============================================================================
