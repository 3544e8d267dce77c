------------------------- MODULE ScrapeDedupProofs -------------------------
(***************************************************************************)
(* Theorems about ScrapeDedup, for any sources, articles, near titles and  *)
(* numbers of faults.                                                      *)
(***************************************************************************)
EXTENDS ScrapeDedup, WellFoundedInduction, TLAPS

-----------------------------------------------------------------------------
(* The inductive invariant *)

JobType == [pc : JobPCs, since : Int, at : Nat, items : SUBSET Articles,
            todo : SUBSET Articles, art : Articles \cup {NoArticle}]

\* A job that has an answer and has not finished with it.
Handling == {"url", "title", "insert", "metric", "mark"}

\* Nothing in the tables or the feeds is of the future.
PastInv ==
  /\ \A s \in Sources : /\ \A a \in feed[s] : Pub[a] <= clock
                        /\ watermark[s] <= clock
  /\ \A a \in Articles : checkedAt[a] <= clock

\* What a job holds was shown by its source and is no older than the
\* watermark, which nobody else moves meanwhile.
HoldsOK(s) ==
  LET j == job[s]
  IN /\ returned[s] \subseteq feed[s]
     /\ j.items \subseteq feed[s] /\ j.todo \subseteq j.items
     /\ j.pc \in {"title", "insert", "metric"} => j.art \in j.todo
     /\ j.pc = "fetch" /\ watermark[s] # Never => j.since = watermark[s]
     /\ j.pc \in Handling => \A a \in j.items : Pub[a] >= watermark[s]

\* The rest that is owed is in the table, or about to be put there.
RestOK(s) == IF job[s].pc = "pause" THEN banned[s] <= clock + Pause
             ELSE banned[s] <= pausedUntil[s]

\* What the check of a title found holds until the insert, as far as rows of
\* the same source are concerned.
TitleOK(s) ==
  job[s].pc = "insert" /\ job[s].art \notin rows =>
    \A a \in rows : <<job[s].art, a>> \in Near /\ addedBy[a] = {s} =>
      fetchedAt[a] < checkedAt[job[s].art] - Window

\* What a job has done with its answer, and what it knows of earlier answers.
CoverOK(s) ==
  LET j == job[s]
  IN /\ \A a \in returned[s] : ~Incomplete(ScraperOf[s], Item[s][a])
     /\ j.pc = "fetch" /\ watermark[s] = Never => returned[s] = {}
     /\ j.pc \in Handling => \A a \in j.items \ j.todo : Known(a)
     /\ j.pc = "metric" => Known(j.art)
     /\ j.pc = "mark" => j.todo = {}
     /\ s \in Dependable /\ j.pc \in Handling =>
          \A a \in returned[s] : a \in j.items \/ Pub[a] < watermark[s]

SourceOK(s) == HoldsOK(s) /\ RestOK(s) /\ TitleOK(s) /\ CoverOK(s)

IInv == /\ TypeOK /\ PastInv
        /\ \A s \in Sources : SourceOK(s)
        /\ NearDuplicatesNeedTwoSources /\ WatermarkCovers

-----------------------------------------------------------------------------
(* Lemmas about the operators *)

\* A nonempty set of bounded numbers has a greatest element.
LEMMA MaxOfBounded ==
  ASSUME NEW S \in SUBSET Nat, S # {}, NEW b \in Nat, \A x \in S : x <= b
  PROVE  Max(S) \in S /\ \A x \in S : x <= Max(S)
<1> DEFINE Gaps == {n \in Nat : \E x \in S : n = b - x}
           Less == OpToRel(<, Nat)
<1>1. Gaps \subseteq Nat /\ Gaps # {}
  <2>1. PICK x \in S : TRUE
    OBVIOUS
  <2>2. b - x \in Nat
    BY <2>1
  <2> QED
    BY <2>1, <2>2
<1>2. IsWellFoundedOn(Less, Nat)
  BY NatLessThanWellFounded
<1>3. \A x, y \in Nat : x < y => <<x, y>> \in Less
  BY DEF OpToRel
<1> HIDE DEF Less
<1>4. PICK g \in Gaps : \A y \in Gaps : ~(<<y, g>> \in Less)
  <2> HIDE DEF Gaps
  <2> QED
    BY <1>1, <1>2, WFMin
<1>5. PICK m \in S : g = b - m
  OBVIOUS
<1>6. ASSUME NEW x \in S PROVE m >= x
  <2>1. b - x \in Gaps /\ b - x \in Nat /\ g \in Nat
    OBVIOUS
  <2>2. ~(b - x < g)
    BY <1>3, <1>4, <2>1
  <2> QED
    BY <1>5, <2>2
<1> QED
  BY <1>6 DEF Max

\* The watermark of an answer is no later than now and no earlier than any
\* article of the answer.
LEMMA WatermarkOfFacts ==
  ASSUME ScrapeConstantsOK, clock \in Nat, NEW items \in SUBSET Articles,
         \A a \in items : Pub[a] <= clock
  PROVE  /\ WatermarkOf(items) \in Nat /\ WatermarkOf(items) <= clock
         /\ \A a \in items : Pub[a] <= WatermarkOf(items)
<1>1. CASE items = {}
  BY <1>1 DEF WatermarkOf
<1>2. CASE items # {}
  <2> DEFINE pubs == {Pub[a] : a \in items}
  <2>1. pubs \in SUBSET Nat /\ pubs # {} /\ \A x \in pubs : x <= clock
    BY <1>2 DEF ScrapeConstantsOK
  <2>2. Max(pubs) \in pubs /\ \A x \in pubs : x <= Max(pubs)
    <3> HIDE DEF pubs
    <3> QED BY <2>1, MaxOfBounded
  <2>3. WatermarkOf(items) = Max(pubs)
    BY <1>2 DEF WatermarkOf
  <2>4. \A a \in items : Pub[a] \in pubs
    OBVIOUS
  <2> HIDE DEF pubs
  <2> QED
    BY <2>1, <2>2, <2>3, <2>4
<1> QED
  BY <1>1, <1>2

\* An answer is what the source shows, not older than asked for and complete;
\* a dependable source answers all of that.
LEMMA AnswerFacts ==
  ASSUME TypeOK, NEW s \in Sources
  PROVE  /\ Answer(s) \subseteq feed[s] /\ Answer(s) \in SUBSET Articles
         /\ \A a \in Answer(s) : /\ ~(Pub[a] < job[s].since)
                                 /\ ~Incomplete(ScraperOf[s], Item[s][a])
         /\ s \in Dependable =>
              \A a \in feed[s] : \/ Pub[a] < job[s].since
                                 \/ Incomplete(ScraperOf[s], Item[s][a])
                                 \/ a \in Answer(s)
<1>1. \A a \in feed[s] : a \in Articles /\ Item[s][a].pub = Pub[a]
  BY DEF TypeOK, Item
<1>2. s \in Dependable => Page(s) = feed[s]
  BY DEF Dependable, Page, InWindow
<1> QED
  BY <1>1, <1>2 DEF Answer, Page, Kept, Older

\* Known articles stay known.
LEMMA KnownStays ==
  ASSUME NEW a, Known(a), rows \subseteq rows'
  PROVE  Known(a)'
BY DEF Known

LEMMA RestingType == Resting \in JobType
BY DEF Resting, JobType, JobPCs

-----------------------------------------------------------------------------
(* Initial states *)

LEMMA InitIInv == ScrapeConstantsOK /\ Init => IInv
<1> SUFFICES ASSUME ScrapeConstantsOK, Init PROVE IInv
  OBVIOUS
<1> USE DEF ScrapeConstantsOK, Init, Never
<1>1. \A s \in Sources : /\ job[s].pc = "idle" /\ job[s].items = {}
                         /\ job[s].todo = {} /\ feed[s] = {} /\ returned[s] = {}
                         /\ banned[s] = 0 /\ pausedUntil[s] = 0 /\ watermark[s] = -1
  BY DEF Resting
<1>2. TypeOK
  <2>1. job \in [Sources -> JobType]
    BY RestingType
  <2> QED
    BY <2>1 DEF TypeOK, JobType
<1>3. PastInv
  BY <1>1 DEF PastInv
<1>4. \A s \in Sources : SourceOK(s)
  BY <1>1 DEF SourceOK, HoldsOK, RestOK, TitleOK, CoverOK, Handling
<1>5. NearDuplicatesNeedTwoSources /\ WatermarkCovers
  BY <1>1 DEF NearDuplicatesNeedTwoSources, WatermarkCovers, Dependable
<1> QED
  BY <1>2, <1>3, <1>4, <1>5 DEF IInv

-----------------------------------------------------------------------------
(* Frames *)

\* Only the job of s moves.
Moves(s) ==
  /\ job' \in [Sources -> JobType]
  /\ \A r \in Sources \ {s} : job'[r] = job[r]

LEMMA MovesTo ==
  ASSUME TypeOK, NEW s \in Sources, NEW x \in JobType, job' = [job EXCEPT ![s] = x]
  PROVE  Moves(s) /\ job'[s] = x
BY DEF TypeOK, JobType, Moves

LEMMA JobFacts ==
  ASSUME IInv, NEW s \in Sources
  PROVE  /\ job \in [Sources -> JobType] /\ job[s] \in JobType
         /\ job[s].todo \subseteq job[s].items /\ job[s].items \subseteq feed[s]
         /\ feed[s] \subseteq Articles /\ returned[s] \subseteq feed[s]
         /\ watermark[s] \in Nat \cup {Never} /\ watermark[s] <= clock
         /\ SourceOK(s)
         /\ job[s].pc \in {"title", "insert", "metric"} => job[s].art \in Articles
<1>1. SourceOK(s)
  BY DEF IInv
<1>2. job \in [Sources -> JobType]
  BY DEF IInv, TypeOK, JobType
<1>3. HoldsOK(s)
  BY <1>1 DEF SourceOK
<1> QED
  BY <1>1, <1>2, <1>3 DEF IInv, TypeOK, PastInv, HoldsOK

\* A source whose job and entries do not change: time, other rows, later
\* checks and a longer page do not disturb what it relies on.
LEMMA Undisturbed ==
  ASSUME ScrapeConstantsOK, IInv, NEW r \in Sources,
         clock' \in Nat, clock <= clock', feed[r] \subseteq feed'[r],
         job'[r] = job[r], returned'[r] = returned[r], watermark'[r] = watermark[r],
         banned'[r] = banned[r], pausedUntil'[r] = pausedUntil[r],
         rows \subseteq rows', \A a \in rows' \ rows : r \notin addedBy'[a],
         \A a \in rows : addedBy'[a] = addedBy[a] /\ fetchedAt'[a] = fetchedAt[a],
         \A a \in Articles \ rows : checkedAt'[a] \in Nat /\ checkedAt[a] <= checkedAt'[a]
  PROVE  SourceOK(r)'
<1>1. /\ SourceOK(r) /\ job[r] \in JobType
      /\ job[r].pc \in {"title", "insert", "metric"} => job[r].art \in Articles
  BY JobFacts
<1>2. HoldsOK(r)'
  BY <1>1 DEF SourceOK, HoldsOK
<1>3. RestOK(r)'
  BY <1>1 DEF SourceOK, RestOK, IInv, TypeOK, ScrapeConstantsOK
<1>4. TitleOK(r)'
  <2> SUFFICES ASSUME job[r].pc = "insert", job[r].art \notin rows', NEW a \in rows',
                      <<job[r].art, a>> \in Near, addedBy'[a] = {r}
               PROVE  fetchedAt'[a] < checkedAt'[job[r].art] - Window
    BY DEF TitleOK
  <2>1. a \in rows /\ addedBy[a] = {r} /\ fetchedAt'[a] = fetchedAt[a] /\ a \in Articles
    BY DEF IInv, TypeOK
  <2>2. fetchedAt[a] < checkedAt[job[r].art] - Window
    BY <1>1, <2>1 DEF SourceOK, TitleOK
  <2> QED
    BY <1>1, <2>1, <2>2 DEF IInv, TypeOK, ScrapeConstantsOK
<1>5. CoverOK(r)'
  BY <1>1 DEF SourceOK, CoverOK, Known
<1> QED
  BY <1>2, <1>3, <1>4, <1>5 DEF SourceOK

\* What WatermarkCovers says of the sources nothing happens to.
LEMMA CoversFrame ==
  ASSUME WatermarkCovers, NEW s \in Sources, rows \subseteq rows',
         \A r \in Sources \ {s} : returned'[r] = returned[r] /\ watermark'[r] = watermark[r],
         s \in Dependable => \A a \in returned'[s] : Pub[a] < watermark'[s] => Known(a)'
  PROVE  WatermarkCovers'
BY DEF WatermarkCovers, Known, Dependable

\* A step of one job that changes at most the source's rest.
LEMMA JobOnly ==
  ASSUME ScrapeConstantsOK, IInv, NEW s \in Sources, Moves(s), faults' \in Nat,
         UNCHANGED <<clock, feed, rows, fetchedAt, watermark, returned, addedBy, checkedAt>>,
         banned' \in [Sources -> Nat], pausedUntil' \in [Sources -> Nat],
         \A r \in Sources \ {s} : banned'[r] = banned[r] /\ pausedUntil'[r] = pausedUntil[r],
         SourceOK(s)'
  PROVE  IInv'
<1>1. TypeOK'
  BY DEF Moves, IInv, TypeOK, JobType
<1>2. PastInv' /\ NearDuplicatesNeedTwoSources' /\ WatermarkCovers'
  BY DEF IInv, PastInv, NearDuplicatesNeedTwoSources, WatermarkCovers, Known, Dependable
<1>3. ASSUME NEW r \in Sources, r # s PROVE SourceOK(r)'
  <2>1. /\ job'[r] = job[r] /\ clock \in Nat
        /\ banned'[r] = banned[r] /\ pausedUntil'[r] = pausedUntil[r]
    BY <1>3 DEF Moves, IInv, TypeOK
  <2>2. \A a \in Articles : checkedAt[a] \in Nat
    BY DEF IInv, TypeOK
  <2> QED
    BY <2>1, <2>2, Undisturbed
<1> QED
  BY <1>1, <1>2, <1>3 DEF IInv

\* A job that rests has nothing to answer for but the rest it owes.
LEMMA RestedOK ==
  ASSUME IInv, NEW s \in Sources, job'[s] = Resting,
         UNCHANGED <<feed, returned>>, banned'[s] <= pausedUntil'[s]
  PROVE  SourceOK(s)'
<1>1. /\ job'[s].pc = "idle" /\ job'[s].items = {} /\ job'[s].todo = {}
  BY DEF Resting
<1>2. SourceOK(s)
  BY JobFacts
<1> QED
  BY <1>1, <1>2 DEF SourceOK, HoldsOK, RestOK, TitleOK, CoverOK, Handling

-----------------------------------------------------------------------------
(* The steps of one job *)

LEMMA StartStep ==
  ASSUME ScrapeConstantsOK, IInv, NEW s \in Sources, StartScrape(s)
  PROVE  IInv'
<1> USE DEF tables
<1> DEFINE at == IF ScraperOf[s].early THEN clock ELSE 0
           x == [job[s] EXCEPT !.pc = "fetch", !.since = Since(s), !.at = at]
<1>0. job[s] \in JobType /\ SourceOK(s) /\ at \in Nat /\ clock \in Nat
  BY JobFacts DEF IInv, TypeOK
<1>1. Since(s) \in Int /\ (watermark[s] # Never => Since(s) = watermark[s])
  BY JobFacts, <1>0 DEF Since, Never, ScrapeConstantsOK
<1>2. job' = [job EXCEPT ![s] = x]
  BY DEF StartScrape
<1> HIDE DEF at
<1>3. /\ x \in JobType /\ x.pc = "fetch" /\ x.since = Since(s)
      /\ x.items = job[s].items /\ x.todo = job[s].todo
  BY <1>0, <1>1 DEF JobType, JobPCs
<1> HIDE DEF x
<1>4. Moves(s) /\ job'[s] = x
  BY <1>2, <1>3, MovesTo DEF IInv
<1>5. /\ \A r \in Sources \ {s} : returned'[r] = returned[r]
      /\ returned'[s] = IF watermark[s] = Never THEN {} ELSE returned[s]
      /\ returned' \in [Sources -> SUBSET Articles]
  BY DEF StartScrape, IInv, TypeOK
<1>6. TypeOK' /\ PastInv' /\ NearDuplicatesNeedTwoSources'
  BY <1>4, <1>5 DEF StartScrape, Moves, IInv, TypeOK, JobType, PastInv,
                    NearDuplicatesNeedTwoSources
<1>7. WatermarkCovers'
  <2>1. \A a \in returned'[s] : a \in returned[s]
    BY <1>5
  <2> QED
    BY <1>5, <2>1, CoversFrame DEF StartScrape, IInv, WatermarkCovers, Known
<1>8. SourceOK(s)'
  BY <1>0, <1>1, <1>3, <1>4, <1>5
     DEF StartScrape, SourceOK, HoldsOK, RestOK, TitleOK, CoverOK, Handling
<1>9. ASSUME NEW r \in Sources, r # s PROVE SourceOK(r)'
  <2>1. job'[r] = job[r] /\ returned'[r] = returned[r]
    BY <1>4, <1>5, <1>9 DEF Moves
  <2>2. \A a \in Articles : checkedAt[a] \in Nat
    BY DEF IInv, TypeOK
  <2>3. UNCHANGED <<clock, feed, watermark, pausedUntil, banned, rows, addedBy,
                    fetchedAt, checkedAt>>
    BY DEF StartScrape
  <2> QED
    BY <1>0, <2>1, <2>2, <2>3, Undisturbed
<1> QED
  BY <1>6, <1>7, <1>8, <1>9 DEF IInv

\* A step of one job that changes nothing but returned[s]: an answer.
LEMMA AnsweredStep ==
  ASSUME ScrapeConstantsOK, IInv, NEW s \in Sources, job[s].pc = "fetch",
         NEW items \in SUBSET Articles, Answered(s, items), faults' \in Nat,
         items \subseteq feed[s],
         \A a \in items : /\ ~(Pub[a] < job[s].since)
                          /\ ~Incomplete(ScraperOf[s], Item[s][a]),
         s \in Dependable => \A a \in feed[s] : \/ Pub[a] < job[s].since
                                                \/ Incomplete(ScraperOf[s], Item[s][a])
                                                \/ a \in items
  PROVE  IInv'
<1> USE DEF tables
<1> DEFINE at == IF ScraperOf[s].early THEN job[s].at ELSE clock
           pc == IF items = {} THEN "mark" ELSE "url"
           zero == 0
           x == [job[s] EXCEPT !.pc = pc, !.since = zero, !.at = at, !.items = items,
                               !.todo = items]
<1>0. job[s] \in JobType /\ SourceOK(s) /\ clock \in Nat
      /\ watermark[s] \in Nat \cup {Never} /\ returned[s] \subseteq feed[s]
      /\ feed[s] \subseteq Articles
  BY JobFacts DEF IInv, TypeOK
<1>1. at \in Nat /\ zero \in Int /\ pc \in JobPCs /\ pc \in {"mark", "url"} /\ (pc = "mark" => items = {})
  BY <1>0 DEF JobType, JobPCs
<1>2. job' = [job EXCEPT ![s] = x]
  BY DEF Answered
<1> HIDE DEF at, pc, zero
<1>3. x \in JobType
  BY <1>0, <1>1 DEF JobType
<1>11. x.pc = pc /\ x.items = items /\ x.todo = items
  BY <1>0 DEF JobType
<1> HIDE DEF x
<1>4. Moves(s) /\ job'[s] = x
  BY <1>2, <1>3, MovesTo DEF IInv
<1>5. /\ \A r \in Sources \ {s} : returned'[r] = returned[r]
      /\ returned'[s] = returned[s] \cup items
      /\ returned' \in [Sources -> SUBSET Articles]
  BY DEF Answered, IInv, TypeOK
<1>6. TypeOK' /\ PastInv' /\ NearDuplicatesNeedTwoSources'
  BY <1>4, <1>5 DEF Answered, Moves, IInv, TypeOK, JobType, PastInv,
                    NearDuplicatesNeedTwoSources
<1>7. \A a \in items : ~(Pub[a] < watermark[s])
  <2>1. watermark[s] # Never => job[s].since = watermark[s]
    BY <1>0 DEF SourceOK, HoldsOK
  <2>2. \A a \in items : Pub[a] \in Nat
    BY DEF ScrapeConstantsOK
  <2> QED
    BY <2>1, <2>2 DEF Never
<1>8. WatermarkCovers'
  BY <1>5, <1>7, CoversFrame DEF Answered, IInv, WatermarkCovers, Known
<1>9. SourceOK(s)'
  <2>1. HoldsOK(s)'
    <3>1. \A a \in items : Pub[a] \in Nat
      BY DEF ScrapeConstantsOK
    <3>2. \A a \in items : Pub[a] >= watermark[s]
      BY <1>0, <1>7, <3>1 DEF Never
    <3>3. /\ feed'[s] = feed[s] /\ watermark'[s] = watermark[s]
          /\ job'[s].pc \in {"mark", "url"} /\ job'[s].items = items
          /\ job'[s].todo = items
      BY <1>1, <1>4, <1>11 DEF Answered
    <3> QED
      BY <1>0, <1>5, <3>2, <3>3 DEF HoldsOK
  <2>2. RestOK(s)' /\ TitleOK(s)'
    BY <1>0, <1>1, <1>11, <1>4 DEF Answered, SourceOK, RestOK, TitleOK
  <2>3. \A a \in returned'[s] : ~Incomplete(ScraperOf[s], Item[s][a])
    BY <1>0, <1>5 DEF SourceOK, CoverOK
  <2>4. ASSUME s \in Dependable, NEW a \in returned'[s]
        PROVE  a \in items \/ Pub[a] < watermark[s]
    <3>1. CASE watermark[s] = Never
      BY <1>0, <1>5, <3>1 DEF SourceOK, CoverOK
    <3>2. CASE watermark[s] # Never
      <4>1. job[s].since = watermark[s]
        BY <1>0, <3>2 DEF SourceOK, HoldsOK
      <4> QED
        BY <1>0, <1>5, <2>3, <2>4, <4>1
    <3> QED
      BY <3>1, <3>2
  <2>5. CoverOK(s)'
    BY <1>1, <1>11, <1>4, <2>3, <2>4 DEF Answered, CoverOK, Handling, Dependable
  <2> QED
    BY <2>1, <2>2, <2>5 DEF SourceOK
<1>10. ASSUME NEW r \in Sources, r # s PROVE SourceOK(r)'
  <2>1. job'[r] = job[r] /\ returned'[r] = returned[r]
    BY <1>4, <1>5, <1>10 DEF Moves
  <2>2. \A a \in Articles : checkedAt[a] \in Nat
    BY DEF IInv, TypeOK
  <2>3. UNCHANGED <<clock, feed, watermark, pausedUntil, banned, rows, addedBy,
                    fetchedAt, checkedAt>>
    BY DEF Answered
  <2> QED
    BY <1>0, <2>1, <2>2, <2>3, Undisturbed
<1> QED
  BY <1>6, <1>8, <1>9, <1>10 DEF IInv

LEMMA FetchStep ==
  ASSUME ScrapeConstantsOK, IInv, NEW s \in Sources, FetchOk(s) \/ FetchSwallowed(s)
  PROVE  IInv'
<1>0. TypeOK /\ faults' \in Nat /\ job[s].pc = "fetch"
  BY DEF FetchOk, FetchSwallowed, IInv, TypeOK
<1>1. CASE FetchOk(s)
  BY <1>0, <1>1, AnswerFacts, AnsweredStep DEF FetchOk
<1>2. CASE FetchSwallowed(s)
  <2>1. s \notin Dependable
    BY <1>2 DEF FetchSwallowed, Dependable
  <2> QED
    BY <1>0, <1>2, <2>1, AnsweredStep DEF FetchSwallowed
<1> QED
  BY <1>1, <1>2

\* A fetch that fails: at once, or in any other way an exception ends a job.
LEMMA EndStep ==
  ASSUME ScrapeConstantsOK, IInv, NEW s \in Sources,
         FetchRaises(s) \/ FetchError(s) \/ JobRaises(s)
  PROVE  IInv'
<1> USE DEF tables, history
<1>1. Moves(s) /\ job'[s] = Resting
  BY MovesTo, RestingType DEF FetchRaises, FetchError, JobRaises, IInv
<1>2. SourceOK(s) /\ banned \in [Sources -> Nat] /\ pausedUntil \in [Sources -> Nat]
      /\ faults \in Nat
  BY DEF IInv, TypeOK
<1>3. /\ banned' \in [Sources -> Nat] /\ \A r \in Sources \ {s} : banned'[r] = banned[r]
      /\ banned'[s] = IF job[s].pc = "pause" THEN 0 ELSE banned[s]
  BY <1>2 DEF FetchRaises, FetchError, JobRaises
<1>4. UNCHANGED <<clock, feed, tables, returned, addedBy, checkedAt>> /\ faults' \in Nat
  BY <1>2 DEF FetchRaises, FetchError, JobRaises
<1>5. SourceOK(s)'
  <2>1. banned'[s] <= pausedUntil'[s]
    BY <1>2, <1>3, <1>4 DEF SourceOK, RestOK
  <2> QED
    BY <1>1, <1>4, <2>1, RestedOK
<1> QED
  BY <1>1, <1>2, <1>3, <1>4, <1>5, JobOnly

LEMMA AntiCrawlStep ==
  ASSUME ScrapeConstantsOK, IInv, NEW s \in Sources, FetchAntiCrawl(s)
  PROVE  IInv'
<1> USE DEF tables
<1> DEFINE x == [job[s] EXCEPT !.pc = "pause"]
<1>1. job[s] \in JobType /\ SourceOK(s) /\ banned \in [Sources -> Nat]
      /\ clock + Pause \in Nat /\ pausedUntil \in [Sources -> Nat] /\ faults \in Nat
  BY JobFacts DEF IInv, TypeOK, ScrapeConstantsOK
<1>2. x \in JobType
  BY <1>1 DEF JobType, JobPCs
<1>3. x.pc = "pause" /\ x.items = job[s].items /\ x.todo = job[s].todo
  BY <1>1 DEF JobType
<1>4. job' = [job EXCEPT ![s] = x]
  BY DEF FetchAntiCrawl, Goto
<1> HIDE DEF x
<1>5. Moves(s) /\ job'[s] = x
  BY <1>2, <1>4, MovesTo DEF IInv
<1>6. /\ banned' \in [Sources -> Nat] /\ \A r \in Sources \ {s} : banned'[r] = banned[r]
      /\ banned'[s] = clock + Pause
      /\ UNCHANGED <<clock, feed, tables, returned, addedBy, checkedAt>> /\ faults' \in Nat
  BY <1>1 DEF FetchAntiCrawl
<1>7. SourceOK(s)'
  BY <1>1, <1>3, <1>5, <1>6 DEF SourceOK, HoldsOK, RestOK, TitleOK, CoverOK, Handling
<1> QED
  BY <1>1, <1>5, <1>6, <1>7, JobOnly

\* The rest that is stored is not shorter than the one that is owed.
LEMMA PauseStep ==
  ASSUME ScrapeConstantsOK, IInv, NEW s \in Sources, SetPaused(s)
  PROVE  IInv'
<1> USE DEF history
<1>1. Moves(s) /\ job'[s] = Resting
  BY MovesTo, RestingType DEF SetPaused, IInv
<1>2. SourceOK(s) /\ banned \in [Sources -> Nat] /\ pausedUntil \in [Sources -> Nat]
      /\ PauseEnd \in Nat /\ faults \in Nat
  BY DEF IInv, TypeOK, ScrapeConstantsOK, PauseEnd
<1>3. /\ pausedUntil' \in [Sources -> Nat] /\ pausedUntil'[s] = PauseEnd
      /\ \A r \in Sources \ {s} : pausedUntil'[r] = pausedUntil[r]
      /\ UNCHANGED <<clock, feed, rows, fetchedAt, watermark, history, faults>>
  BY <1>2 DEF SetPaused
<1>4. SourceOK(s)'
  <2>1. banned'[s] <= pausedUntil'[s]
    BY <1>2, <1>3 DEF SetPaused, SourceOK, RestOK, PauseEnd
  <2> QED
    BY <1>1, <1>3, <2>1, RestedOK
<1> QED
  BY <1>1, <1>2, <1>3, <1>4, JobOnly

LEMMA UrlStep ==
  ASSUME ScrapeConstantsOK, IInv, NEW s \in Sources, NEW a \in Articles, LookupUrl(s, a)
  PROVE  IInv'
<1> USE DEF tables, history
<1> DEFINE x == [job[s] EXCEPT !.pc = IF a \in rows THEN "metric" ELSE "title", !.art = a]
<1>1. job[s] \in JobType /\ SourceOK(s) /\ banned \in [Sources -> Nat]
      /\ pausedUntil \in [Sources -> Nat] /\ faults \in Nat
  BY JobFacts DEF IInv, TypeOK
<1>2. x \in JobType
  BY <1>1 DEF JobType, JobPCs
<1>3. /\ x.pc = IF a \in rows THEN "metric" ELSE "title"
      /\ x.art = a /\ x.items = job[s].items /\ x.todo = job[s].todo
  BY <1>1 DEF JobType
<1>4. job' = [job EXCEPT ![s] = x]
  BY DEF LookupUrl
<1> HIDE DEF x
<1>5. Moves(s) /\ job'[s] = x
  BY <1>2, <1>4, MovesTo DEF IInv
<1>6. UNCHANGED <<clock, feed, tables, history, faults>> /\ job[s].pc = "url"
      /\ a \in job[s].todo
  BY DEF LookupUrl
<1>7. SourceOK(s)'
  BY <1>1, <1>3, <1>5, <1>6
     DEF SourceOK, HoldsOK, RestOK, TitleOK, CoverOK, Handling, Known, Dependable
<1> QED
  BY <1>1, <1>5, <1>6, <1>7, JobOnly

LEMMA MetricStep ==
  ASSUME ScrapeConstantsOK, IInv, NEW s \in Sources, Metric(s)
  PROVE  IInv'
<1> USE DEF tables, history
<1> DEFINE left == job[s].todo \ {job[s].art}
           pc == AfterArticle(left)
           x == [job[s] EXCEPT !.pc = pc, !.todo = left, !.art = NoArticle]
<1>1. job[s] \in JobType /\ SourceOK(s) /\ banned \in [Sources -> Nat]
      /\ pausedUntil \in [Sources -> Nat] /\ faults \in Nat
  BY JobFacts DEF IInv, TypeOK
<1>2. /\ left \subseteq Articles /\ left \subseteq job[s].todo
      /\ \A a \in job[s].todo \ left : a = job[s].art
      /\ pc \in JobPCs /\ pc \in {"mark", "url"} /\ (pc = "mark" => left = {})
  BY <1>1 DEF JobType, JobPCs, AfterArticle
<1>3. job' = [job EXCEPT ![s] = x]
  BY DEF Metric
<1> HIDE DEF left, pc
<1>4. x \in JobType
  BY <1>1, <1>2 DEF JobType
<1>5. x.pc = pc /\ x.items = job[s].items /\ x.todo = left
  BY <1>1 DEF JobType
<1> HIDE DEF x
<1>6. Moves(s) /\ job'[s] = x
  BY <1>3, <1>4, MovesTo DEF IInv
<1>7. UNCHANGED <<clock, feed, tables, history, faults>> /\ job[s].pc = "metric"
  BY DEF Metric
<1>8. SourceOK(s)'
  <2>1. HoldsOK(s)' /\ RestOK(s)' /\ TitleOK(s)'
    BY <1>1, <1>2, <1>5, <1>6, <1>7 DEF SourceOK, HoldsOK, RestOK, TitleOK, Handling
  <2>2. \A a \in job[s].items \ left : Known(a)'
    BY <1>1, <1>2, <1>7 DEF SourceOK, CoverOK, Handling, Known
  <2>3. CoverOK(s)'
    BY <1>1, <1>2, <1>5, <1>6, <1>7, <2>2 DEF SourceOK, CoverOK, Handling, Dependable
  <2> QED
    BY <2>1, <2>3 DEF SourceOK
<1> QED
  BY <1>1, <1>6, <1>7, <1>8, JobOnly

\* The check of a title: no row of the window is close to it.
LEMMA TitleStep ==
  ASSUME ScrapeConstantsOK, IInv, NEW s \in Sources, LookupTitle(s)
  PROVE  IInv'
<1> USE DEF tables, Goto
<1> DEFINE a == job[s].art
           pc == IF Similar(a) # {} THEN "metric" ELSE "insert"
           x == [job[s] EXCEPT !.pc = pc]
<1>1. /\ job[s] \in JobType /\ SourceOK(s) /\ a \in Articles /\ clock \in Nat
      /\ rows \subseteq Articles /\ checkedAt \in [Articles -> Nat]
      /\ fetchedAt \in [Articles -> Nat] /\ PastInv
  BY JobFacts DEF LookupTitle, IInv, TypeOK
<1>2. job' = [job EXCEPT ![s] = x]
  BY DEF LookupTitle
<1>3. pc \in JobPCs /\ pc \in {"metric", "insert"}
  BY DEF JobPCs
<1> HIDE DEF pc
<1>4. x \in JobType
  BY <1>1, <1>3 DEF JobType
<1>5. x.pc = pc /\ x.art = a /\ x.items = job[s].items /\ x.todo = job[s].todo
  BY <1>1 DEF JobType
<1> HIDE DEF x
<1>6. Moves(s) /\ job'[s] = x
  BY <1>2, <1>4, MovesTo DEF IInv
<1>7. /\ job[s].pc = "title"
      /\ UNCHANGED <<clock, feed, rows, fetchedAt, watermark, pausedUntil, returned,
                     addedBy, banned, faults>>
  BY DEF LookupTitle
<1>8. /\ checkedAt' \in [Articles -> Nat]
      /\ \A b \in Articles : checkedAt'[b] >= checkedAt[b] /\ checkedAt'[b] <= clock
      /\ \A b \in rows : checkedAt'[b] = checkedAt[b]
      /\ pc = "insert" /\ a \notin rows => checkedAt'[a] = clock
  BY <1>1 DEF LookupTitle, PastInv, pc
<1>9. TypeOK' /\ PastInv'
  BY <1>6, <1>7, <1>8 DEF Moves, IInv, TypeOK, JobType, PastInv
<1>10. NearDuplicatesNeedTwoSources' /\ WatermarkCovers'
  BY <1>7, <1>8 DEF IInv, NearDuplicatesNeedTwoSources, WatermarkCovers, Known, Dependable
<1>11. SourceOK(s)'
  <2>1. HoldsOK(s)' /\ RestOK(s)'
    BY <1>1, <1>3, <1>5, <1>6, <1>7 DEF SourceOK, HoldsOK, RestOK, Handling
  <2>2. TitleOK(s)'
    <3> SUFFICES ASSUME pc = "insert", a \notin rows, NEW b \in rows, <<a, b>> \in Near
                 PROVE  fetchedAt[b] < checkedAt'[a] - Window
      BY <1>5, <1>6, <1>7 DEF TitleOK
    <3>1. b \notin Similar(a)
      BY DEF pc
    <3>2. fetchedAt[b] \in Nat /\ Window \in Nat
      BY <1>1 DEF ScrapeConstantsOK
    <3> QED
      BY <1>1, <1>8, <3>1, <3>2 DEF Similar
  <2>3. pc = "metric" => \E b \in rows : <<a, b>> \in Near
    BY DEF Similar, pc
  <2>4. CoverOK(s)'
    BY <1>1, <1>3, <1>5, <1>6, <1>7, <2>3
       DEF SourceOK, CoverOK, Handling, Known, Dependable
  <2> QED
    BY <2>1, <2>2, <2>4 DEF SourceOK
<1>12. ASSUME NEW r \in Sources, r # s PROVE SourceOK(r)'
  <2>1. job'[r] = job[r]
    BY <1>6, <1>12 DEF Moves
  <2>2. \A b \in Articles : checkedAt'[b] \in Nat /\ checkedAt[b] <= checkedAt'[b]
    BY <1>1, <1>8
  <2> QED
    BY <1>1, <1>7, <2>1, <2>2, Undisturbed
<1> QED
  BY <1>9, <1>10, <1>11, <1>12 DEF IInv

\* A new row is far from, or older than the window than, those its source
\* stored before.
LEMMA InsertStep ==
  ASSUME ScrapeConstantsOK, IInv, NEW s \in Sources, Insert(s)
  PROVE  IInv'
<1> USE DEF Goto
<1> DEFINE a == job[s].art
           x == [job[s] EXCEPT !.pc = "metric"]
<1>1. /\ job[s] \in JobType /\ SourceOK(s) /\ a \in Articles /\ clock \in Nat
      /\ rows \subseteq Articles /\ checkedAt \in [Articles -> Nat]
      /\ fetchedAt \in [Articles -> Nat] /\ addedBy \in [Articles -> SUBSET Sources]
  BY JobFacts DEF Insert, IInv, TypeOK
<1>2. job' = [job EXCEPT ![s] = x]
  BY DEF Insert
<1>3. x \in JobType
  BY <1>1 DEF JobType, JobPCs
<1>4. x.pc = "metric" /\ x.art = a /\ x.items = job[s].items /\ x.todo = job[s].todo
  BY <1>1 DEF JobType
<1> HIDE DEF x
<1>5. Moves(s) /\ job'[s] = x
  BY <1>2, <1>3, MovesTo DEF IInv
<1>6. /\ job[s].pc = "insert"
      /\ UNCHANGED <<clock, feed, watermark, pausedUntil, returned, checkedAt, banned,
                     faults>>
  BY DEF Insert
<1>7. job[s].at \in Nat
  BY <1>1 DEF JobType
<1>8. /\ rows' = rows \cup {a} /\ fetchedAt' \in [Articles -> Nat]
      /\ addedBy' \in [Articles -> SUBSET Sources]
      /\ \A b \in rows : fetchedAt'[b] = fetchedAt[b] /\ addedBy'[b] = addedBy[b]
      /\ a \notin rows => addedBy'[a] = {s}
  BY <1>1, <1>7 DEF Insert
<1>9. TypeOK' /\ PastInv'
  BY <1>1, <1>5, <1>6, <1>8 DEF Moves, IInv, TypeOK, JobType, PastInv
<1>10. NearDuplicatesNeedTwoSources'
  <2>1. ASSUME a \notin rows, NEW b \in rows, <<a, b>> \in Near, addedBy[b] = {s}
        PROVE  fetchedAt[b] < checkedAt[a] - Window
    BY <1>1, <1>6, <2>1 DEF SourceOK, TitleOK
  <2>2. \A b, c \in Articles : <<b, c>> \in Near => <<c, b>> \in Near
    BY DEF ScrapeConstantsOK
  <2> SUFFICES ASSUME NEW b \in rows', NEW c \in rows', b # c, <<b, c>> \in Near,
                      addedBy'[b] = addedBy'[c]
               PROVE  \/ fetchedAt'[b] < checkedAt[c] - Window
                      \/ fetchedAt'[c] < checkedAt[b] - Window
    BY <1>6 DEF NearDuplicatesNeedTwoSources
  <2>3. b \in Articles /\ c \in Articles /\ <<c, b>> \in Near
    BY <1>1, <1>8, <2>2
  <2>4. CASE b \in rows /\ c \in rows
    BY <1>8, <2>4 DEF IInv, NearDuplicatesNeedTwoSources
  <2>5. CASE b \notin rows /\ c \in rows
    BY <1>8, <2>1, <2>5
  <2>6. CASE b \in rows /\ c \notin rows
    BY <1>8, <2>1, <2>3, <2>6
  <2> QED
    BY <1>8, <2>4, <2>5, <2>6
<1>11. WatermarkCovers'
  BY <1>6, <1>8 DEF IInv, WatermarkCovers, Known, Dependable
<1>12. SourceOK(s)'
  <2>1. HoldsOK(s)' /\ RestOK(s)' /\ TitleOK(s)'
    BY <1>1, <1>4, <1>5, <1>6 DEF SourceOK, HoldsOK, RestOK, TitleOK, Handling
  <2>2. CoverOK(s)'
    BY <1>1, <1>4, <1>5, <1>6, <1>8 DEF SourceOK, CoverOK, Handling, Known, Dependable
  <2> QED
    BY <2>1, <2>2 DEF SourceOK
<1>13. ASSUME NEW r \in Sources, r # s PROVE SourceOK(r)'
  <2>1. job'[r] = job[r]
    BY <1>5, <1>13 DEF Moves
  <2>2. \A b \in rows' \ rows : r \notin addedBy'[b]
    BY <1>8, <1>13
  <2>3. \A b \in Articles : checkedAt[b] \in Nat
    BY <1>1
  <2>4. rows \subseteq rows'
    BY <1>8
  <2>5. \A b \in rows : fetchedAt'[b] = fetchedAt[b] /\ addedBy'[b] = addedBy[b]
    BY <1>8
  <2>6. /\ clock' \in Nat /\ clock <= clock' /\ checkedAt' = checkedAt
        /\ feed'[r] = feed[r] /\ returned'[r] = returned[r] /\ banned'[r] = banned[r]
        /\ watermark'[r] = watermark[r] /\ pausedUntil'[r] = pausedUntil[r]
    BY <1>1, <1>6
  <2> QED
    BY <2>1, <2>2, <2>3, <2>4, <2>5, <2>6, Undisturbed
<1> QED
  BY <1>9, <1>10, <1>11, <1>12, <1>13 DEF IInv

\* The watermark moves when everything answered is known, and never back.
LEMMA MarkStep ==
  ASSUME ScrapeConstantsOK, IInv, NEW s \in Sources, UpdateWatermark(s)
  PROVE  IInv' /\ watermark'[s] >= watermark[s]
         /\ \A r \in Sources \ {s} : watermark'[r] = watermark[r]
<1> USE DEF history
<1> DEFINE items == job[s].items
           mark == WatermarkOf(items)
<1>1. /\ job[s] \in JobType /\ SourceOK(s) /\ clock \in Nat /\ items \in SUBSET Articles
      /\ items \subseteq feed[s] /\ watermark[s] \in Nat \cup {Never}
      /\ watermark[s] <= clock /\ feed[s] \subseteq Articles
  BY JobFacts DEF IInv, TypeOK
<1>2. Moves(s) /\ job'[s] = Resting
  BY MovesTo, RestingType DEF UpdateWatermark, IInv
<1>3. mark \in Nat /\ mark <= clock /\ \A a \in items : Pub[a] <= mark
  BY <1>1, WatermarkOfFacts DEF IInv, PastInv
<1>4. /\ job[s].pc = "mark"
      /\ UNCHANGED <<clock, feed, rows, fetchedAt, pausedUntil, history, faults>>
  BY DEF UpdateWatermark
<1>5. items = {} => mark = clock
  BY DEF WatermarkOf
<1>6. watermark' = [watermark EXCEPT ![s] = mark]
  BY DEF UpdateWatermark
<1> HIDE DEF mark
<1>7. /\ watermark' \in [Sources -> Nat \cup {Never}] /\ watermark'[s] = mark
      /\ \A r \in Sources \ {s} : watermark'[r] = watermark[r]
  BY <1>3, <1>6 DEF IInv, TypeOK
<1>8. mark >= watermark[s]
  <2>1. \A a \in items : Pub[a] >= watermark[s] /\ Pub[a] \in Nat
    BY <1>1, <1>4 DEF SourceOK, HoldsOK, Handling, ScrapeConstantsOK
  <2> QED
    BY <1>1, <1>3, <1>5, <2>1 DEF Never
<1>9. TypeOK' /\ PastInv' /\ NearDuplicatesNeedTwoSources'
  BY <1>1, <1>2, <1>3, <1>4, <1>7
     DEF Moves, IInv, TypeOK, JobType, PastInv, NearDuplicatesNeedTwoSources
<1>10. WatermarkCovers'
  <2>1. ASSUME s \in Dependable, NEW a \in returned[s] PROVE Known(a)
    BY <1>1, <1>4, <2>1 DEF IInv, SourceOK, CoverOK, Handling, WatermarkCovers
  <2> QED
    BY <1>4, <1>7, <2>1, CoversFrame DEF IInv, Known
<1>11. SourceOK(s)'
  <2>1. banned'[s] <= pausedUntil'[s]
    BY <1>1, <1>4 DEF SourceOK, RestOK
  <2> QED
    BY <1>2, <1>4, <2>1, RestedOK
<1>12. ASSUME NEW r \in Sources, r # s PROVE SourceOK(r)'
  <2>1. job'[r] = job[r] /\ watermark'[r] = watermark[r]
    BY <1>2, <1>7, <1>12 DEF Moves
  <2>2. \A b \in Articles : checkedAt[b] \in Nat
    BY DEF IInv, TypeOK
  <2> QED
    BY <1>1, <1>4, <2>1, <2>2, Undisturbed
<1> QED
  BY <1>7, <1>8, <1>9, <1>10, <1>11, <1>12 DEF IInv

-----------------------------------------------------------------------------
(* The world, and all steps *)

\* Time passes, or a source shows one more article.
LEMMA WorldStep ==
  ASSUME ScrapeConstantsOK, IInv,
         Tick \/ \E s \in Sources, a \in Articles : Publish(s, a)
  PROVE  IInv'
<1> USE DEF tables, history
<1>1. /\ clock' \in Nat /\ clock <= clock' /\ clock \in Nat
      /\ feed' \in [Sources -> SUBSET Articles]
      /\ \A s \in Sources : feed[s] \subseteq feed'[s]
      /\ \A s \in Sources : \A a \in feed'[s] \ feed[s] : Pub[a] <= clock'
      /\ UNCHANGED <<tables, job, history, faults>>
  <2>1. CASE Tick
    BY <2>1 DEF Tick, IInv, TypeOK
  <2>2. ASSUME NEW s \in Sources, NEW a \in Articles, Publish(s, a)
        PROVE  /\ feed' \in [Sources -> SUBSET Articles]
               /\ \A r \in Sources : /\ feed[r] \subseteq feed'[r]
                                     /\ \A b \in feed'[r] \ feed[r] : b = a
               /\ Pub[a] <= clock /\ UNCHANGED <<clock, tables, job, history, faults>>
    BY <2>2 DEF Publish, IInv, TypeOK
  <2>3. clock \in Nat
    BY DEF IInv, TypeOK
  <2> QED
    BY <2>1, <2>2, <2>3
<1>2. TypeOK'
  BY <1>1 DEF IInv, TypeOK
<1>3. PastInv'
  <2>1. \A s \in Sources : watermark[s] \in Nat \cup {-1}
    BY DEF IInv, TypeOK, Never
  <2>2. \A s \in Sources : \A a \in feed[s] : Pub[a] \in Nat
    BY DEF IInv, TypeOK, ScrapeConstantsOK
  <2>3. \A a \in Articles : checkedAt[a] \in Nat
    BY DEF IInv, TypeOK
  <2> QED
    BY <1>1, <2>1, <2>2, <2>3 DEF IInv, PastInv
<1>4. NearDuplicatesNeedTwoSources' /\ WatermarkCovers'
  BY <1>1 DEF IInv, NearDuplicatesNeedTwoSources, WatermarkCovers, Known, Dependable
<1>5. ASSUME NEW r \in Sources PROVE SourceOK(r)'
  <2>1. \A b \in Articles : checkedAt[b] \in Nat
    BY DEF IInv, TypeOK
  <2> QED
    BY <1>1, <2>1, Undisturbed
<1> QED
  BY <1>2, <1>3, <1>4, <1>5 DEF IInv

LEMMA CrashStep ==
  ASSUME ScrapeConstantsOK, IInv, Crash
  PROVE  IInv'
<1> USE DEF tables
<1>1. /\ job' = [s \in Sources |-> Resting] /\ faults \in Nat /\ faults' \in Nat
      /\ banned' = [s \in Sources |-> IF job[s].pc = "pause" THEN 0 ELSE banned[s]]
      /\ banned \in [Sources -> Nat] /\ pausedUntil \in [Sources -> Nat]
      /\ UNCHANGED <<clock, feed, tables, returned, addedBy, checkedAt>>
  BY DEF Crash, IInv, TypeOK
<1>2. banned' \in [Sources -> Nat] /\ job' \in [Sources -> JobType]
  BY <1>1, RestingType
<1>3. TypeOK'
  BY <1>1, <1>2 DEF IInv, TypeOK, JobType
<1>4. PastInv' /\ NearDuplicatesNeedTwoSources' /\ WatermarkCovers'
  BY <1>1 DEF IInv, PastInv, NearDuplicatesNeedTwoSources, WatermarkCovers, Known,
              Dependable
<1>5. ASSUME NEW s \in Sources PROVE SourceOK(s)'
  <2>1. SourceOK(s)
    BY DEF IInv
  <2>2. banned'[s] <= pausedUntil'[s]
    BY <1>1, <2>1 DEF SourceOK, RestOK
  <2>3. job'[s] = Resting
    BY <1>1
  <2> QED
    BY <1>1, <2>2, <2>3, RestedOK
<1> QED
  BY <1>3, <1>4, <1>5 DEF IInv

LEMMA StutterStep ==
  ASSUME IInv, UNCHANGED vars
  PROVE  IInv'
<1> USE DEF vars, tables, history
<1>1. TypeOK' /\ PastInv' /\ NearDuplicatesNeedTwoSources' /\ WatermarkCovers'
  BY DEF IInv, TypeOK, PastInv, NearDuplicatesNeedTwoSources, WatermarkCovers, Known,
         Dependable
<1>2. ASSUME NEW s \in Sources PROVE SourceOK(s)'
  BY DEF IInv, SourceOK, HoldsOK, RestOK, TitleOK, CoverOK, Known
<1> QED
  BY <1>1, <1>2 DEF IInv

LEMMA NextIInv ==
  ASSUME ScrapeConstantsOK, IInv, [Next]_vars
  PROVE  IInv'
<1>1. CASE Tick \/ \E s \in Sources, a \in Articles : Publish(s, a)
  BY <1>1, WorldStep
<1>2. CASE Crash
  BY <1>2, CrashStep
<1>3. ASSUME NEW s \in Sources, SkipPaused(s) PROVE IInv'
  BY <1>3, StutterStep DEF SkipPaused
<1>4. ASSUME NEW s \in Sources, Step(s) PROVE IInv'
  BY <1>4, StartStep, FetchStep, EndStep, PauseStep, UrlStep, TitleStep, InsertStep,
     MetricStep, MarkStep DEF Step
<1>5. ASSUME NEW s \in Sources, Failures(s) PROVE IInv'
  BY <1>5, AntiCrawlStep, FetchStep, EndStep DEF Failures
<1>6. CASE UNCHANGED vars
  BY <1>6, StutterStep
<1> QED
  BY <1>1, <1>2, <1>3, <1>4, <1>5, <1>6 DEF Next

\* IInv holds in every reachable state: what the tables, the jobs' locals and
\* the past of each source have to do with each other between any two awaits.
THEOREM Invariance == Spec => []IInv
<1>1. ScrapeConstantsOK
  BY ScrapeConstantsOK
<1>2. Init => IInv
  BY <1>1, InitIInv
<1>3. IInv /\ [Next]_vars => IInv'
  BY <1>1, NextIInv
<1> QED
  BY <1>2, <1>3, PTL DEF Spec

\* Every variable of ScrapeDedup has its type.
THEOREM TypeCorrect == Spec => []TypeOK
<1>1. IInv => TypeOK
  BY DEF IInv
<1> QED
  BY <1>1, Invariance, PTL

\* scrape_one_source: the watermark of a dependable source passes nothing
\* that was answered and not handled, whatever failed between two awaits.
THEOREM WatermarkCoversHolds == Spec => []WatermarkCovers
<1>1. IInv => WatermarkCovers
  BY DEF IInv
<1> QED
  BY <1>1, Invariance, PTL

\* Dedup.check_and_register: two rows with close titles within the window
\* come from two sources, for any number of sources and any interleaving.
THEOREM NearDuplicatesHolds == Spec => []NearDuplicatesNeedTwoSources
<1>1. IInv => NearDuplicatesNeedTwoSources
  BY DEF IInv
<1> QED
  BY <1>1, Invariance, PTL

\* Only the end of a run writes a watermark, and never an earlier one.
LEMMA WatermarkStep ==
  ASSUME ScrapeConstantsOK, IInv, [Next]_vars, NEW r \in Sources
  PROVE  watermark'[r] >= watermark[r]
<1>1. watermark[r] \in Int
  BY DEF IInv, TypeOK, Never
<1>2. CASE watermark' = watermark
  BY <1>1, <1>2
<1>3. ASSUME NEW s \in Sources, UpdateWatermark(s) PROVE watermark'[r] >= watermark[r]
  <2>1. CASE r = s
    BY <1>3, <2>1, MarkStep
  <2>2. CASE r # s
    <3>1. watermark'[r] = watermark[r]
      BY <1>3, <2>2, MarkStep
    <3> QED
      BY <1>1, <3>1
  <2> QED
    BY <2>1, <2>2
<1> QED
  BY <1>2, <1>3, ZenonT(60)
     DEF Next, vars, tables, history, Step, Failures, Tick, Crash, Publish, SkipPaused,
         StartScrape, FetchOk, FetchSwallowed, FetchRaises, FetchAntiCrawl, FetchError,
         SetPaused, LookupUrl, LookupTitle, Insert, Metric, JobRaises, Answered

\* update_watermark: no step of any job moves a watermark back.
THEOREM WatermarkAdvancesHolds == Spec => WatermarkAdvances
<1>1. IInv /\ [Next]_vars => \A s \in Sources : watermark'[s] >= watermark[s]
  BY ScrapeConstantsOK, WatermarkStep
<1>2. IInv /\ [Next]_vars => [\A s \in Sources : watermark'[s] >= watermark[s]]_vars
  BY <1>1
<1> QED
  BY <1>2, Invariance, PTL DEF Spec, WatermarkAdvances

\* A job that starts to fetch finds the rest of its source over.
LEMMA RestStep ==
  ASSUME IInv, [Next]_vars, NEW r \in Sources, job[r].pc = "idle", job'[r].pc = "fetch"
  PROVE  clock >= banned[r]
<1>1. /\ SourceOK(r) /\ banned[r] \in Nat /\ pausedUntil[r] \in Nat /\ clock \in Nat
      /\ job \in [Sources -> JobType]
  BY JobFacts DEF IInv, TypeOK
<1>2. StartScrape(r)
  <2>1. ASSUME NEW s \in Sources, Step(s) \/ Failures(s), r # s PROVE FALSE
    <3>1. job'[r] = job[r]
      BY <1>1, <2>1
         DEF Step, Failures, StartScrape, FetchOk, FetchSwallowed, FetchRaises,
             FetchAntiCrawl, FetchError, SetPaused, LookupUrl, LookupTitle, Insert, Metric,
             UpdateWatermark, JobRaises, Answered, Goto
    <3> QED
      BY <3>1
  <2>2. ASSUME Step(r) \/ Failures(r), ~StartScrape(r) PROVE FALSE
    BY <1>1, <2>2
       DEF Step, Failures, FetchOk, FetchSwallowed, FetchRaises, FetchAntiCrawl,
           FetchError, SetPaused, LookupUrl, LookupTitle, Insert, Metric, UpdateWatermark,
           JobRaises
  <2>3. ASSUME Tick \/ Crash \/ (\E s \in Sources, a \in Articles : Publish(s, a))
               \/ (\E s \in Sources : SkipPaused(s)) \/ UNCHANGED vars
        PROVE  FALSE
    BY <2>3 DEF Tick, Crash, Publish, SkipPaused, vars, Resting
  <2> QED
    BY <2>1, <2>2, <2>3 DEF Next
<1> QED
  BY <1>1, <1>2 DEF StartScrape, SourceOK, RestOK

\* is_paused and set_paused: a source that refused to be crawled is left
\* alone for the whole rest, across interruptions of any job.
THEOREM RestIsKeptHolds == Spec => RestIsKept
<1>1. IInv /\ [Next]_vars =>
        \A s \in Sources : job[s].pc = "idle" /\ job'[s].pc = "fetch" => clock >= banned[s]
  BY RestStep
<1>2. IInv /\ [Next]_vars =>
        [\A s \in Sources :
           job[s].pc = "idle" /\ job'[s].pc = "fetch" => clock >= banned[s]]_vars
  BY <1>1
<1> QED
  BY <1>2, Invariance, PTL DEF Spec, RestIsKept

=============================================================================
