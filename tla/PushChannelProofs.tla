-------------------------- MODULE PushChannelProofs --------------------------
(***************************************************************************)
(* Theorems about PushChannel: the burst bound, the truth of the posts'    *)
(* results, the notice of failures and whose webhook a message reaches,    *)
(* for any window, threshold, messages, channels, attempts, period,        *)
(* throttle and files of secrets.                                          *)
(***************************************************************************)
EXTENDS PushChannel, FiniteSetTheorems, SequenceTheorems,
        WellFoundedInduction, TLAPS

-----------------------------------------------------------------------------
(* The inductive invariant *)

Releases == [at : Nat, n : Nat, life : Nat]
Posts == [pc : {"none", "post", "done"}, tries : Nat, copies : Nat, late : Nat,
          ok : BOOLEAN]

BurstType ==
  /\ clock \in Nat /\ crashes \in Nat
  /\ bucket \in [Tickers -> Seq(Nat)]
  /\ released \in [Tickers -> Seq(Releases)]
  /\ job.tickers \in Seq(Tickers)

\* A bucket is in the order of time.
Ordered(b) ==
  /\ \A i \in DOMAIN b : b[i] <= clock
  /\ \A i, j \in DOMAIN b : i <= j => b[i] <= b[j]

\* The releases are told in the order of time and of the lives of the process.
Told(r) ==
  /\ \A i \in DOMAIN r : r[i].at <= clock /\ r[i].life <= crashes
  /\ \A i, j \in DOMAIN r : i <= j => r[i].at <= r[j].at /\ r[i].life <= r[j].life

\* The j-th youngest entry of the bucket is at least as young as the j-th
\* youngest release, unless that release is older than the window or than the
\* process.
Past(e) == e.at < clock - Window \/ e.life < crashes
Covered(b, r) ==
  \A j \in 1..Len(r) :
    \/ Past(r[Len(r) + 1 - j])
    \/ j <= Len(b) /\ b[Len(b) + 1 - j] >= r[Len(r) + 1 - j].at

\* A release is out of the window when the one Threshold places on starts, and
\* Threshold more for every life of the process between them.
Apart(first, i, last, j) ==
  j >= i + Threshold * (last.life - first.life + 1) => last.at - first.at > Window
Spaced(r) == \A i \in DOMAIN r : \A j \in i + 1..Len(r) : Apart(r[i], i, r[j], j)

BurstOK(t) ==
  /\ Ordered(bucket[t]) /\ Told(released[t])
  /\ Covered(bucket[t], released[t]) /\ Spaced(released[t])

BurstInv == BurstType /\ \A t \in Tickers : BurstOK(t)

\* Before the last answer a channel has only copies whose answers were lost.
PostOK(p) ==
  /\ p \in Posts
  /\ p.pc # "done" => p.copies <= p.late
  /\ p.pc = "done" => /\ p.ok => p.copies > 0
                      /\ p.copies <= p.late + (IF p.ok THEN 1 ELSE 0)

PostInv == post = [c \in Channels |-> post[c]] /\ \A c \in Channels : PostOK(post[c])

\* Every entry of a bucket stands for a mention of its own, of that time.
Matching(g, b, r) ==
  /\ \A i, j \in DOMAIN b : g[i] = g[j] => i = j
  /\ \A i \in DOMAIN b : r[g[i][1]].at = b[i]
Matched(b, r) == \E g \in [DOMAIN b -> Mentions(r)] : Matching(g, b, r)

MatchInv ==
  /\ BurstInv /\ crashes \in Nat /\ "pc" \in DOMAIN job
  /\ \A t \in Tickers : Matched(bucket[t], released[t])

\* What the runs missed so far can add to the time to the next one.
Delay == (misses + 1) * Period

NoticeType ==
  /\ clock \in Nat /\ due \in Nat /\ bootedAt \in Nat /\ misses \in Nat
  /\ lastSent \in [Channels -> Nat \cup {Never}]
  /\ failedAt \in [Channels -> Seq(Nat)]

\* The next run is at most a period away, and at least a period after the boot.
Timely ==
  /\ clock <= due /\ due <= clock + Period
  /\ bootedAt <= clock /\ bootedAt + Period <= due

\* FailThreshold failures close together either were noticed, or the next run
\* comes while all of them are within its window.
Noticed(c) ==
  \A i \in DOMAIN failedAt[c] :
    LET j == i + FailThreshold - 1
    IN /\ j \in DOMAIN failedAt[c]
       /\ failedAt[c][j] - failedAt[c][i] <= FailWindow - Delay
       /\ bootedAt <= failedAt[c][j]
       => lastSent[c] >= failedAt[c][j] \/ due <= failedAt[c][j] + Delay

\* The last alert was at least a period before the next run, which is longer
\* than the throttle.
NoticeOK(c) == Ordered(failedAt[c]) /\ lastSent[c] + Period <= due /\ Noticed(c)

NoticeInv == NoticeType /\ Timely /\ \A c \in Channels : NoticeOK(c)

-----------------------------------------------------------------------------
(* Lemmas about the buckets *)

\* The first entry that is not old, or one past the end, is well defined.
LEMMA FirstFreshFacts ==
  ASSUME PushConstantsOK, clock \in Nat, NEW b \in Seq(Nat)
  PROVE  /\ FirstFresh(b) \in 1..Len(b) + 1
         /\ \A i \in 1..FirstFresh(b) - 1 : b[i] < clock - Window
         /\ FirstFresh(b) \in DOMAIN b => b[FirstFresh(b)] >= clock - Window
<1> DEFINE S == {k \in 1..Len(b) + 1 : k \in DOMAIN b => b[k] >= clock - Window}
           Less == OpToRel(<, Nat)
<1>1. Len(b) \in Nat /\ DOMAIN b = 1..Len(b) /\ \A i \in 1..Len(b) : b[i] \in Nat
  OBVIOUS
<1>2. S \subseteq Nat /\ Len(b) + 1 \in S
  BY <1>1
<1>3. IsWellFoundedOn(Less, Nat)
  BY NatLessThanWellFounded
<1>4. \A x, y \in Nat : x < y => <<x, y>> \in Less
  BY DEF OpToRel
<1> HIDE DEF Less
<1>5. PICK k \in S : \A y \in S : ~(<<y, k>> \in Less)
  <2> HIDE DEF S
  <2> QED
    BY <1>2, <1>3, WFMin
<1>6. ASSUME NEW i \in 1..k - 1 PROVE b[i] < clock - Window
  <2>1. k \in 1..Len(b) + 1
    OBVIOUS
  <2>2. i \in 1..Len(b) /\ i \in 1..Len(b) + 1 /\ i < k /\ i \in Nat /\ k \in Nat
    BY <1>1, <2>1
  <2>3. i \notin S
    BY <1>4, <1>5, <2>2
  <2>4. ~(b[i] >= clock - Window)
    BY <1>1, <2>2, <2>3
  <2> QED
    BY <1>1, <2>2, <2>4 DEF PushConstantsOK
<1>7. k \in 1..Len(b) + 1 /\ (k \in DOMAIN b => b[k] >= clock - Window)
  OBVIOUS
<1> QED
  BY <1>6, <1>7 DEF FirstFresh

\* Expiry leaves the end of a bucket, from the first entry that is not old.
LEMMA FreshShape ==
  ASSUME PushConstantsOK, clock \in Nat, NEW b \in Seq(Nat)
  PROVE  \E k \in 1..Len(b) + 1 :
           /\ \A i \in 1..k - 1 : b[i] < clock - Window
           /\ k \in DOMAIN b => b[k] >= clock - Window
           /\ Fresh(b) \in Seq(Nat) /\ Len(Fresh(b)) = Len(b) + 1 - k
           /\ DOMAIN Fresh(b) = 1..Len(b) + 1 - k
           /\ \A i \in 1..Len(b) + 1 - k :
                Fresh(b)[i] = b[i + k - 1] /\ i + k - 1 \in 1..Len(b)
<1> DEFINE k == FirstFresh(b)
           n == Len(b) + 1 - k
           f == Fresh(b)
<1>1. /\ Len(b) \in Nat /\ DOMAIN b = 1..Len(b) /\ k \in 1..Len(b) + 1 /\ n \in Nat
      /\ \A i \in 1..Len(b) : b[i] \in Nat
      /\ \A i \in 1..k - 1 : b[i] < clock - Window
      /\ k \in DOMAIN b => b[k] >= clock - Window
  BY FirstFreshFacts
<1> HIDE DEF k
<1>2. f = SubSeq(b, k, Len(b)) /\ k \in Int /\ Len(b) \in Int
  BY <1>1 DEF Fresh, k
<1>3. \A i \in k..Len(b) : b[i] \in Nat
  BY <1>1
<1>4. /\ f \in Seq(Nat) /\ Len(f) = IF k <= Len(b) THEN Len(b) - k + 1 ELSE 0
      /\ \A i \in 1..Len(b) - k + 1 : f[i] = b[k + i - 1]
  <2> HIDE DEF f, n
  <2> QED
    BY <1>2, <1>3, SubSeqProperties
<1>5. Len(f) = n
  BY <1>1, <1>4
<1>6. \A i \in 1..n : f[i] = b[i + k - 1] /\ i + k - 1 \in 1..Len(b)
  BY <1>1, <1>4
<1>7. DOMAIN f = 1..n
  BY <1>4, <1>5
<1> QED
  BY <1>1, <1>4, <1>5, <1>6, <1>7

\* Expiry keeps the order and what is in the window.
LEMMA FreshFacts ==
  ASSUME PushConstantsOK, clock \in Nat, NEW b \in Seq(Nat), Ordered(b),
         NEW r \in Seq(Releases), Covered(b, r)
  PROVE  /\ Fresh(b) \in Seq(Nat) /\ Ordered(Fresh(b)) /\ Covered(Fresh(b), r)
         /\ \A i \in DOMAIN Fresh(b) : Fresh(b)[i] >= clock - Window
<1>0. PICK k \in 1..Len(b) + 1 :
           /\ \A i \in 1..k - 1 : b[i] < clock - Window
           /\ k \in DOMAIN b => b[k] >= clock - Window
           /\ Fresh(b) \in Seq(Nat) /\ Len(Fresh(b)) = Len(b) + 1 - k
           /\ DOMAIN Fresh(b) = 1..Len(b) + 1 - k
           /\ \A i \in 1..Len(b) + 1 - k :
                Fresh(b)[i] = b[i + k - 1] /\ i + k - 1 \in 1..Len(b)
  BY FreshShape
<1> DEFINE n == Len(b) + 1 - k
           f == Fresh(b)
<1>1. /\ Len(b) \in Nat /\ DOMAIN b = 1..Len(b) /\ k \in 1..Len(b) + 1 /\ n \in Nat
      /\ \A i \in 1..Len(b) : b[i] \in Nat
      /\ \A i \in 1..k - 1 : b[i] < clock - Window
  BY <1>0, SMTT(30)
<1>3. /\ f \in Seq(Nat) /\ Len(f) = n /\ DOMAIN f = 1..n
      /\ \A i \in 1..n : f[i] = b[i + k - 1] /\ i + k - 1 \in 1..Len(b)
  BY <1>0
<1> HIDE DEF f, n
<1>4. Ordered(f)
  <2>1. \A i \in DOMAIN f : f[i] <= clock
    BY <1>1, <1>3 DEF Ordered
  <2>2. ASSUME NEW i \in 1..n, NEW j \in 1..n, i <= j PROVE f[i] <= f[j]
    <3>1. /\ i + k - 1 \in DOMAIN b /\ j + k - 1 \in DOMAIN b
          /\ i + k - 1 <= j + k - 1 /\ f[i] = b[i + k - 1] /\ f[j] = b[j + k - 1]
      BY <1>1, <1>3, <2>2, SMTT(30)
    <3> QED
      BY <3>1 DEF Ordered
  <2> QED
    BY <1>3, <2>1, <2>2 DEF Ordered
<1>5. Covered(f, r)
  <2> SUFFICES ASSUME NEW j \in 1..Len(r), ~Past(r[Len(r) + 1 - j])
               PROVE  j <= Len(f) /\ f[Len(f) + 1 - j] >= r[Len(r) + 1 - j].at
    BY DEF Covered
  <2> DEFINE a == r[Len(r) + 1 - j].at
             i == Len(b) + 1 - j
  <2>1. a \in Nat /\ j \in Nat /\ j >= 1
    <3>1. Len(r) + 1 - j \in 1..Len(r)
      OBVIOUS
    <3>2. r[Len(r) + 1 - j] \in Releases
      BY <3>1
    <3> QED
      BY <3>2, SMTT(30) DEF Releases
  <2>2. j <= Len(b) /\ b[i] >= a
    BY DEF Covered
  <2>3. i \in 1..Len(b) /\ b[i] \in Nat
    BY <1>1, <2>1, <2>2
  <2> HIDE DEF a
  <2>4. ~(a < clock - Window)
    BY DEF a, Past
  <2>5. i \notin 1..k - 1
    BY <1>1, <2>1, <2>2, <2>3, <2>4 DEF PushConstantsOK
  <2>6. i >= k
    BY <1>1, <2>3, <2>5
  <2>7. j <= n
    BY <1>1, <2>1, <2>6 DEF n
  <2>8. n + 1 - j \in 1..n /\ (n + 1 - j) + k - 1 = i
    BY <1>1, <2>1, <2>7 DEF n
  <2>9. f[n + 1 - j] = b[i]
    BY <1>3, <2>8
  <2> QED
    BY <1>3, <2>2, <2>7, <2>9 DEF a
<1>6. ASSUME NEW i \in 1..n PROVE f[i] >= clock - Window
  <2>1. /\ k \in DOMAIN b /\ i + k - 1 \in DOMAIN b /\ k <= i + k - 1
        /\ f[i] = b[i + k - 1]
    BY <1>1, <1>3, SMTT(30) DEF n
  <2>2. b[k] <= b[i + k - 1] /\ b[k] >= clock - Window
    BY <1>0, <2>1 DEF Ordered
  <2> QED
    BY <1>1, <2>1, <2>2 DEF PushConstantsOK
<1> QED
  BY <1>3, <1>4, <1>5, <1>6 DEF f

\* What a release adds to a bucket.
LEMMA AppendedShape ==
  ASSUME clock \in Nat, NEW b \in Seq(Nat), NEW n \in Nat
  PROVE  /\ Appended(b, n) \in Seq(Nat) /\ Len(Appended(b, n)) = Len(b) + n
         /\ DOMAIN Appended(b, n) = 1..Len(b) + n
         /\ \A i \in 1..Len(b) + n :
              Appended(b, n)[i] = IF i <= Len(b) THEN b[i] ELSE clock
<1> DEFINE tail == [i \in 1..n |-> clock]
           g == Appended(b, n)
<1>1. Len(b) \in Nat
  OBVIOUS
<1>2. tail \in Seq(Nat) /\ Len(tail) = n /\ \A i \in 1..n : tail[i] = clock
  OBVIOUS
<1>3. g = b \o tail
  BY DEF Appended
<1> HIDE DEF tail, g
<1>4. /\ g \in Seq(Nat) /\ Len(g) = Len(b) + Len(tail)
      /\ \A i \in 1..Len(b) + Len(tail) :
           g[i] = IF i <= Len(b) THEN b[i] ELSE tail[i - Len(b)]
  BY <1>2, <1>3, ConcatProperties
<1>5. \A i \in 1..Len(b) + n : ~(i <= Len(b)) => i - Len(b) \in 1..n
  BY <1>1
<1>6. \A i \in 1..Len(b) + n : g[i] = IF i <= Len(b) THEN b[i] ELSE clock
  BY <1>1, <1>2, <1>4, <1>5
<1>7. g \in Seq(Nat) /\ Len(g) = Len(b) + n /\ DOMAIN g = 1..Len(b) + n
  BY <1>2, <1>4
<1> QED
  BY <1>6, <1>7 DEF g

\* What a release adds to the history.
Entry(n) == [at |-> clock, n |-> n, life |-> crashes]

\* A release adds entries to the bucket, at least one.
LEMMA AppendedFacts ==
  ASSUME PushConstantsOK, clock \in Nat, NEW b \in Seq(Nat), Ordered(b),
         NEW r \in Seq(Releases), Covered(b, r), NEW n \in Nat, n >= 1, crashes \in Nat
  PROVE  /\ Appended(b, n) \in Seq(Nat) /\ Ordered(Appended(b, n))
         /\ Append(r, Entry(n)) \in Seq(Releases)
         /\ Covered(Appended(b, n), Append(r, Entry(n)))
<1> DEFINE g == Appended(b, n)
           e == Entry(n)
           q == Append(r, e)
<1>1. /\ Len(b) \in Nat /\ Len(r) \in Nat /\ DOMAIN b = 1..Len(b)
      /\ \A i \in 1..Len(b) : b[i] \in Nat
  OBVIOUS
<1>3. /\ g \in Seq(Nat) /\ Len(g) = Len(b) + n
      /\ \A i \in 1..Len(b) + n : g[i] = IF i <= Len(b) THEN b[i] ELSE clock
  BY AppendedShape
<1>4. e \in Releases /\ e.at = clock
  BY DEF Releases, Entry
<1> HIDE DEF e, g
<1>5. /\ q \in Seq(Releases) /\ Len(q) = Len(r) + 1
      /\ \A i \in 1..Len(r) : q[i] = r[i]
      /\ q[Len(r) + 1] = e
  BY <1>4, AppendProperties
<1> HIDE DEF q
<1>6. DOMAIN g = 1..Len(b) + n
  BY <1>3
<1>7. Ordered(g)
  <2>1. \A i \in DOMAIN g : g[i] <= clock
    BY <1>1, <1>3, <1>6, SMTT(30) DEF Ordered
  <2>2. ASSUME NEW i \in DOMAIN g, NEW j \in DOMAIN g, i <= j PROVE g[i] <= g[j]
    <3>1. CASE j <= Len(b)
      BY <1>1, <1>3, <1>6, <2>2, <3>1 DEF Ordered
    <3>2. CASE ~(j <= Len(b))
      BY <1>1, <1>3, <1>6, <2>1, <2>2, <3>2
    <3> QED
      BY <3>1, <3>2
  <2> QED
    BY <2>1, <2>2 DEF Ordered
<1>8. Covered(g, q)
  <2> SUFFICES ASSUME NEW j \in 1..Len(q), ~Past(q[Len(q) + 1 - j])
               PROVE  j <= Len(g) /\ g[Len(g) + 1 - j] >= q[Len(q) + 1 - j].at
    BY DEF Covered
  <2>1. CASE j = 1
    <3>1. q[Len(q) + 1 - j].at = clock
      BY <1>1, <1>4, <1>5, <2>1
    <3>2. Len(g) + 1 - j = Len(b) + n
      BY <1>1, <1>3, <2>1
    <3>3. Len(b) + n \in 1..Len(b) + n /\ ~(Len(b) + n <= Len(b)) /\ j <= Len(b) + n
      BY <1>1, <2>1
    <3>4. g[Len(b) + n] = clock
      BY <1>3, <3>3
    <3> QED
      <4>1. j <= Len(g)
        BY <1>3, <3>3
      <4>2. g[Len(g) + 1 - j] = clock
        BY <3>2, <3>4
      <4> QED
        BY <3>1, <4>1, <4>2
  <2>2. CASE j # 1
    <3> DEFINE i == j - 1
               a == r[Len(r) + 1 - i].at
    <3>1. i \in 1..Len(r) /\ Len(r) + 1 - i \in 1..Len(r)
          /\ Len(q) + 1 - j = Len(r) + 1 - i
      BY <1>1, <1>5, <2>2
    <3>2. q[Len(q) + 1 - j].at = a /\ a \in Nat
      <4>1. r[Len(r) + 1 - i] \in Releases
        BY <3>1
      <4> QED
        BY <1>5, <3>1, <4>1 DEF Releases
    <3>3. i <= Len(b) /\ b[Len(b) + 1 - i] >= a
      <4>1. q[Len(q) + 1 - j] = r[Len(r) + 1 - i]
        BY <1>5, <3>1
      <4> QED
        BY <3>1, <3>2, <4>1 DEF Covered
    <3> HIDE DEF a
    <3>4. /\ Len(g) + 1 - j = Len(b) + n - i /\ Len(b) + n - i \in DOMAIN g
          /\ Len(b) + 1 - i \in DOMAIN g /\ Len(b) + 1 - i \in 1..Len(b)
          /\ Len(b) + 1 - i <= Len(b) + n - i
          /\ j <= Len(g)
      <4>1. i \in Nat /\ i >= 1 /\ i <= Len(b) /\ j = i + 1 /\ Len(g) = Len(b) + n
        BY <1>1, <1>3, <3>1, <3>3
      <4> HIDE DEF i
      <4> QED
        BY <1>1, <1>6, <4>1
    <3>5. g[Len(b) + 1 - i] = b[Len(b) + 1 - i]
      <4> DEFINE m == Len(b) + 1 - i
      <4>1. m \in 1..Len(b) /\ m \in 1..Len(b) + n /\ m <= Len(b)
        BY <1>1, <3>4
      <4> HIDE DEF m
      <4>2. g[m] = b[m]
        BY <1>3, <4>1
      <4> QED
        BY <4>2 DEF m
    <3>6. g[Len(b) + 1 - i] <= g[Len(b) + n - i]
      BY <1>7, <3>4 DEF Ordered
    <3>7. g[Len(b) + 1 - i] \in Nat /\ g[Len(b) + n - i] \in Nat
      <4>1. \A m \in DOMAIN g : g[m] \in Nat
        BY <1>3, SMTT(30)
      <4> QED
        BY <3>4, <4>1
    <3> HIDE DEF i
    <3>8. g[Len(b) + n - i] >= a
      BY <3>2, <3>3, <3>5, <3>6, <3>7
    <3> QED
      BY <3>2, <3>4, <3>8
  <2> QED
    BY <2>1, <2>2
<1> QED
  BY <1>3, <1>5, <1>7, <1>8 DEF q, e, g

\* A product grows with its second factor.
LEMMA MoreLives ==
  ASSUME NEW c \in Nat, NEW m \in Nat, NEW n \in Nat, m < n
  PROVE  c * m \in Nat /\ c * n \in Nat /\ c * n >= c * m + c
<1>1. PICK k \in Nat : n = m + 1 + k
  <2>1. n - m - 1 \in Nat /\ n = m + 1 + (n - m - 1)
    OBVIOUS
  <2> QED
    BY <2>1
<1> DEFINE x == c * m
           y == c * k
<1>2. x \in Nat /\ y \in Nat
  OBVIOUS
<1>3. c * n = x + c + y
  BY <1>1
<1> DEFINE z == c * n
<1>4. z = x + c + y
  BY <1>3
<1> HIDE DEF x, y, z
<1>5. z \in Nat /\ z >= x + c
  BY <1>2, <1>4
<1> QED
  BY <1>2, <1>5 DEF x, z

LEMMA OneLife ==
  ASSUME NEW c \in Nat, NEW n \in Nat, 0 < n
  PROVE  c * n \in Nat /\ c * n >= c
<1>1. c * 0 = 0
  OBVIOUS
<1>2. c * n \in Nat /\ c * n >= c * 0 + c
  BY MoreLives, Zenon
<1> QED
  BY <1>1, <1>2

\* A release that adds an entry is told last.
LEMMA ToldFacts ==
  ASSUME clock \in Nat, crashes \in Nat, NEW r \in Seq(Releases), Told(r), NEW n \in Nat
  PROVE  Told(Append(r, Entry(n)))
<1> DEFINE e == Entry(n)
           q == Append(r, e)
<1>1. e \in Releases /\ e.at = clock /\ e.life = crashes
  BY DEF Releases, Entry
<1> HIDE DEF e
<1>2. /\ q \in Seq(Releases) /\ Len(q) = Len(r) + 1 /\ Len(r) \in Nat
      /\ \A i \in 1..Len(r) : q[i] = r[i]
      /\ q[Len(r) + 1] = e
  BY <1>1, AppendProperties
<1>3. DOMAIN q = 1..Len(r) + 1 /\ DOMAIN r = 1..Len(r)
  BY <1>2
<1> HIDE DEF q
<1>4. \A i \in DOMAIN q : (i \in DOMAIN r /\ q[i] = r[i]) \/ (i = Len(r) + 1 /\ q[i] = e)
  <2> SUFFICES ASSUME NEW i \in 1..Len(r) + 1
               PROVE  (i \in DOMAIN r /\ q[i] = r[i]) \/ (i = Len(r) + 1 /\ q[i] = e)
    BY <1>3
  <2>1. CASE i \in 1..Len(r)
    BY <1>2, <1>3, <2>1
  <2>2. CASE i \notin 1..Len(r)
    <3>1. i = Len(r) + 1
      BY <1>2, <2>2
    <3> QED
      BY <1>2, <3>1
  <2> QED
    BY <2>1, <2>2
<1>5. \A i \in DOMAIN q : q[i].at <= clock /\ q[i].life <= crashes
  BY <1>1, <1>4 DEF Told
<1>6. ASSUME NEW i \in DOMAIN q, NEW j \in DOMAIN q, i <= j
      PROVE  q[i].at <= q[j].at /\ q[i].life <= q[j].life
  <2>1. CASE j = Len(r) + 1
    BY <1>1, <1>2, <1>5, <2>1
  <2>2. CASE j # Len(r) + 1
    <3>1. i \in DOMAIN r /\ j \in DOMAIN r /\ q[i] = r[i] /\ q[j] = r[j]
      BY <1>2, <1>3, <1>6, <2>2
    <3> QED
      BY <1>6, <3>1 DEF Told
  <2> QED
    BY <2>1, <2>2
<1> QED
  BY <1>5, <1>6 DEF Told, q, e

\* Of what was told, the release Threshold places back is past, because the
\* bucket is not full: past the window, or of an earlier life, whose own bound
\* then counts.
LEMMA LastApart ==
  ASSUME PushConstantsOK, clock \in Nat, crashes \in Nat,
         NEW b \in Seq(Nat), Len(b) < Threshold,
         NEW r \in Seq(Releases), Told(r), Covered(b, r), Spaced(r),
         NEW e \in Releases, e.at = clock, e.life = crashes, NEW i \in DOMAIN r
  PROVE  Apart(r[i], i, e, Len(r) + 1)
<1> DEFINE lives == e.life - r[i].life + 1
           k == Len(r) + 1 - Threshold
<1> SUFFICES ASSUME Len(r) + 1 >= i + Threshold * lives PROVE e.at - r[i].at > Window
  BY DEF Apart
<1>1. /\ Threshold \in Nat \ {0} /\ Window \in Nat /\ Len(r) \in Nat /\ Len(b) \in Nat
      /\ i \in 1..Len(r) /\ DOMAIN r = 1..Len(r)
  BY DEF PushConstantsOK
<1>2. /\ \A m \in DOMAIN r : r[m].at \in Nat /\ r[m].life \in Nat
      /\ \A m \in DOMAIN r : r[m].at <= clock /\ r[m].life <= crashes
  <2>1. \A m \in DOMAIN r : r[m] \in Releases
    OBVIOUS
  <2> QED
    BY <2>1 DEF Releases, Told
<1>3. lives \in Nat /\ 0 < lives /\ lives = crashes - r[i].life + 1
  BY <1>1, <1>2
<1> DEFINE all == Threshold * lives
<1> HIDE DEF lives
<1>4. all \in Nat /\ all >= Threshold
  BY <1>1, <1>3, OneLife
<1>5. Len(r) + 1 >= i + all
  BY DEF lives
<1> HIDE DEF all
<1>6. k \in 1..Len(r) /\ Threshold \in 1..Len(r) /\ i <= k /\ Len(r) + 1 = k + Threshold
  BY <1>1, <1>4, <1>5
<1>7. Past(r[k])
  <2>1. Past(r[Len(r) + 1 - Threshold]) \/ Threshold <= Len(b)
    BY <1>6 DEF Covered
  <2> QED
    BY <1>1, <2>1
<1> HIDE DEF k
<1>8. /\ r[i].at <= r[k].at /\ r[i].life <= r[k].life
      /\ r[i].at \in Nat /\ r[k].at \in Nat /\ r[i].life \in Nat /\ r[k].life \in Nat
      /\ r[k].at <= clock
  BY <1>1, <1>2, <1>6 DEF Told
<1>9. CASE r[k].at < clock - Window
  BY <1>1, <1>8, <1>9
<1>10. CASE r[k].life < crashes
  <2> DEFINE m == r[k].life - r[i].life + 1
             most == Threshold * m
  <2>1. m \in Nat /\ m < lives /\ 0 < m
    <3> DEFINE x == r[i].life
               y == r[k].life
    <3>1. x \in Nat /\ y \in Nat /\ x <= y /\ y < crashes
          /\ lives = crashes - x + 1 /\ m = y - x + 1
      BY <1>3, <1>8, <1>10
    <3> HIDE DEF x, y, m
    <3> QED
      BY <3>1
  <2> HIDE DEF m
  <2>2. most \in Nat /\ all >= most + Threshold
    BY <1>1, <1>3, <2>1, MoreLives DEF all
  <2>3. most >= Threshold
    BY <1>1, <2>1, OneLife
  <2>4. k >= i + Threshold * m
    <3> HIDE DEF most
    <3>1. k >= i + most
      BY <1>1, <1>4, <1>5, <1>6, <2>2
    <3> QED
      BY <3>1 DEF most
  <2>5. k \in i + 1..Len(r)
    <3> HIDE DEF most
    <3> QED
      BY <1>1, <1>4, <1>5, <1>6, <2>2, <2>3
  <2>6. Apart(r[i], i, r[k], k)
    BY <1>1, <2>5 DEF Spaced
  <2>7. r[k].at - r[i].at > Window
    BY <2>4, <2>6 DEF Apart, m
  <2> QED
    BY <1>1, <1>8, <2>7
<1> QED
  BY <1>7, <1>9, <1>10 DEF Past

\* So the releases stay apart.
LEMMA SpacedFacts ==
  ASSUME PushConstantsOK, clock \in Nat, crashes \in Nat,
         NEW b \in Seq(Nat), Len(b) < Threshold,
         NEW r \in Seq(Releases), Told(r), Covered(b, r), Spaced(r), NEW n \in Nat
  PROVE  Spaced(Append(r, Entry(n)))
<1> DEFINE e == Entry(n)
           q == Append(r, e)
<1>1. e \in Releases /\ e.at = clock /\ e.life = crashes
  BY DEF Releases, Entry
<1> HIDE DEF e
<1>2. /\ q \in Seq(Releases) /\ Len(q) = Len(r) + 1 /\ Len(r) \in Nat
      /\ \A i \in 1..Len(r) : q[i] = r[i]
      /\ q[Len(r) + 1] = e
  BY <1>1, AppendProperties
<1>3. DOMAIN q = 1..Len(r) + 1 /\ DOMAIN r = 1..Len(r)
  BY <1>2
<1> HIDE DEF q
<1>4. ASSUME NEW i \in DOMAIN q, NEW j \in i + 1..Len(q) PROVE Apart(q[i], i, q[j], j)
  <2>1. i \in DOMAIN r /\ q[i] = r[i]
    BY <1>2, <1>3
  <2>2. CASE j = Len(r) + 1
    BY <1>1, <1>2, <2>1, <2>2, LastApart
  <2>3. CASE j # Len(r) + 1
    <3>1. j \in i + 1..Len(r) /\ q[j] = r[j]
      BY <1>2, <1>3, <2>3
    <3> QED
      BY <2>1, <3>1 DEF Spaced
  <2> QED
    BY <2>2, <2>3
<1> QED
  BY <1>4 DEF Spaced, q, e

\* A ticker a message names is named at least once.
LEMMA TimesFacts ==
  ASSUME job.tickers \in Seq(Tickers), NEW t \in Named
  PROVE  t \in Tickers /\ Times(t) \in Nat /\ Times(t) >= 1
<1> DEFINE I == {i \in DOMAIN job.tickers : job.tickers[i] = t}
<1>1. DOMAIN job.tickers = 1..Len(job.tickers) /\ Len(job.tickers) \in Nat
  OBVIOUS
<1>2. IsFiniteSet(I)
  <2>1. IsFiniteSet(1..Len(job.tickers))
    BY <1>1, FS_Interval
  <2> QED
    BY <1>1, <2>1, FS_Subset
<1>3. I # {} /\ t \in Tickers
  BY <1>1 DEF Named, ToSet
<1>4. Cardinality(I) \in Nat /\ Cardinality(I) # 0
  BY <1>2, <1>3, FS_CardinalityType, FS_EmptySet
<1> QED
  BY <1>3, <1>4 DEF Times

-----------------------------------------------------------------------------
(* The steps towards the burst bound *)

\* Empty buckets and no releases, as at the start of a process.
LEMMA EmptyBuckets ==
  ASSUME NEW t \in Tickers, bucket[t] = <<>>, released[t] = <<>>
  PROVE  BurstOK(t)
<1>1. Len(bucket[t]) = 0 /\ DOMAIN bucket[t] = {} /\ Len(released[t]) = 0
      /\ DOMAIN released[t] = {}
  OBVIOUS
<1>2. 1..Len(released[t]) = {}
  BY <1>1
<1> QED
  BY <1>1, <1>2 DEF BurstOK, Ordered, Told, Covered, Spaced

LEMMA InitBurst ==
  ASSUME PushConstantsOK, Init
  PROVE  BurstInv
<1>1. BurstType
  BY DEF Init, BurstType, Idle
<1>2. ASSUME NEW t \in Tickers PROVE BurstOK(t)
  <2>1. bucket[t] = <<>> /\ released[t] = <<>>
    BY DEF Init
  <2> QED
    BY <2>1, EmptyBuckets
<1> QED
  BY <1>1, <1>2 DEF BurstInv

\* A restart empties the buckets, and all releases are of earlier lives then.
LEMMA CrashBurst ==
  ASSUME PushConstantsOK, BurstInv, Crash
  PROVE  BurstInv'
<1>1. /\ bucket' = [t \in Tickers |-> <<>>] /\ released' = released
      /\ clock' = clock /\ job' = Idle
      /\ crashes' = crashes + 1 /\ crashes \in Nat
  BY DEF Crash, BurstInv, BurstType
<1>2. BurstType'
  BY <1>1 DEF BurstInv, BurstType, Idle
<1>3. ASSUME NEW t \in Tickers PROVE BurstOK(t)'
  <2> DEFINE r == released[t]
  <2>1. bucket'[t] = <<>> /\ released'[t] = r
    BY <1>1
  <2>2. DOMAIN bucket'[t] = {}
    BY <2>1
  <2>3. r \in Seq(Releases) /\ Told(r) /\ Spaced(r)
    BY DEF BurstInv, BurstType, BurstOK
  <2>4. \A i \in DOMAIN r : r[i].life \in Nat /\ r[i].life <= crashes
    <3>1. \A i \in DOMAIN r : r[i] \in Releases
      BY <2>3
    <3> QED
      BY <2>3, <3>1 DEF Releases, Told
  <2> HIDE DEF r
  <2>5. Told(r)'
    BY <1>1, <2>3, <2>4 DEF Told, r
  <2>6. \A j \in 1..Len(r) : Len(r) + 1 - j \in DOMAIN r
    BY <2>3
  <2>7. \A j \in 1..Len(r) : r[Len(r) + 1 - j].life < crashes'
    BY <1>1, <2>4, <2>6
  <2>8. Covered(bucket[t], released[t])'
    BY <2>1, <2>7 DEF Covered, Past
  <2>9. Spaced(released[t])'
    BY <2>1, <2>3 DEF Spaced, Apart
  <2> QED
    BY <1>1, <2>1, <2>2, <2>5, <2>8, <2>9 DEF BurstOK, Ordered, r
<1> QED
  BY <1>2, <1>3 DEF BurstInv

LEMMA TickBurst ==
  ASSUME PushConstantsOK, BurstInv, Tick
  PROVE  BurstInv'
<1>1. /\ clock \in Nat /\ clock' = clock + 1 /\ Window \in Nat
      /\ UNCHANGED <<bucket, released, job, crashes>>
  BY DEF Tick, memory, history, BurstInv, BurstType, PushConstantsOK
<1>2. BurstType'
  BY <1>1 DEF BurstInv, BurstType
<1>3. ASSUME NEW t \in Tickers PROVE BurstOK(t)'
  <2>1. /\ BurstOK(t) /\ bucket[t] \in Seq(Nat) /\ released[t] \in Seq(Releases)
    BY DEF BurstInv, BurstType
  <2>2. Ordered(bucket[t])'
    <3>1. \A i \in DOMAIN bucket[t] : bucket[t][i] \in Nat
      BY <2>1
    <3> QED
      BY <1>1, <2>1, <3>1 DEF BurstOK, Ordered
  <2>3. Covered(bucket[t], released[t])'
    <3> DEFINE r == released[t]
    <3>1. ASSUME NEW j \in 1..Len(r) PROVE r[Len(r) + 1 - j].at \in Nat
      <4>1. Len(r) + 1 - j \in 1..Len(r)
        OBVIOUS
      <4>2. r[Len(r) + 1 - j] \in Releases
        BY <2>1, <4>1
      <4> QED
        BY <4>2 DEF Releases
    <3>2. \A a \in Nat : a < clock - Window => a < clock' - Window
      BY <1>1
    <3> QED
      BY <1>1, <2>1, <3>1, <3>2 DEF BurstOK, Covered, Past
  <2>4. Spaced(released[t])'
    BY <1>1, <2>1 DEF BurstOK, Spaced, Apart
  <2>5. Told(released[t])'
    <3>1. \A i \in DOMAIN released[t] : released[t][i] \in Releases
      BY <2>1
    <3> QED
      BY <1>1, <2>1, <3>1 DEF BurstOK, Told, Releases
  <2> QED
    BY <2>2, <2>3, <2>4, <2>5 DEF BurstOK
<1> QED
  BY <1>2, <1>3 DEF BurstInv

\* A step that leaves the buckets alone.
LEMMA FrameBurst ==
  ASSUME BurstInv, job'.tickers \in Seq(Tickers),
         UNCHANGED <<clock, bucket, released, crashes>>
  PROVE  BurstInv'
<1>1. BurstType'
  BY DEF BurstInv, BurstType
<1>2. \A t \in Tickers : BurstOK(t)'
  BY DEF BurstInv, BurstOK, Ordered, Told, Covered, Past, Spaced, Apart
<1> QED
  BY <1>1, <1>2 DEF BurstInv

\* The buckets when should_send has expired the old entries.
LEMMA ExpiredFacts ==
  ASSUME PushConstantsOK, BurstInv, NEW t \in Tickers
  PROVE  /\ Expired[t] \in Seq(Nat) /\ Ordered(Expired[t])
         /\ Covered(Expired[t], released[t])
<1>1. /\ clock \in Nat /\ bucket[t] \in Seq(Nat) /\ released[t] \in Seq(Releases)
      /\ Ordered(bucket[t]) /\ Covered(bucket[t], released[t])
  BY DEF BurstInv, BurstType, BurstOK
<1>2. Expired[t] = IF t \in Named THEN Fresh(bucket[t]) ELSE bucket[t]
  BY DEF Expired
<1> QED
  BY <1>1, <1>2, FreshFacts

LEMMA SuppressBurst ==
  ASSUME PushConstantsOK, BurstInv, Suppress
  PROVE  BurstInv'
<1>1. /\ bucket' = Expired /\ UNCHANGED <<clock, released, crashes>>
      /\ job'.tickers \in Seq(Tickers)
  BY DEF Suppress, AfterRefusal, PlansLeft, Idle, history, BurstInv, BurstType
<1>2. \A t \in Tickers : /\ Expired[t] \in Seq(Nat) /\ Ordered(Expired[t])
                         /\ Covered(Expired[t], released[t])
  BY ExpiredFacts
<1>3. BurstType'
  <2>1. Expired \in [Tickers -> Seq(Nat)]
    BY <1>2 DEF Expired
  <2> QED
    BY <1>1, <2>1 DEF BurstInv, BurstType
<1>4. ASSUME NEW t \in Tickers PROVE BurstOK(t)'
  <2>1. Ordered(bucket[t])'
    BY <1>1, <1>2 DEF Ordered
  <2>2. Covered(bucket[t], released[t])'
    BY <1>1, <1>2 DEF Covered, Past
  <2>3. Told(released[t])' /\ Spaced(released[t])'
    BY <1>1 DEF BurstInv, BurstOK, Told, Spaced, Apart
  <2> QED
    BY <2>1, <2>2, <2>3 DEF BurstOK
<1> QED
  BY <1>3, <1>4 DEF BurstInv

LEMMA ReleaseBurst ==
  ASSUME PushConstantsOK, BurstInv, Release
  PROVE  BurstInv'
<1>1. /\ clock \in Nat /\ clock' = clock /\ crashes \in Nat /\ crashes' = crashes
      /\ job.tickers \in Seq(Tickers)
      /\ job'.tickers = job.tickers
      /\ bucket' = [t \in Tickers |-> Appended(Expired[t], Times(t))]
      /\ released' = [t \in Tickers |-> IF t \notin Named THEN released[t]
                                        ELSE Append(released[t], Entry(Times(t)))]
      /\ \A t \in Named : ~Full(t)
  BY DEF Release, Entry, BurstInv, BurstType
<1>2. ASSUME NEW t \in Tickers
      PROVE  /\ bucket'[t] \in Seq(Nat) /\ released'[t] \in Seq(Releases)
             /\ Ordered(bucket'[t]) /\ Covered(bucket'[t], released'[t])
             /\ Told(released'[t]) /\ Spaced(released'[t])
  <2>1. /\ released[t] \in Seq(Releases) /\ Told(released[t]) /\ Spaced(released[t])
        /\ Expired[t] \in Seq(Nat) /\ Ordered(Expired[t])
        /\ Covered(Expired[t], released[t])
    BY ExpiredFacts DEF BurstInv, BurstType, BurstOK
  <2>2. CASE t \in Named
    <3>1. Times(t) \in Nat /\ Times(t) >= 1
      BY <1>1, <2>2, TimesFacts
    <3>2. Len(Expired[t]) < Threshold
      BY <1>1, <2>1, <2>2 DEF Full, PushConstantsOK
    <3>3. bucket'[t] = Appended(Expired[t], Times(t))
          /\ released'[t] = Append(released[t], Entry(Times(t)))
      BY <1>1, <2>2
    <3> QED
      BY <1>1, <2>1, <3>1, <3>2, <3>3, AppendedFacts, ToldFacts,
         SpacedFacts
  <2>3. CASE t \notin Named
    <3>1. Times(t) = 0
      <4>1. {i \in DOMAIN job.tickers : job.tickers[i] = t} = {}
        BY <2>3 DEF Named, ToSet
      <4> QED
        BY <4>1, FS_EmptySet DEF Times
    <3>2. bucket'[t] = Expired[t]
      <4>1. bucket'[t] = Appended(Expired[t], 0)
        BY <1>1, <3>1
      <4>2. [i \in 1..0 |-> clock] = <<>>
        OBVIOUS
      <4> QED
        BY <2>1, <4>1, <4>2, ConcatEmptySeq DEF Appended
    <3>3. released'[t] = released[t]
      BY <1>1, <2>3
    <3> QED
      BY <2>1, <3>2, <3>3
  <2> QED
    BY <2>2, <2>3
<1>3. BurstType'
  <2>1. bucket' \in [Tickers -> Seq(Nat)]
    BY <1>1, <1>2
  <2>2. released' \in [Tickers -> Seq(Releases)]
    <3> QED
      BY <1>1, <1>2
  <2> QED
    BY <1>1, <2>1, <2>2 DEF BurstType
<1>4. ASSUME NEW t \in Tickers PROVE BurstOK(t)'
  <2>1. Ordered(bucket[t])'
    BY <1>1, <1>2 DEF Ordered
  <2>2. Covered(bucket[t], released[t])'
    BY <1>1, <1>2 DEF Covered, Past
  <2>3. Told(released[t])' /\ Spaced(released[t])'
    BY <1>1, <1>2 DEF Told, Spaced, Apart
  <2> QED
    BY <2>1, <2>2, <2>3 DEF BurstOK
<1> QED
  BY <1>3, <1>4 DEF BurstInv

LEMMA NextBurst ==
  ASSUME PushConstantsOK, BurstInv, [Next]_vars
  PROVE  BurstInv'
<1> USE DEF memory, history
<1>1. job.tickers \in Seq(Tickers)
  BY DEF BurstInv, BurstType
<1>2. CASE UNCHANGED vars
  BY <1>1, <1>2, FrameBurst DEF vars
<1>3. CASE Tick \/ Crash \/ Suppress \/ Release
  BY <1>3, TickBurst, CrashBurst, SuppressBurst, ReleaseBurst
<1>4. CASE AlertJob \/ AlertMissed
  BY <1>1, <1>4, FrameBurst DEF AlertJob, AlertMissed
<1>5. ASSUME NEW m \in Messages, Take(m) PROVE BurstInv'
  <2>1. job'.tickers = m.tickers /\ UNCHANGED <<clock, bucket, released, crashes>>
    BY <1>5 DEF Take
  <2> QED
    BY <2>1, FrameBurst DEF PushConstantsOK
<1>6. CASE Gather \/ PlanDone \/ \E c \in Channels : WriteLog(c)
  <2>1. job'.tickers \in Seq(Tickers) /\ UNCHANGED <<clock, bucket, released, crashes>>
    <3>1. CASE Gather
      BY <1>1, <3>1 DEF Gather
    <3>2. CASE PlanDone
      BY <1>1, <3>2 DEF PlanDone, PlansLeft, Idle
    <3>3. ASSUME NEW c \in Channels, WriteLog(c)
          PROVE  job'.tickers \in Seq(Tickers) /\ UNCHANGED <<clock, bucket, released, crashes>>
      BY <1>1, <3>3 DEF WriteLog
    <3> QED
      BY <1>6, <3>1, <3>2, <3>3
  <2> QED
    BY <2>1, FrameBurst
<1>7. CASE \E c \in Channels : Answer(c)
  <2>1. UNCHANGED <<clock, bucket, released, crashes, job>>
    BY <1>7 DEF Answer, Accepted, Refused, Raises, Fails, PostStep
  <2> QED
    BY <1>1, <2>1, FrameBurst
<1> QED
  BY <1>2, <1>3, <1>4, <1>5, <1>6, <1>7 DEF Next, Push

-----------------------------------------------------------------------------
(* The entries of the buckets and the mentions they stand for *)

LEMMA MentionFacts ==
  ASSUME NEW r \in Seq(Releases)
  PROVE  /\ \A i \in Own(r) : \A k \in 1..r[i].n : <<i, k>> \in Mentions(r)
         /\ \A m \in Mentions(r) : m[1] \in DOMAIN r
         /\ IsFiniteSet(Mentions(r))
<1> DEFINE Of(i) == {i} \X (1..r[i].n)
           S == {Of(i) : i \in Own(r)}
<1>1. \A i \in Own(r) : \A k \in 1..r[i].n : <<i, k>> \in Mentions(r)
  <2> SUFFICES ASSUME NEW i \in Own(r), NEW k \in 1..r[i].n
               PROVE  \E T \in S : <<i, k>> \in T
    BY DEF Mentions
  <2>1. Of(i) \in S /\ <<i, k>> \in Of(i)
    OBVIOUS
  <2> QED
    BY <2>1
<1>2. \A m \in Mentions(r) : m[1] \in DOMAIN r
  BY DEF Mentions, Own
<1>3. IsFiniteSet(S)
  <2> DEFINE f == [i \in Own(r) |-> Of(i)]
  <2>1. f \in Surjection(Own(r), S)
    <3>1. f \in [Own(r) -> S]
      OBVIOUS
    <3>2. \A T \in S : \E i \in Own(r) : f[i] = T
      OBVIOUS
    <3> QED
      BY <3>1, <3>2 DEF Surjection
  <2>2. IsFiniteSet(Own(r))
    <3>1. DOMAIN r = 1..Len(r) /\ Len(r) \in Nat
      OBVIOUS
    <3>2. IsFiniteSet(DOMAIN r) /\ Own(r) \subseteq DOMAIN r
      BY <3>1, FS_Interval DEF Own
    <3> QED
      BY <3>2, FS_Subset
  <2> HIDE DEF f, S
  <2> QED
    BY <2>1, <2>2, FS_Surjection
<1>4. \A T \in S : IsFiniteSet(T)
  <2> SUFFICES ASSUME NEW i \in DOMAIN r PROVE IsFiniteSet(Of(i))
    BY DEF Own
  <2>1. r[i].n \in Nat
    <3>1. r[i] \in Releases
      OBVIOUS
    <3> QED
      BY <3>1 DEF Releases
  <2>2. IsFiniteSet({i})
    BY FS_Singleton
  <2>3. IsFiniteSet(1..r[i].n)
    BY <2>1, FS_Interval
  <2> QED
    BY <2>2, <2>3, FS_Product
<1>5. IsFiniteSet(UNION S)
  <2> HIDE DEF S
  <2> QED
    BY <1>3, <1>4, FS_UNION
<1> QED
  BY <1>1, <1>2, <1>5 DEF Mentions

\* The entries that expiry leaves stand for the mentions they stood for.
LEMMA FreshMatched ==
  ASSUME PushConstantsOK, clock \in Nat, NEW b \in Seq(Nat), NEW r, Matched(b, r)
  PROVE  Matched(Fresh(b), r)
<1>0. PICK k \in 1..Len(b) + 1 :
           /\ DOMAIN Fresh(b) = 1..Len(b) + 1 - k
           /\ \A i \in 1..Len(b) + 1 - k :
                Fresh(b)[i] = b[i + k - 1] /\ i + k - 1 \in 1..Len(b)
  BY FreshShape
<1>1. PICK g \in [DOMAIN b -> Mentions(r)] : Matching(g, b, r)
  BY DEF Matched
<1> DEFINE f == Fresh(b)
           h == [i \in DOMAIN f |-> g[i + k - 1]]
<1>2. Len(b) \in Nat /\ k \in Int /\ DOMAIN b = 1..Len(b)
  OBVIOUS
<1>3. \A i \in DOMAIN f : i \in Int /\ i + k - 1 \in DOMAIN b /\ f[i] = b[i + k - 1]
  BY <1>0, <1>2
<1> HIDE DEF f
<1>4. h \in [DOMAIN f -> Mentions(r)]
  BY <1>3
<1>5. Matching(h, f, r)
  <2>1. ASSUME NEW i \in DOMAIN f, NEW j \in DOMAIN f, h[i] = h[j] PROVE i = j
    <3>1. i + k - 1 = j + k - 1
      BY <1>1, <1>3, <2>1 DEF Matching
    <3> QED
      BY <1>2, <1>3, <3>1
  <2>2. ASSUME NEW i \in DOMAIN f PROVE r[h[i][1]].at = f[i]
    BY <1>1, <1>3 DEF Matching
  <2> QED
    BY <2>1, <2>2 DEF Matching
<1> QED
  BY <1>4, <1>5 DEF Matched, f

\* The entries a release adds stand for its mentions.
LEMMA AppendedMatched ==
  ASSUME clock \in Nat, NEW b \in Seq(Nat), NEW r \in Seq(Releases), Matched(b, r),
         NEW n \in Nat, crashes \in Nat
  PROVE  Matched(Appended(b, n), Append(r, Entry(n)))
<1>1. PICK g \in [DOMAIN b -> Mentions(r)] : Matching(g, b, r)
  BY DEF Matched
<1> DEFINE e == Entry(n)
           q == Append(r, e)
           a == Appended(b, n)
           h == [i \in DOMAIN a |-> IF i <= Len(b) THEN g[i] ELSE <<Len(r) + 1, i - Len(b)>>]
<1>2. /\ Len(b) \in Nat /\ DOMAIN b = 1..Len(b) /\ DOMAIN a = 1..Len(b) + n
      /\ \A i \in 1..Len(b) + n : a[i] = IF i <= Len(b) THEN b[i] ELSE clock
  <2>1. Len(b) \in Nat /\ DOMAIN b = 1..Len(b)
    OBVIOUS
  <2> HIDE DEF h
  <2> QED
    BY <2>1, AppendedShape
<1>3. e \in Releases /\ e.at = clock /\ e.n = n /\ e.life = crashes
  BY DEF Releases, Entry
<1> HIDE DEF e, a
<1>4. /\ q \in Seq(Releases) /\ Len(q) = Len(r) + 1 /\ Len(r) \in Nat
      /\ \A i \in 1..Len(r) : q[i] = r[i]
      /\ q[Len(r) + 1] = e
  BY <1>3, AppendProperties
<1> HIDE DEF q
<1>5. DOMAIN q = 1..Len(r) + 1 /\ DOMAIN r = 1..Len(r)
  BY <1>4
<1>6. Mentions(r) \subseteq Mentions(q)
  <2>1. \A i \in Own(r) : i \in Own(q) /\ q[i] = r[i]
    BY <1>4, <1>5 DEF Own
  <2> QED
    BY <2>1 DEF Mentions
<1>7. \A k \in 1..n : <<Len(r) + 1, k>> \in Mentions(q)
  <2>1. Len(r) + 1 \in Own(q)
    BY <1>3, <1>4, <1>5 DEF Own
  <2> QED
    BY <1>3, <1>4, <2>1, MentionFacts
<1>8. \A i \in DOMAIN a : IF i <= Len(b) THEN i \in DOMAIN b ELSE i - Len(b) \in 1..n
  BY <1>2
<1>9. h \in [DOMAIN a -> Mentions(q)]
  BY <1>6, <1>7, <1>8
<1>10. \A i \in DOMAIN b : g[i][1] \in 1..Len(r)
  BY <1>5, MentionFacts
<1>11. \A i \in DOMAIN a : h[i] = IF i <= Len(b) THEN g[i] ELSE <<Len(r) + 1, i - Len(b)>>
  OBVIOUS
<1>12. \A i \in DOMAIN a : h[i][1] <= Len(r) <=> i <= Len(b)
  <2> SUFFICES ASSUME NEW i \in DOMAIN a PROVE h[i][1] <= Len(r) <=> i <= Len(b)
    OBVIOUS
  <2>1. CASE i <= Len(b)
    BY <1>4, <1>8, <1>10, <1>11, <2>1
  <2>2. CASE ~(i <= Len(b))
    BY <1>4, <1>11, <2>2
  <2> QED
    BY <2>1, <2>2
<1> HIDE DEF h
<1>13. Matching(h, a, q)
  <2>1. ASSUME NEW i \in DOMAIN a, NEW j \in DOMAIN a, h[i] = h[j] PROVE i = j
    <3>1. i <= Len(b) <=> j <= Len(b)
      BY <1>12, <2>1
    <3>2. CASE i <= Len(b)
      BY <1>1, <1>8, <1>11, <2>1, <3>1, <3>2 DEF Matching
    <3>3. CASE ~(i <= Len(b))
      <4>1. h[i] = <<Len(r) + 1, i - Len(b)>> /\ h[j] = <<Len(r) + 1, j - Len(b)>>
        BY <1>11, <3>1, <3>3
      <4>2. h[i][2] = i - Len(b) /\ h[j][2] = j - Len(b)
        BY <4>1
      <4>3. i - Len(b) = j - Len(b)
        BY <2>1, <4>2
      <4> QED
        BY <1>2, <4>3
    <3> QED
      BY <3>2, <3>3
  <2>2. ASSUME NEW i \in DOMAIN a PROVE q[h[i][1]].at = a[i]
    <3>1. CASE i <= Len(b)
      <4>1. h[i] = g[i] /\ i \in DOMAIN b /\ a[i] = b[i] /\ g[i][1] \in 1..Len(r)
        BY <1>2, <1>8, <1>10, <1>11, <3>1
      <4> QED
        BY <1>1, <1>4, <4>1 DEF Matching
    <3>2. CASE ~(i <= Len(b))
      <4>1. h[i] = <<Len(r) + 1, i - Len(b)>> /\ a[i] = clock
        BY <1>2, <1>11, <3>2
      <4> QED
        BY <1>3, <1>4, <4>1
    <3> QED
      BY <3>1, <3>2
  <2> QED
    BY <2>1, <2>2 DEF Matching
<1> QED
  BY <1>9, <1>13 DEF Matched, a, q, e

\* A bucket that is full after expiry stands for that many recent mentions.
LEMMA FullMeansRecent ==
  ASSUME PushConstantsOK, MatchInv, NEW t \in Named, Full(t)
  PROVE  Recent(t) >= Threshold
<1> DEFINE b == bucket[t]
           r == released[t]
           f == Fresh(b)
           R == {m \in Mentions(r) : r[m[1]].at >= clock - Window}
<1>1. /\ t \in Tickers /\ clock \in Nat /\ b \in Seq(Nat) /\ r \in Seq(Releases)
      /\ Ordered(b) /\ Covered(b, r) /\ Matched(b, r) /\ Threshold \in Nat
  BY TimesFacts DEF MatchInv, BurstInv, BurstType, BurstOK, PushConstantsOK
<1>2. /\ f \in Seq(Nat) /\ \A i \in DOMAIN f : f[i] >= clock - Window
      /\ Matched(f, r)
  BY <1>1, FreshFacts, FreshMatched
<1>3. Len(f) >= Threshold
  BY <1>1 DEF Full, Expired
<1> HIDE DEF f, R
<1>4. PICK g \in [DOMAIN f -> Mentions(r)] : Matching(g, f, r)
  BY <1>2 DEF Matched
<1>5. g \in Injection(DOMAIN f, R)
  <2>1. \A i \in DOMAIN f : g[i] \in R
    BY <1>2, <1>4 DEF Matching, R
  <2>2. g \in [DOMAIN f -> R]
    BY <1>4, <2>1
  <2> QED
    BY <1>4, <2>2 DEF Matching, Injection, IsInjective
<1>6. IsFiniteSet(R)
  BY <1>1, MentionFacts, FS_Subset DEF R
<1>7. Cardinality(DOMAIN f) <= Cardinality(R) /\ Cardinality(R) \in Nat
  BY <1>5, <1>6, FS_Injection, FS_CardinalityType
<1>8. Cardinality(DOMAIN f) = Len(f) /\ Len(f) \in Nat
  <2>1. DOMAIN f = 1..Len(f) /\ Len(f) \in Nat
    BY <1>2
  <2>2. \A k \in Nat : Cardinality(1..k) = k
    BY FS_Interval
  <2> QED
    BY <2>1, <2>2
<1>9. Cardinality(R) >= Threshold
  BY <1>1, <1>3, <1>7, <1>8
<1> QED
  BY <1>9 DEF Recent, R

LEMMA InitMatch ==
  ASSUME PushConstantsOK, Init
  PROVE  MatchInv
<1>1. BurstInv /\ crashes \in Nat /\ "pc" \in DOMAIN job
  BY InitBurst DEF Init, Idle
<1>2. ASSUME NEW t \in Tickers PROVE Matched(bucket[t], released[t])
  <2>1. bucket[t] = <<>>
    BY DEF Init
  <2>2. DOMAIN bucket[t] = {}
    BY <2>1
  <2>3. [i \in {} |-> <<1, 1>>] \in [DOMAIN bucket[t] -> Mentions(released[t])]
    BY <2>2
  <2> QED
    BY <2>2, <2>3 DEF Matched, Matching
<1> QED
  BY <1>1, <1>2 DEF MatchInv

LEMMA NextMatch ==
  ASSUME PushConstantsOK, MatchInv, [Next]_vars
  PROVE  MatchInv'
<1> USE DEF memory, history
<1>1. BurstInv'
  BY NextBurst DEF MatchInv
<1>2. crashes' \in Nat /\ "pc" \in DOMAIN job'
  <2>1. crashes \in Nat /\ "pc" \in DOMAIN job
    BY DEF MatchInv
  <2>2. crashes' = crashes \/ crashes' = crashes + 1
    BY DEF Next, Push, Tick, Crash, AlertJob, AlertMissed, Take, Suppress, Release,
           Gather, PlanDone, WriteLog, Answer, Accepted, Refused, Raises, Fails,
           PostStep, vars
  <2>3. \/ job' = job \/ job' = Idle
        \/ \E pc, tickers, plans : job' = [pc |-> pc, tickers |-> tickers, plans |-> plans]
        \/ \E pc : job' = [job EXCEPT !.pc = pc]
    BY DEF Next, Push, Tick, Crash, AlertJob, AlertMissed, Take, Suppress, Release,
           Gather, PlanDone, PlansLeft, WriteLog, Answer, Accepted, Refused, Raises,
           Fails, PostStep, vars
  <2> QED
    BY <2>1, <2>2, <2>3 DEF Idle
<1>3. ASSUME NEW t \in Tickers PROVE Matched(bucket[t], released[t])'
  <2>1. /\ clock \in Nat /\ bucket[t] \in Seq(Nat) /\ released[t] \in Seq(Releases)
        /\ Matched(bucket[t], released[t]) /\ job.tickers \in Seq(Tickers)
    BY DEF MatchInv, BurstInv, BurstType
  <2>2. Expired[t] \in Seq(Nat) /\ Matched(Expired[t], released[t])
    BY <2>1, FreshMatched, FreshShape DEF Expired
  <2>3. CASE UNCHANGED <<bucket, released, crashes>>
    BY <2>1, <2>3 DEF Matched, Matching, Mentions, Own
  <2>4. CASE Crash
    <3>1. bucket'[t] = <<>>
      BY <2>4 DEF Crash
    <3>2. DOMAIN bucket'[t] = {}
      BY <3>1
    <3>3. [i \in {} |-> <<1, 1>>] \in [DOMAIN bucket'[t] -> Mentions(released'[t])]
      BY <3>2
    <3> QED
      BY <3>2, <3>3 DEF Matched, Matching
  <2>5. CASE Suppress
    <3>1. bucket' = Expired /\ released' = released /\ crashes' = crashes
      BY <2>5 DEF Suppress, AfterRefusal
    <3> QED
      BY <2>2, <3>1 DEF Matched, Matching, Mentions, Own
  <2>6. CASE Release
    <3> DEFINE e == Entry(Times(t))
    <3>1. /\ bucket'[t] = Appended(Expired[t], Times(t)) /\ crashes' = crashes
          /\ released'[t] = IF t \notin Named THEN released[t] ELSE Append(released[t], e)
      BY <2>6 DEF Release, Entry
    <3>2. CASE t \in Named
      <4>1. Times(t) \in Nat
        BY <2>1, <3>2, TimesFacts
      <4>2. Matched(Appended(Expired[t], Times(t)), Append(released[t], e))
        BY <1>2, <2>1, <2>2, <4>1, AppendedMatched DEF MatchInv
      <4> QED
        BY <3>1, <3>2, <4>2 DEF Matched, Matching, Mentions, Own
    <3>3. CASE t \notin Named
      <4>1. Times(t) = 0
        <5>1. {i \in DOMAIN job.tickers : job.tickers[i] = t} = {}
          BY <3>3 DEF Named, ToSet
        <5> QED
          BY <5>1, FS_EmptySet DEF Times
      <4>2. bucket'[t] = Appended(Expired[t], 0)
        BY <3>1, <4>1
      <4>3. [i \in 1..0 |-> clock] = <<>>
        OBVIOUS
      <4>4. bucket'[t] = Expired[t]
        BY <2>2, <4>2, <4>3, ConcatEmptySeq DEF Appended
      <4> QED
        BY <2>2, <3>1, <3>3, <4>4 DEF Matched, Matching, Mentions, Own
    <3> QED
      BY <3>2, <3>3
  <2>7. UNCHANGED <<bucket, released, crashes>> \/ Crash \/ Suppress \/ Release
    BY DEF Next, Push, Tick, AlertJob, AlertMissed, Take, Gather, PlanDone, WriteLog,
           Answer, Accepted, Refused, Raises, Fails, PostStep, vars
  <2> QED
    BY <2>3, <2>4, <2>5, <2>6, <2>7
<1> QED
  BY <1>1, <1>2, <1>3 DEF MatchInv

-----------------------------------------------------------------------------
(* The steps of the posts *)

LEMMA DoneStep ==
  ASSUME PostInv, NEW c \in Channels, NEW copies \in Nat, NEW late \in Nat,
         NEW ok \in BOOLEAN, Done(c, copies, late, ok),
         IF ok THEN copies > 0 /\ copies <= late + 1 ELSE copies <= late
  PROVE  PostInv'
<1> DEFINE p == [pc |-> "done", tries |-> 0, copies |-> copies, late |-> late, ok |-> ok]
<1>1. PostOK(p)
  <2>1. p \in Posts
    BY DEF Posts
  <2> QED
    BY <2>1 DEF PostOK
<1>2. post' = [post EXCEPT ![c] = p]
  BY DEF Done
<1> HIDE DEF p
<1> QED
  BY <1>1, <1>2 DEF PostInv

LEMMA FailedStep ==
  ASSUME PostInv, NEW c \in Channels, NEW copies \in Nat, NEW late \in Nat,
         Done(c, copies, late, FALSE), copies <= late
  PROVE  PostInv'
<1>1. FALSE \in BOOLEAN
  OBVIOUS
<1>2. IF FALSE THEN copies > 0 /\ copies <= late + 1 ELSE copies <= late
  OBVIOUS
<1> QED
  BY <1>1, <1>2, DoneStep

LEMMA NextPost ==
  ASSUME PushConstantsOK, PostInv, [Next]_vars
  PROVE  PostInv'
<1> USE DEF memory, history
<1>0. PostOK(Quiet) /\ PostOK(Begun("post"))
  BY DEF PostOK, Posts, Quiet, Begun
<1>1. CASE UNCHANGED post
  BY <1>1 DEF PostInv
<1>2. CASE Crash
  BY <1>0, <1>2 DEF Crash, PostInv
<1>3. CASE Release
  <2> DEFINE started == Begun("post")
  <2>1. post' = [d \in Channels |-> IF d \in Head(job.plans) THEN started ELSE Quiet]
    BY <1>3 DEF Release
  <2> HIDE DEF started
  <2>2. PostOK(started) /\ PostOK(Quiet)
    BY <1>0 DEF started
  <2>3. \A d \in Channels : post'[d] = started \/ post'[d] = Quiet
    BY <2>1
  <2> QED
    BY <2>1, <2>2, <2>3 DEF PostInv
<1>4. ASSUME NEW c \in Channels, WriteLog(c) PROVE PostInv'
  <2>1. post' = [post EXCEPT ![c] = Quiet]
    BY <1>4 DEF WriteLog
  <2> QED
    BY <1>0, <2>1 DEF PostInv
<1>5. ASSUME NEW c \in Channels, Answer(c) PROVE PostInv'
  <2>1. /\ post[c].pc = "post" /\ post[c].copies \in Nat /\ post[c].late \in Nat
        /\ post[c].copies <= post[c].late /\ post[c].tries \in Nat
    BY <1>5 DEF Answer, Accepted, Refused, Raises, Fails, PostStep, PostInv, PostOK, Posts
  <2>2. CASE Accepted(c)
    <3>1. Done(c, post[c].copies + 1, post[c].late, TRUE)
      BY <2>2 DEF Accepted
    <3>2. /\ post[c].copies + 1 \in Nat /\ TRUE \in BOOLEAN
          /\ IF TRUE THEN post[c].copies + 1 > 0 /\ post[c].copies + 1 <= post[c].late + 1
             ELSE post[c].copies + 1 <= post[c].late
      BY <2>1
    <3> QED
      BY <2>1, <3>1, <3>2, DoneStep
  <2>3. CASE Refused(c)
    <3>1. Done(c, post[c].copies, post[c].late, FALSE)
      BY <2>3 DEF Refused, RefusedIsOk
    <3> QED
      BY <2>1, <3>1, FailedStep
  <2>4. CASE Raises(c)
    <3>1. Done(c, post[c].copies, post[c].late, FALSE)
      BY <2>4 DEF Raises
    <3> QED
      BY <2>1, <3>1, FailedStep
  <2>5. ASSUME NEW delivered \in BOOLEAN, Fails(c, delivered) PROVE PostInv'
    <3> DEFINE n == IF delivered THEN 1 ELSE 0
               tries == post[c].tries + 1
               p == [pc |-> "post", tries |-> tries, copies |-> post[c].copies + n,
                     late |-> post[c].late + n, ok |-> FALSE]
    <3>1. /\ post[c].copies + n <= post[c].late + n
          /\ post[c].copies + n \in Nat /\ post[c].late + n \in Nat
      BY <2>1
    <3>2. CASE GiveUp(tries)
      <4>1. Done(c, post[c].copies + n, post[c].late + n, FALSE)
        BY <2>5, <3>2 DEF Fails
      <4> HIDE DEF n
      <4> QED
        BY <3>1, <4>1, FailedStep
    <3>3. CASE ~GiveUp(tries)
      <4>1. post' = [post EXCEPT ![c] = p]
        BY <2>5, <3>3 DEF Fails
      <4>2. PostOK(p)
        BY <2>1, <3>1 DEF PostOK, Posts
      <4> HIDE DEF p
      <4> QED
        BY <4>1, <4>2 DEF PostInv
    <3> QED
      BY <3>2, <3>3
  <2> QED
    BY <1>5, <2>2, <2>3, <2>4, <2>5 DEF Answer
<1>6. UNCHANGED post \/ Crash \/ Release \/ (\E c \in Channels : WriteLog(c))
      \/ \E c \in Channels : Answer(c)
  BY DEF Next, Push, Tick, AlertJob, AlertMissed, Take, Suppress, Gather, PlanDone, vars
<1> QED
  BY <1>1, <1>2, <1>3, <1>4, <1>5, <1>6

-----------------------------------------------------------------------------
(* The steps of the alert job *)

\* Another period for each missed run.
LEMMA DelayFacts ==
  ASSUME PushConstantsOK, misses \in Nat
  PROVE  /\ Delay \in Nat /\ Delay >= Period
         /\ misses' = misses + 1 => Delay' = Delay + Period
<1>1. Period \in Nat
  BY DEF PushConstantsOK
<1>2. \A k \in Nat : /\ (k + 1) * Period = k * Period + Period
                     /\ k * Period \in Nat
  BY <1>1
<1>3. (misses + 1) * Period = misses * Period + Period /\ misses * Period \in Nat
  BY <1>2
<1>4. ASSUME misses' = misses + 1 PROVE Delay' = Delay + Period
  <2>1. ((misses + 1) + 1) * Period = (misses + 1) * Period + Period
    BY <1>2
  <2> QED
    BY <1>4, <2>1 DEF Delay
<1> QED
  BY <1>1, <1>3, <1>4 DEF Delay

\* The log of a channel, and the ends of a group of failures in it.
LEMMA GroupFacts ==
  ASSUME PushConstantsOK, NoticeInv, NEW c \in Channels, NEW i \in DOMAIN failedAt[c],
         i + FailThreshold - 1 \in DOMAIN failedAt[c]
  PROVE  /\ i \in Nat /\ i >= 1 /\ FailThreshold \in Nat /\ FailThreshold >= 1
         /\ i <= i + FailThreshold - 1
         /\ failedAt[c][i] \in Nat /\ failedAt[c][i + FailThreshold - 1] \in Nat
         /\ failedAt[c][i] <= failedAt[c][i + FailThreshold - 1]
         /\ failedAt[c][i + FailThreshold - 1] <= clock
<1>1. /\ failedAt[c] \in Seq(Nat) /\ Ordered(failedAt[c])
      /\ FailThreshold \in Nat \ {0}
  BY DEF NoticeInv, NoticeType, NoticeOK, PushConstantsOK
<1>2. DOMAIN failedAt[c] = 1..Len(failedAt[c]) /\ Len(failedAt[c]) \in Nat
  BY <1>1
<1>3. i <= i + FailThreshold - 1 /\ i \in Nat /\ i >= 1
  BY <1>1, <1>2
<1>4. failedAt[c][i] \in Nat /\ failedAt[c][i + FailThreshold - 1] \in Nat
  BY <1>1, <1>2, SMTT(30)
<1> QED
  BY <1>1, <1>3, <1>4 DEF Ordered

\* A group whose members are all in the window of a run makes the channel
\* failing.
LEMMA GroupFails ==
  ASSUME PushConstantsOK, NoticeInv, NEW c \in Channels, NEW i \in DOMAIN failedAt[c],
         i + FailThreshold - 1 \in DOMAIN failedAt[c],
         failedAt[c][i] >= clock - FailWindow
  PROVE  c \in Failing
<1> DEFINE j == i + FailThreshold - 1
           f == failedAt[c]
<1>1. /\ f \in Seq(Nat) /\ Ordered(f) /\ clock \in Nat /\ FailWindow \in Nat
      /\ i \in Nat /\ FailThreshold \in Nat /\ FailThreshold >= 1 /\ i >= 1
  BY GroupFacts DEF NoticeInv, NoticeType, NoticeOK, PushConstantsOK
<1>2. DOMAIN f = 1..Len(f) /\ Len(f) \in Nat
  BY <1>1
<1>3. i..j \subseteq Failures(c)
  <2> SUFFICES ASSUME NEW k \in i..j PROVE k \in Failures(c)
    OBVIOUS
  <2>1. k \in DOMAIN f /\ i <= k /\ f[k] \in Nat /\ f[i] \in Nat
    BY <1>1, <1>2, SMTT(30)
  <2>2. f[i] <= f[k]
    BY <1>1, <2>1 DEF Ordered
  <2>3. f[k] >= clock - FailWindow
    BY <1>1, <2>1, <2>2
  <2> QED
    BY <2>1, <2>3 DEF Failures
<1>4. IsFiniteSet(Failures(c))
  <2>1. 1 \in Int /\ Len(f) \in Int
    BY <1>2
  <2>2. IsFiniteSet(DOMAIN f)
    BY <1>2, <2>1, FS_Interval, Zenon
  <2> QED
    BY <2>2, FS_Subset DEF Failures
<1>5. Cardinality(i..j) = FailThreshold
  <2>0. i \in Nat /\ FailThreshold \in Nat /\ FailThreshold >= 1
    BY <1>1
  <2>1. i \in Int /\ j \in Int /\ i <= j /\ j - i + 1 = FailThreshold
    BY <2>0, SMTT(30)
  <2>2. \A a, b \in Int : a <= b => Cardinality(a..b) = b - a + 1
    BY FS_Interval
  <2> HIDE DEF j
  <2> QED
    BY <2>1, <2>2
<1>6. /\ Cardinality(i..j) <= Cardinality(Failures(c))
      /\ Cardinality(Failures(c)) \in Nat
  BY <1>3, <1>4, FS_Subset, FS_CardinalityType
<1>7. Cardinality(Failures(c)) >= FailThreshold
  BY <1>1, <1>5, <1>6
<1> QED
  BY <1>7 DEF Failing

\* A step that leaves the log, the alerts and the time of the next run alone.
LEMMA FrameNotice ==
  ASSUME NoticeInv, UNCHANGED <<clock, due, bootedAt, misses, lastSent, failedAt>>
  PROVE  NoticeInv'
<1>1. NoticeType' /\ Timely'
  BY DEF NoticeInv, NoticeType, Timely
<1>2. \A c \in Channels : NoticeOK(c)'
  BY DEF NoticeInv, NoticeOK, Ordered, Noticed, Delay
<1> QED
  BY <1>1, <1>2 DEF NoticeInv

LEMMA InitNotice ==
  ASSUME PushConstantsOK, Init
  PROVE  NoticeInv
<1>1. /\ NoticeType /\ Timely /\ Never + Period <= due
  BY DEF Init, NoticeType, Timely, PushConstantsOK, Never
<1>2. ASSUME NEW c \in Channels PROVE NoticeOK(c)
  <2>1. failedAt[c] = <<>> /\ lastSent[c] = Never
    BY DEF Init
  <2>2. DOMAIN failedAt[c] = {}
    BY <2>1
  <2> QED
    BY <1>1, <2>1, <2>2 DEF NoticeOK, Ordered, Noticed
<1> QED
  BY <1>1, <1>2 DEF NoticeInv

LEMMA TickNotice ==
  ASSUME PushConstantsOK, NoticeInv, Tick
  PROVE  NoticeInv'
<1>1. /\ clock' = clock + 1 /\ clock < due
      /\ UNCHANGED <<due, bootedAt, misses, lastSent, failedAt>>
  BY DEF Tick, memory, history
<1>2. NoticeType' /\ Timely'
  BY <1>1 DEF NoticeInv, NoticeType, Timely, PushConstantsOK
<1>3. ASSUME NEW c \in Channels PROVE NoticeOK(c)'
  <2>1. NoticeOK(c) /\ failedAt[c] \in Seq(Nat) /\ clock \in Nat
    BY DEF NoticeInv, NoticeType
  <2>2. \A i \in DOMAIN failedAt[c] : failedAt[c][i] \in Nat
    BY <2>1
  <2>3. Ordered(failedAt[c])'
    BY <1>1, <2>1, <2>2 DEF NoticeOK, Ordered
  <2>4. Noticed(c)'
    BY <1>1, <2>1 DEF NoticeOK, Noticed, Delay
  <2> QED
    BY <1>1, <2>1, <2>3, <2>4 DEF NoticeOK
<1> QED
  BY <1>2, <1>3 DEF NoticeInv

\* After a restart the next run is a period away: a group that ends at the
\* restart or later is still in its window.
LEMMA CrashNotice ==
  ASSUME PushConstantsOK, NoticeInv, Crash
  PROVE  NoticeInv'
<1>1. /\ lastSent' = [c \in Channels |-> Never] /\ due' = clock + Period
      /\ bootedAt' = clock /\ UNCHANGED <<clock, failedAt, misses>>
      /\ clock \in Nat /\ Period \in Nat /\ Never = -1
  BY DEF Crash, NoticeInv, NoticeType, PushConstantsOK, Never
<1>2. NoticeType' /\ Timely'
  BY <1>1 DEF NoticeInv, NoticeType, Timely
<1>3. ASSUME NEW c \in Channels PROVE NoticeOK(c)'
  <2>1. Ordered(failedAt[c])'
    BY <1>1 DEF NoticeInv, NoticeOK, Ordered
  <2>2. lastSent'[c] + Period <= due'
    BY <1>1
  <2>3. Noticed(c)'
    <3> DEFINE j(i) == i + FailThreshold - 1
    <3> SUFFICES ASSUME NEW i \in DOMAIN failedAt[c], j(i) \in DOMAIN failedAt[c],
                        bootedAt' <= failedAt[c][j(i)]
                 PROVE  due' <= failedAt[c][j(i)] + Delay'
      BY <1>1 DEF Noticed
    <3>1. failedAt[c][j(i)] \in Nat
      BY GroupFacts
    <3>2. Delay' = Delay /\ Delay \in Nat /\ Delay >= Period
      BY <1>1, DelayFacts DEF NoticeInv, NoticeType, Delay
    <3> QED
      BY <1>1, <3>1, <3>2
  <2> QED
    BY <2>1, <2>2, <2>3 DEF NoticeOK
<1> QED
  BY <1>2, <1>3 DEF NoticeInv

\* A run notices every group that no earlier one did.
LEMMA AlertNotice ==
  ASSUME PushConstantsOK, NoticeInv, AlertJob
  PROVE  NoticeInv'
<1>1. /\ clock = due /\ due' = due + Period
      /\ lastSent' = [c \in Channels |-> IF c \in Failing THEN Armed(c) ELSE lastSent[c]]
      /\ UNCHANGED <<clock, failedAt, bootedAt, misses>>
  BY DEF AlertJob, history
<1>2. /\ clock \in Nat /\ due \in Nat /\ Period \in Nat /\ Throttle \in Nat
      /\ Throttle < Period /\ FailWindow \in Nat
  BY DEF NoticeInv, NoticeType, PushConstantsOK
<1>3. Delay' = Delay /\ Delay \in Nat /\ Delay >= Period
  BY <1>1, DelayFacts DEF NoticeInv, NoticeType, Delay
<1>4. \A c \in Channels : Armed(c) = clock
  <2> SUFFICES ASSUME NEW c \in Channels, lastSent[c] # Never
               PROVE  ~(clock - lastSent[c] < Throttle)
    BY DEF Armed
  <2>1. lastSent[c] \in Nat /\ lastSent[c] + Period <= due
    BY DEF NoticeInv, NoticeType, NoticeOK
  <2> QED
    BY <1>1, <1>2, <2>1
<1>5. \A c \in Channels : lastSent'[c] = IF c \in Failing THEN clock ELSE lastSent[c]
  BY <1>1, <1>4
<1>6. NoticeType' /\ Timely'
  <2>1. lastSent' \in [Channels -> Nat \cup {Never}]
    BY <1>1, <1>2, <1>5 DEF NoticeInv, NoticeType
  <2> QED
    BY <1>1, <1>2, <2>1 DEF NoticeInv, NoticeType, Timely
<1>7. ASSUME NEW c \in Channels PROVE NoticeOK(c)'
  <2>1. /\ NoticeOK(c) /\ lastSent[c] \in Nat \cup {Never} /\ lastSent[c] + Period <= due
        /\ Never = -1
    BY DEF NoticeInv, NoticeType, NoticeOK, Never
  <2>2. Ordered(failedAt[c])'
    BY <1>1, <2>1 DEF NoticeOK, Ordered
  <2>3. lastSent'[c] + Period <= due'
    BY <1>1, <1>2, <1>5, <2>1
  <2>4. Noticed(c)'
    <3> DEFINE j(i) == i + FailThreshold - 1
               f == failedAt[c]
    <3> SUFFICES ASSUME NEW i \in DOMAIN f, j(i) \in DOMAIN f,
                        f[j(i)] - f[i] <= FailWindow - Delay, bootedAt <= f[j(i)]
                 PROVE  lastSent'[c] >= f[j(i)]
      BY <1>1, <1>3 DEF Noticed
    <3>1. f[i] \in Nat /\ f[j(i)] \in Nat /\ f[j(i)] <= clock
      BY GroupFacts
    <3>2. lastSent[c] >= f[j(i)] \/ due <= f[j(i)] + Delay
      BY <2>1 DEF NoticeOK, Noticed
    <3>3. CASE c \in Failing
      BY <1>5, <3>1, <3>3
    <3>4. CASE c \notin Failing
      <4>1. ~(f[i] >= clock - FailWindow)
        BY <3>4, GroupFails
      <4> HIDE DEF f, j
      <4>2. ~(due <= f[j(i)] + Delay)
        BY <1>1, <1>2, <1>3, <3>1, <4>1
      <4> QED
        BY <1>5, <3>2, <3>4, <4>2
    <3> QED
      BY <3>3, <3>4
  <2> QED
    BY <2>2, <2>3, <2>4 DEF NoticeOK
<1> QED
  BY <1>6, <1>7 DEF NoticeInv

\* A missed run moves the next one by a period, and Delay with it.
LEMMA MissedNotice ==
  ASSUME PushConstantsOK, NoticeInv, AlertMissed
  PROVE  NoticeInv'
<1>1. /\ clock = due /\ due' = due + Period /\ misses' = misses + 1
      /\ UNCHANGED <<clock, lastSent, failedAt, bootedAt>>
  BY DEF AlertMissed
<1>2. /\ clock \in Nat /\ due \in Nat /\ Period \in Nat /\ misses \in Nat
      /\ FailWindow \in Nat
  BY DEF NoticeInv, NoticeType, PushConstantsOK
<1>3. Delay' = Delay + Period /\ Delay \in Nat /\ Delay >= Period
  BY <1>1, <1>2, DelayFacts
<1>4. NoticeType' /\ Timely'
  BY <1>1, <1>2 DEF NoticeInv, NoticeType, Timely
<1>5. ASSUME NEW c \in Channels PROVE NoticeOK(c)'
  <2>1. NoticeOK(c) /\ lastSent[c] \in Nat \cup {Never} /\ Never = -1
    BY DEF NoticeInv, NoticeType, Never
  <2>2. Ordered(failedAt[c])'
    BY <1>1, <2>1 DEF NoticeOK, Ordered
  <2>3. lastSent'[c] + Period <= due'
    BY <1>1, <1>2, <2>1 DEF NoticeOK
  <2>4. Noticed(c)'
    <3> DEFINE j(i) == i + FailThreshold - 1
               f == failedAt[c]
    <3> SUFFICES ASSUME NEW i \in DOMAIN f, j(i) \in DOMAIN f,
                        f[j(i)] - f[i] <= FailWindow - Delay', bootedAt <= f[j(i)]
                 PROVE  lastSent[c] >= f[j(i)] \/ due' <= f[j(i)] + Delay'
      BY <1>1 DEF Noticed
    <3>1. f[i] \in Nat /\ f[j(i)] \in Nat
      BY GroupFacts
    <3>2. f[j(i)] - f[i] <= FailWindow - Delay
      <4> HIDE DEF f, j
      <4> QED
        BY <1>2, <1>3, <3>1
    <3>3. lastSent[c] >= f[j(i)] \/ due <= f[j(i)] + Delay
      BY <2>1, <3>2 DEF NoticeOK, Noticed
    <3> HIDE DEF f, j
    <3> QED
      BY <1>1, <1>2, <1>3, <3>1, <3>3
  <2> QED
    BY <2>2, <2>3, <2>4 DEF NoticeOK
<1> QED
  BY <1>4, <1>5 DEF NoticeInv

\* A new failed row is the youngest of its channel.
LEMMA LogNotice ==
  ASSUME PushConstantsOK, NoticeInv, NEW d \in Channels, WriteLog(d)
  PROVE  NoticeInv'
<1>1. /\ UNCHANGED <<clock, due, bootedAt, misses, lastSent>>
      /\ failedAt' = IF post[d].ok THEN failedAt
                     ELSE [failedAt EXCEPT ![d] = Append(@, clock)]
  BY DEF WriteLog, memory, history
<1>2. CASE failedAt' = failedAt
  BY <1>1, <1>2, FrameNotice
<1>3. CASE failedAt' = [failedAt EXCEPT ![d] = Append(@, clock)]
  <2> DEFINE f == failedAt[d]
             g == Append(f, clock)
  <2>1. /\ f \in Seq(Nat) /\ clock \in Nat /\ NoticeOK(d)
        /\ Period \in Nat /\ due \in Nat /\ due <= clock + Period
        /\ FailThreshold \in Nat \ {0}
    BY DEF NoticeInv, NoticeType, Timely, PushConstantsOK
  <2>2. /\ g \in Seq(Nat) /\ Len(g) = Len(f) + 1 /\ DOMAIN g = 1..Len(f) + 1
        /\ DOMAIN f = 1..Len(f) /\ Len(f) \in Nat
        /\ \A i \in 1..Len(f) : g[i] = f[i]
        /\ g[Len(f) + 1] = clock
    BY <2>1, AppendProperties
  <2>0. Ordered(f)
    BY <2>1 DEF NoticeOK
  <2> HIDE DEF f, g
  <2>3. \A i \in 1..Len(f) : f[i] \in Nat /\ f[i] <= clock
    <3>1. \A i \in 1..Len(f) : f[i] \in Nat
      BY <2>1
    <3>2. \A i \in DOMAIN f : f[i] <= clock
      BY <2>0 DEF Ordered
    <3> QED
      BY <2>2, <3>1, <3>2
  <2>4. failedAt' = [failedAt EXCEPT ![d] = g]
    BY <1>3 DEF f, g
  <2>5. NoticeType' /\ Timely'
    BY <1>1, <2>2, <2>4 DEF NoticeInv, NoticeType, Timely
  <2>6. Ordered(g)
    <3>1. \A i \in DOMAIN g : g[i] <= clock
      BY <2>1, <2>2, <2>3, SMTT(30)
    <3>2. ASSUME NEW i \in DOMAIN g, NEW k \in DOMAIN g, i <= k PROVE g[i] <= g[k]
      <4>1. CASE k = Len(f) + 1
        BY <2>2, <3>1, <4>1
      <4>2. CASE k \in 1..Len(f)
        <5>1. i \in 1..Len(f)
          BY <2>2, <3>2, <4>2
        <5>2. f[i] <= f[k]
          BY <2>0, <2>2, <3>2, <4>2, <5>1 DEF Ordered
        <5> QED
          BY <2>2, <4>2, <5>1, <5>2
      <4> QED
        BY <2>2, <4>1, <4>2
    <3> QED
      BY <3>1, <3>2 DEF Ordered
  <2>7. Delay' = Delay /\ Delay \in Nat /\ Delay >= Period
    BY <1>1, DelayFacts DEF NoticeInv, NoticeType, Delay
  <2>8. ASSUME NEW c \in Channels PROVE NoticeOK(c)'
    <3>1. CASE c # d
      <4>1. failedAt'[c] = failedAt[c] /\ NoticeOK(c)
        BY <2>4, <3>1 DEF NoticeInv, NoticeType
      <4> QED
        BY <1>1, <2>7, <4>1 DEF NoticeOK, Ordered, Noticed
    <3>2. CASE c = d
      <4>1. failedAt'[c] = g
        BY <2>4, <3>2 DEF NoticeInv, NoticeType
      <4>2. Noticed(c)'
        <5> DEFINE j(i) == i + FailThreshold - 1
        <5> SUFFICES ASSUME NEW i \in DOMAIN g, j(i) \in DOMAIN g,
                            g[j(i)] - g[i] <= FailWindow - Delay, bootedAt <= g[j(i)]
                     PROVE  lastSent[c] >= g[j(i)] \/ due <= g[j(i)] + Delay
          BY <1>1, <2>7, <4>1 DEF Noticed
        <5>1. CASE j(i) = Len(f) + 1
          <6>1. g[j(i)] = clock
            BY <2>2, <5>1
          <6> QED
            BY <2>1, <2>7, <6>1
        <5>2. CASE j(i) \in 1..Len(f)
          <6>1. i \in 1..Len(f)
            BY <2>1, <2>2, <5>2
          <6>2. g[i] = f[i] /\ g[j(i)] = f[j(i)] /\ i \in DOMAIN f /\ j(i) \in DOMAIN f
            BY <2>2, <5>2, <6>1
          <6> QED
            BY <2>1, <3>2, <6>2 DEF NoticeOK, Noticed, f
        <5> QED
          BY <2>2, <5>1, <5>2
      <4>3. Ordered(failedAt[c])'
        BY <1>1, <2>6, <4>1 DEF Ordered
      <4> QED
        BY <1>1, <2>1, <3>2, <4>2, <4>3 DEF NoticeOK
    <3> QED
      BY <3>1, <3>2
  <2> QED
    BY <2>5, <2>8 DEF NoticeInv
<1> QED
  BY <1>1, <1>2, <1>3

LEMMA NextNotice ==
  ASSUME PushConstantsOK, NoticeInv, [Next]_vars
  PROVE  NoticeInv'
<1> USE DEF memory, history
<1>1. CASE UNCHANGED vars
  BY <1>1, FrameNotice DEF vars
<1>2. CASE Tick \/ Crash \/ AlertJob \/ AlertMissed
  BY <1>2, TickNotice, CrashNotice, AlertNotice, MissedNotice
<1>3. ASSUME NEW m \in Messages, Take(m) PROVE NoticeInv'
  BY <1>3, FrameNotice DEF Take
<1>4. CASE Suppress \/ Release \/ Gather \/ PlanDone
  BY <1>4, FrameNotice DEF Suppress, Release, Gather, PlanDone
<1>5. ASSUME NEW c \in Channels, WriteLog(c) PROVE NoticeInv'
  BY <1>5, LogNotice
<1>6. ASSUME NEW c \in Channels, Answer(c) PROVE NoticeInv'
  <2>1. UNCHANGED <<clock, due, bootedAt, misses, lastSent, failedAt>>
    BY <1>6 DEF Answer, Accepted, Refused, Raises, Fails, PostStep
  <2> QED
    BY <2>1, FrameNotice
<1> QED
  BY <1>1, <1>2, <1>3, <1>4, <1>5, <1>6 DEF Next, Push

-----------------------------------------------------------------------------
(* The types the other invariants leave out *)

\* While a message is on its way there is a plan to go by.
PlanType ==
  /\ clock <= MaxClock /\ messages \in 0..MaxMessages /\ crashes \in Nat
  /\ job.pc \in {"idle", "plan", "gather", "log"}
  /\ job.plans \in Seq(SUBSET DOMAIN ChannelDefs)
  /\ job.pc # "idle" => job.plans # <<>>
  /\ job = [pc |-> job.pc, tickers |-> job.tickers, plans |-> job.plans]
  /\ \A c \in Channels : post[c].tries \in 0..MaxAttempts - 1

LEMMA PlansLeftTyped ==
  ASSUME PlanType, job.pc # "idle", job' = PlansLeft("plan", Tail(job.plans)),
         UNCHANGED <<clock, messages, crashes, post>>
  PROVE  PlanType'
<1> DEFINE left == Tail(job.plans)
<1>1. left \in Seq(SUBSET DOMAIN ChannelDefs)
  BY DEF PlanType
<1> HIDE DEF left
<1>2. CASE left = <<>>
  <2>1. job' = [pc |-> "idle", tickers |-> <<>>, plans |-> <<>>]
    BY <1>2 DEF PlansLeft, Idle, left
  <2>2. job'.pc = "idle" /\ job'.tickers = <<>> /\ job'.plans = <<>>
    BY <2>1
  <2>3. <<>> \in Seq(SUBSET DOMAIN ChannelDefs)
    OBVIOUS
  <2> QED
    BY <2>1, <2>2, <2>3 DEF PlanType
<1>3. CASE left # <<>>
  <2>1. job' = [pc |-> "plan", tickers |-> job.tickers, plans |-> left]
    BY <1>3 DEF PlansLeft, left
  <2> QED
    BY <1>1, <1>3, <2>1 DEF PlanType
<1> QED
  BY <1>2, <1>3

\* A post is tried again only below the last attempt.
LEMMA AnswerTyped ==
  ASSUME PushConstantsOK, PostInv, PlanType, NEW c \in Channels, Answer(c)
  PROVE  PlanType'
<1>1. UNCHANGED <<clock, messages, crashes, job>> /\ DOMAIN post = Channels
  BY DEF Answer, Accepted, Refused, Raises, Fails, PostStep, history, PostInv
<1>2. PICK p : post' = [post EXCEPT ![c] = p] /\ p.tries \in 0..MaxAttempts - 1
  <2>0. 0 \in 0..MaxAttempts - 1 /\ MaxAttempts \in Nat
    BY DEF PushConstantsOK
  <2>1. ASSUME NEW copies, NEW late, NEW ok, Done(c, copies, late, ok)
        PROVE  \E p : post' = [post EXCEPT ![c] = p] /\ p.tries \in 0..MaxAttempts - 1
    <3> DEFINE p == [pc |-> "done", tries |-> 0, copies |-> copies, late |-> late, ok |-> ok]
    <3>1. post' = [post EXCEPT ![c] = p] /\ p.tries = 0
      BY <2>1 DEF Done
    <3> QED
      BY <2>0, <3>1
  <2>2. ASSUME NEW delivered \in BOOLEAN, Fails(c, delivered), ~GiveUp(post[c].tries + 1)
        PROVE  \E p : post' = [post EXCEPT ![c] = p] /\ p.tries \in 0..MaxAttempts - 1
    <3> DEFINE n == IF delivered THEN 1 ELSE 0
               p == [pc |-> "post", tries |-> post[c].tries + 1,
                     copies |-> post[c].copies + n, late |-> post[c].late + n, ok |-> FALSE]
    <3>1. post' = [post EXCEPT ![c] = p] /\ p.tries = post[c].tries + 1
      BY <2>2 DEF Fails
    <3>2. post[c].tries \in 0..MaxAttempts - 1
      BY DEF PlanType
    <3>3. post[c].tries + 1 \in 0..MaxAttempts - 1
      BY <2>0, <2>2, <3>2 DEF GiveUp
    <3> HIDE DEF p
    <3> QED
      BY <3>1, <3>3
  <2> QED
    BY <2>1, <2>2 DEF Answer, Accepted, Refused, Raises, Fails
<1>3. \A d \in Channels : post'[d].tries \in 0..MaxAttempts - 1
  BY <1>1, <1>2 DEF PlanType
<1> QED
  BY <1>1, <1>3 DEF PlanType

LEMMA NextTyped ==
  ASSUME PushConstantsOK, PlansOK, PostInv, PlanType, clock \in Nat, [Next]_vars
  PROVE  PlanType'
<1> USE DEF memory, history
<1>0. 0 \in 0..MaxAttempts - 1 /\ Quiet.tries = 0 /\ Begun("post").tries = 0
  BY DEF PushConstantsOK, Quiet, Begun
<1>1. CASE UNCHANGED vars \/ AlertJob \/ AlertMissed
  BY <1>1 DEF PlanType, vars, AlertJob, AlertMissed
<1>2. CASE Tick
  <2>1. clock' <= MaxClock
    BY <1>2 DEF Tick, PushConstantsOK
  <2> QED
    BY <1>2, <2>1 DEF Tick, PlanType
<1>3. CASE Crash
  <2>1. /\ job' = [pc |-> "idle", tickers |-> <<>>, plans |-> <<>>]
        /\ post' = [c \in Channels |-> Quiet] /\ crashes' = crashes + 1
        /\ UNCHANGED <<clock, messages>>
    BY <1>3 DEF Crash, Idle
  <2>2. \A c \in Channels : post'[c].tries \in 0..MaxAttempts - 1
    BY <1>0, <2>1
  <2> QED
    BY <2>1, <2>2 DEF PlanType
<1>4. ASSUME NEW m \in Messages, Take(m) PROVE PlanType'
  <2>1. /\ job' = [pc |-> "plan", tickers |-> m.tickers, plans |-> m.plans]
        /\ messages' = messages + 1 /\ messages < MaxMessages
        /\ UNCHANGED <<clock, crashes, post>>
    BY <1>4 DEF Take
  <2>2. messages' \in 0..MaxMessages
    BY <2>1 DEF PlanType, PushConstantsOK
  <2> QED
    BY <2>1, <2>2 DEF PlanType, PlansOK
<1>5. CASE Suppress \/ PlanDone
  BY <1>5, PlansLeftTyped DEF Suppress, PlanDone
<1>6. CASE Release
  <2>1. /\ job' = [job EXCEPT !.pc = "gather"] /\ job.pc = "plan"
        /\ UNCHANGED <<clock, messages, crashes>>
        /\ \A c \in Channels : post'[c] = Begun("post") \/ post'[c] = Quiet
    BY <1>6 DEF Release
  <2>2. \A c \in Channels : post'[c].tries \in 0..MaxAttempts - 1
    BY <1>0, <2>1
  <2>3. job' = [pc |-> "gather", tickers |-> job.tickers, plans |-> job.plans]
    BY <2>1 DEF PlanType
  <2> QED
    BY <2>1, <2>2, <2>3 DEF PlanType
<1>7. CASE Gather
  <2>1. /\ job' = [job EXCEPT !.pc = "log"] /\ job.pc = "gather"
        /\ UNCHANGED <<clock, messages, crashes, post>>
    BY <1>7 DEF Gather
  <2>2. job' = [pc |-> "log", tickers |-> job.tickers, plans |-> job.plans]
    BY <2>1 DEF PlanType
  <2> QED
    BY <2>1, <2>2 DEF PlanType
<1>8. ASSUME NEW c \in Channels, WriteLog(c) PROVE PlanType'
  <2>1. /\ UNCHANGED <<clock, messages, crashes, job>>
        /\ post' = [post EXCEPT ![c] = Quiet] /\ DOMAIN post = Channels
    BY <1>8 DEF WriteLog, PostInv
  <2>2. \A d \in Channels : post'[d].tries \in 0..MaxAttempts - 1
    BY <1>0, <2>1 DEF PlanType
  <2> QED
    BY <2>1, <2>2 DEF PlanType
<1>9. ASSUME NEW c \in Channels, Answer(c) PROVE PlanType'
  BY <1>9, AnswerTyped
<1> QED
  BY <1>1, <1>2, <1>3, <1>4, <1>5, <1>6, <1>7, <1>8, <1>9 DEF Next, Push

-----------------------------------------------------------------------------
(* Webhooks *)

\* Where the webhook of a channel stands in the file.
LEMMA HooksApart ==
  ASSUME KeysSeparate, SecretsSeparate, secrets \in SecretsFiles,
         NEW c \in Channels, NEW d \in Channels,
         HookOf(c)[1] = "quote_watcher", HookOf(d)[1] = "news_pipeline",
         hooks[c] = hooks[d], hooks[c] # NoHook
  PROVE  Borrows(c)
<1> DEFINE p == HookOf(c)
           q == HookOf(d)
           k == AlertKey[p[2]]
           l == q[2]
           nested == secrets.nested
           flat == secrets.flat
<1>1. hooks[c] = Lookup(secrets, p) /\ hooks[d] = Lookup(secrets, q)
  BY DEF hooks
<1>2. p # q /\ k # l
  BY DEF KeysSeparate
<1>3. /\ \A x, y \in DOMAIN nested : nested[x] = nested[y] => x = y
      /\ \A x, y \in DOMAIN flat : flat[x] = flat[y] => x = y
      /\ \A x \in DOMAIN nested : \A y \in DOMAIN flat : nested[x] # flat[y]
  BY DEF SecretsSeparate
<1>4. Lookup(secrets, q) = IF q \in DOMAIN nested THEN nested[q]
                           ELSE IF l \in DOMAIN flat THEN flat[l] ELSE NoHook
  BY DEF Lookup, Flat
<1>5. Lookup(secrets, p) = IF p \in DOMAIN nested THEN nested[p]
                           ELSE IF k \in DOMAIN flat THEN flat[k]
                           ELSE IF p[2] \in DOMAIN flat THEN flat[p[2]] ELSE NoHook
  BY DEF Lookup, Flat
<1>6. Borrows(c) <=> /\ p \notin DOMAIN nested /\ k \notin DOMAIN flat
                     /\ p[2] \in DOMAIN flat
  BY DEF Borrows
<1> HIDE DEF p, q, k, l, nested, flat
<1> DEFINE w == hooks[c]
<1>7. /\ \/ q \in DOMAIN nested /\ w = nested[q]
         \/ l \in DOMAIN flat /\ w = flat[l]
      /\ \/ p \in DOMAIN nested /\ w = nested[p]
         \/ p \notin DOMAIN nested /\ k \in DOMAIN flat /\ w = flat[k]
         \/ p \notin DOMAIN nested /\ k \notin DOMAIN flat /\ p[2] \in DOMAIN flat
  BY <1>1, <1>4, <1>5
<1> HIDE DEF w
<1>8. ~(p \in DOMAIN nested /\ w = nested[p])
  BY <1>2, <1>3, <1>7, ZenonT(60)
<1>9. ~(k \in DOMAIN flat /\ w = flat[k])
  BY <1>2, <1>3, <1>7, ZenonT(60)
<1> QED
  BY <1>6, <1>7, <1>8, <1>9

-----------------------------------------------------------------------------
(* Theorems *)

\* The buckets of the suppressor cover the releases of the last window,
\* whatever messages, refusals and restarts there are (common/burst.py).
THEOREM BurstInvariance == ASSUME PushConstantsOK PROVE Spec => []BurstInv
<1>1. Init => BurstInv
  BY InitBurst
<1>2. BurstInv /\ [Next]_vars => BurstInv'
  BY NextBurst
<1> QED
  BY <1>1, <1>2, PTL DEF Spec

\* No ticker is in more than Threshold messages of any window, for messages
\* about any tickers and however often they name one (BurstSuppressor).
THEOREM BurstBoundHolds == ASSUME PushConstantsOK PROVE Spec => []BurstBound
<1>1. BurstInv => BurstBound
  BY DEF BurstInv, BurstOK, Spaced, Apart, BurstBound
<1> QED
  BY <1>1, BurstInvariance, PTL

\* The copies of a message are those whose answers were late, and one more when
\* the last answer was an ok (async_retry).
THEOREM PostInvariance == ASSUME PushConstantsOK PROVE Spec => []PostInv
<1>1. Init => PostInv
  BY DEF Init, PostInv, PostOK, Posts, Quiet, Begun
<1>2. PostInv /\ [Next]_vars => PostInv'
  BY NextPost
<1> QED
  BY <1>1, <1>2, PTL DEF Spec

\* What send returns under async_retry is true, up to copies whose answers were
\* late: a failed result may have been delivered, an ok one more than once.
THEOREM ResultsAreTrueHolds == ASSUME PushConstantsOK PROVE Spec => []ResultsAreTrue
<1>1. PostInv => ResultsAreTrue
  BY DEF PostInv, PostOK, ResultsAreTrue
<1> QED
  BY <1>1, PostInvariance, PTL

\* A message is suppressed only when its ticker was named Threshold times by
\* what was sent within the window: a refusal does not prolong the silence
\* (BurstSuppressor.should_send).
THEOREM SuppressedInBurstHolds ==
  ASSUME PushConstantsOK PROVE Spec => SuppressedInBurst
<1> DEFINE Refusal == job.pc = "plan" /\ job' # job /\ job'.pc # "gather" /\ crashes' = crashes
<1>1. Init => MatchInv
  BY InitMatch
<1>2. MatchInv /\ [Next]_vars => MatchInv'
  BY NextMatch
<1>3. MatchInv /\ [Next]_vars => [Refusal => \E t \in Named : Recent(t) >= Threshold]_vars
  <2> SUFFICES ASSUME MatchInv, [Next]_vars, Refusal
               PROVE  \E t \in Named : Recent(t) >= Threshold
    OBVIOUS
  <2>1. Suppress
    <3>1. crashes \in Nat /\ "pc" \in DOMAIN job
      BY DEF MatchInv
    <3>2. ~Crash
      BY <3>1 DEF Crash
    <3>3. ~Release
      BY <3>1 DEF Release
    <3>4. \A m \in Messages : ~Take(m)
      BY DEF Take
    <3>5. ~(Gather \/ PlanDone)
      BY DEF Gather, PlanDone
    <3> QED
      BY <3>2, <3>3, <3>4, <3>5 DEF Next, Push, Tick, AlertJob, AlertMissed, WriteLog,
         Answer, Accepted, Refused, Raises, Fails, PostStep, vars
  <2>2. PICK t \in Named : Full(t)
    BY <2>1 DEF Suppress
  <2> QED
    BY <2>2, FullMeansRecent
<1> QED
  BY <1>1, <1>2, <1>3, PTL DEF Spec, SuppressedInBurst

\* The next run of the job is at most a period away, and what it will see of
\* failures that lie close together is in its window.
THEOREM NoticeInvariance == ASSUME PushConstantsOK PROVE Spec => []NoticeInv
<1>1. Init => NoticeInv
  BY InitNotice
<1>2. NoticeInv /\ [Next]_vars => NoticeInv'
  BY NextNotice
<1> QED
  BY <1>1, <1>2, PTL DEF Spec

\* FailThreshold failures of a channel that are close enough to each other are
\* noticed by a run of the job, whatever runs are missed and whatever restarts
\* come, as long as the throttle is shorter than the period
\* (alert_on_push_failures, BarkAlerter.send).
THEOREM FailuresAreNoticedHolds ==
  ASSUME PushConstantsOK PROVE Spec => []FailuresAreNoticed
<1>1. NoticeInv => FailuresAreNoticed
  <2> SUFFICES ASSUME NoticeInv, NEW c \in Channels, NEW i \in DOMAIN failedAt[c],
                      i + FailThreshold - 1 \in DOMAIN failedAt[c],
                      failedAt[c][i + FailThreshold - 1] - failedAt[c][i]
                        <= FailWindow - Delay,
                      bootedAt <= failedAt[c][i + FailThreshold - 1],
                      clock > failedAt[c][i + FailThreshold - 1] + Delay
               PROVE  lastSent[c] >= failedAt[c][i + FailThreshold - 1]
    BY DEF FailuresAreNoticed, Delay
  <2> DEFINE last == failedAt[c][i + FailThreshold - 1]
  <2>1. last \in Nat /\ clock \in Nat /\ due \in Nat /\ clock <= due /\ Delay \in Nat
    BY GroupFacts, DelayFacts DEF NoticeInv, NoticeType, Timely
  <2>2. lastSent[c] >= last \/ due <= last + Delay
    BY DEF NoticeInv, NoticeOK, Noticed
  <2> QED
    BY <2>1, <2>2
<1> QED
  BY <1>1, NoticeInvariance, PTL

\* Whatever happens, a process has the webhooks of one file of secrets.
SecretsInv == secrets \in SecretsFiles
LEMMA SecretsInvariance == Spec => []SecretsInv
<1>1. Init => SecretsInv
  BY DEF Init, SecretsInv
<1>2. SecretsInv /\ [Next]_vars => SecretsInv'
  <2> SUFFICES ASSUME [Next]_vars PROVE secrets' = secrets
    BY DEF SecretsInv
  <2> QED
    BY DEF Next, vars, memory, Tick, Crash, AlertJob, AlertMissed, Take, Push,
           Suppress, Release, Gather, PlanDone, WriteLog, Answer, Accepted, Refused,
           Raises, Fails, PostStep
<1> QED
  BY <1>1, <1>2, PTL DEF Spec

\* With both layouts of secrets.yml, whatever of each is filled in, a channel of
\* the quotes shares a webhook with one of the news only through the fallback to
\* the bare key, when it has neither a nested key nor an _alert key
\* (build_pushers, _lookup_push in push/factory.py).
THEOREM NoCrossTalkHolds ==
  ASSUME KeysSeparate, SecretsSeparate PROVE Spec => []NoCrossTalk
<1>1. SecretsInv => NoCrossTalk
  BY HooksApart DEF NoCrossTalk, SecretsInv
<1> QED
  BY <1>1, SecretsInvariance, PTL

\* Buckets, throttles, posts and rows have their types, whatever the channels
\* answer: in particular no post is tried more often than async_retry allows.
THEOREM TypeCorrect ==
  ASSUME PushConstantsOK, PlansOK PROVE Spec => []TypeOK
<1>1. Init => PlanType
  <2>1. 0 \in 0..MaxAttempts - 1 /\ Quiet.tries = 0 /\ MaxClock >= 0 /\ 0 \in 0..MaxMessages
    BY DEF PushConstantsOK, Quiet, Begun
  <2> QED
    BY <2>1 DEF Init, PlanType, Idle
<1>2. BurstInv /\ PostInv /\ PlanType /\ [Next]_vars => PlanType'
  BY NextTyped DEF BurstInv, BurstType
<1>3. /\ BurstInv /\ PostInv /\ NoticeInv /\ PlanType /\ SecretsInv => TypeOK
  <2> SUFFICES ASSUME BurstInv, PostInv, NoticeInv, PlanType, SecretsInv PROVE TypeOK
    OBVIOUS
  <2>1. clock \in 0..MaxClock
    BY DEF BurstInv, BurstType, PlanType, PushConstantsOK
  <2>2. job \in [pc : {"idle", "plan", "gather", "log"}, tickers : Seq(Tickers),
                 plans : Seq(SUBSET DOMAIN ChannelDefs)]
    BY DEF BurstInv, BurstType, PlanType
  <2>3. post \in [Channels -> [pc : {"none", "post", "done"}, tries : 0..MaxAttempts - 1,
                               copies : Nat, late : Nat, ok : BOOLEAN]]
    <3>1. ASSUME NEW c \in Channels
          PROVE  post[c] \in [pc : {"none", "post", "done"}, tries : 0..MaxAttempts - 1,
                              copies : Nat, late : Nat, ok : BOOLEAN]
      BY DEF PostInv, PostOK, Posts, PlanType
    <3> QED
      BY <3>1 DEF PostInv, PostOK
  <2> QED
    BY <2>1, <2>2, <2>3 DEF BurstInv, BurstType, Releases, NoticeInv, NoticeType, PlanType,
       SecretsInv, TypeOK
<1> QED
  BY <1>1, <1>2, <1>3, BurstInvariance, PostInvariance, NoticeInvariance, SecretsInvariance,
     PTL DEF Spec
=============================================================================
