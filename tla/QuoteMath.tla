----------------------------- MODULE QuoteMath -----------------------------
(***************************************************************************)
(* The arithmetic of quote_watcher: the indicators over daily closes, the  *)
(* limit-up test and the ranking of a market scan.                         *)
(*                                                                         *)
(* Prices are integers (hundredths of a yuan).  A quotient is a record     *)
(* [num, den]; the smoothed averages are kept as integers over a common    *)
(* denominator, which every comparison of two of them cancels.             *)
(***************************************************************************)
EXTENDS Integers, Sequences, FiniteSets, SequencesExt

None == [num |-> 0, den |-> 0]
Whole(x) == [num |-> x, den |-> 1]
Gt(x, y) == x.num * y.den > y.num * x.den

LastN(s, n) == SubSeq(s, Len(s) - n + 1, Len(s))
FirstN(s, n) == SubSeq(s, 1, n)

\* Sums(s)[i]: the sum of the first i.
Sums(s) ==
  LET sum[i \in 0..Len(s)] == IF i = 0 THEN 0 ELSE sum[i - 1] + s[i]
  IN  sum
Total(s) == Sums(s)[Len(s)]

HasN(closes, n) == n > 0 /\ Len(closes) >= n

-----------------------------------------------------------------------------
(* Averages and extremes *)

MaFirst(closes, n) ==
  IF HasN(closes, n) THEN [num |-> Total(FirstN(closes, n)), den |-> n] ELSE None
Ma(closes, n) ==
  IF HasN(closes, n) THEN [num |-> Total(LastN(closes, n)), den |-> n] ELSE None

Highest(closes, n) ==
  IF HasN(closes, n) THEN Whole(Max(ToSet(LastN(closes, n)))) ELSE None
Lowest(closes, n) ==
  IF HasN(closes, n) THEN Whole(Min(ToSet(LastN(closes, n)))) ELSE None

\* cross_above as the rules see it: without a value of yesterday it only
\* compares, and comparing None ends the evaluation of the rule.
CrossAbove(a, b, ya, yb) ==
  a # None /\ b # None /\ Gt(a, b) /\ (ya # None /\ yb # None => ~Gt(ya, yb))

-----------------------------------------------------------------------------
(* Wilder's RSI *)

Rises(closes) ==
  [i \in 1..Len(closes) - 1 |-> IF closes[i + 1] > closes[i]
                                THEN closes[i + 1] - closes[i] ELSE 0]
FallsSigned(closes) ==
  [i \in 1..Len(closes) - 1 |-> closes[i] - closes[i + 1]]
Falls(closes) ==
  [i \in 1..Len(closes) - 1 |-> IF closes[i + 1] < closes[i]
                                THEN closes[i] - closes[i + 1] ELSE 0]

\* The average of n after each smoothing step: a sum over its scale, n^(i + 1).
SmoothStep(n, acc, x) ==
  [sum |-> acc.sum * (n - 1) + x * acc.scale, scale |-> acc.scale * n]
Averages(moves, n) ==
  LET avg[i \in 0..Len(moves) - n] ==
        IF i = 0 THEN [sum |-> Total(FirstN(moves, n)), scale |-> n]
        ELSE SmoothStep(n, avg[i - 1], moves[n + i])
  IN  avg
Smoothed(moves, n) == Averages(moves, n)[Len(moves) - n].sum

\* 100 when nothing fell, a flat series included.
Rsi(closes, n) ==
  IF ~HasN(closes, n + 1) \/ n <= 0 THEN None
  ELSE LET gain == Smoothed(Rises(closes), n)
           loss == Smoothed(Falls(closes), n)
       IN IF loss = 0 THEN Whole(100) ELSE [num |-> 100 * gain, den |-> gain + loss]

-----------------------------------------------------------------------------
(* MACD: two exponential averages with weight 2/(n + 1), their difference  *)
(* and its average.                                                        *)

MacdStep(fast, slow, signal, acc, v) ==
  LET f == 2 * v * acc.pf + (fast - 1) * acc.f
      s == 2 * v * acc.ps + (slow - 1) * acc.s
      pf == acc.pf * (fast + 1)
      ps == acc.ps * (slow + 1)
      dif == f * ps - s * pf
  IN [f |-> f, s |-> s, pf |-> pf, ps |-> ps, pg |-> acc.pg * (signal + 1),
      dif |-> dif * acc.pg * (signal + 1),
      dea |-> 2 * dif * acc.pg + (signal - 1) * acc.dea * (fast + 1) * (slow + 1)]

MacdSeries(closes, fast, slow, signal) ==
  LET ema[i \in 0..Len(closes) - 1] ==
        IF i = 0 THEN [f |-> closes[1], s |-> closes[1], pf |-> 1, ps |-> 1,
                       pg |-> 1, dif |-> 0, dea |-> 0]
        ELSE MacdStep(fast, slow, signal, ema[i - 1], closes[i + 1])
  IN  ema

\* The numerators of dif, dea and hist; zeros when there are too few closes.
Macd(closes, fast, slow, signal) ==
  IF Len(closes) < slow + signal THEN [dif |-> 0, dea |-> 0, hist |-> 0]
  ELSE LET end == MacdSeries(closes, fast, slow, signal)[Len(closes) - 1]
       IN [dif |-> end.dif, dea |-> end.dea, hist |-> 2 * (end.dif - end.dea)]

\* After the closes of `prior`, the price p of the moment is below q: then no
\* average over n days, no extreme and no RSI is higher with p, the lowest is
\* never above the highest, and the RSI is between 0 and 100.
AtMost(x, y) == x.num * y.den <= y.num * x.den
PriceMoves(prior, p, q, n) ==
  LET a == Append(prior, p)
      b == Append(prior, q)
  IN /\ AtMost(Ma(a, n), Ma(b, n)) /\ AtMost(Rsi(a, n), Rsi(b, n))
     /\ AtMost(Highest(a, n), Highest(b, n)) /\ AtMost(Lowest(a, n), Lowest(b, n))
     /\ AtMost(Lowest(a, n), Highest(a, n))
     /\ Rsi(a, n) # None => Rsi(a, n).num \in 0..100 * Rsi(a, n).den

\* Nor are the difference and the histogram of the MACD.
PriceMovesMacd(prior, p, q, fast, slow, signal) ==
  LET a == Macd(Append(prior, p), fast, slow, signal)
      b == Macd(Append(prior, q), fast, slow, signal)
  IN a.dif <= b.dif /\ a.hist <= b.hist

-----------------------------------------------------------------------------
(* Limit up and down *)

IsLimitUpTen(price, prev, bid, ask) == ask = 0 /\ bid > 0 /\ 1000 * price > 1100 * prev
IsLimitUp(price, prev, bid, ask) == ask = 0 /\ bid > 0 /\ 1000 * price > 1099 * prev
IsLimitDown(price, prev, bid, ask) == bid = 0 /\ ask > 0 /\ 1000 * price < 901 * prev

\* The exchange: 10 % off the previous close, rounded to the cent.
LimitUpPrice(prev) == (11 * prev + 5) \div 10
LimitDownPrice(prev) == (9 * prev + 5) \div 10

\* A ticker locked at its limit, with orders on one side only, is reported so.
LimitIsSeen(prev) ==
  /\ \A bid \in 1..2 : IsLimitUp(LimitUpPrice(prev), prev, bid, 0)
  /\ \A ask \in 1..2 : IsLimitDown(LimitDownPrice(prev), prev, 0, ask)

-----------------------------------------------------------------------------
(* rank_market: rows are [ticker, pct, ratio], NoRatio for a missing ratio *)

NoRatio == -1

\* The places of kept that are ranked before place k: those with a larger key,
\* and those with the same one that come earlier in the feed.
Before(kept, key, k) ==
  {j \in kept : key[j] > key[k] \/ (key[j] = key[k] /\ j < k)}

\* The first n rows of that order.
Top(rows, n, kept, key) ==
  {rows[i] : i \in {k \in kept : Cardinality(Before(kept, key, k)) < n}}

Pct(rows) == [i \in DOMAIN rows |-> rows[i].pct]
MinusPct(rows) == [i \in DOMAIN rows |-> -rows[i].pct]
Ratio(rows) == [i \in DOMAIN rows |-> rows[i].ratio]

Rising(rows, threshold) == {i \in DOMAIN rows : rows[i].pct > threshold}
Falling(rows, threshold) == {i \in DOMAIN rows : rows[i].pct < -threshold}
Traded(rows, threshold) ==
  {i \in DOMAIN rows : rows[i].ratio # NoRatio /\ rows[i].ratio >= threshold}

Gainers(rows, n, threshold) == Top(rows, n, Rising(rows, threshold), Pct(rows))
LosersReversed(rows, n, threshold) == Top(rows, n, Falling(rows, threshold), Pct(rows))
Losers(rows, n, threshold) == Top(rows, n, Falling(rows, threshold), MinusPct(rows))
Volumes(rows, n, threshold) == Top(rows, n, Traded(rows, threshold), Ratio(rows))
=============================================================================
