--------------------------- MODULE AlgorithmProofs ---------------------------
(***************************************************************************)
(* Proofs about the algorithms without processes.  Ranking, for any        *)
(* contestants, any measured values and any correctness rates: ranks are   *)
(* fair, no one loses a rank by an improvement, and the ticker tells every *)
(* change.  The score is a sum of three quotients, rounded and clamped;    *)
(* what is needed of it is its order, so the first part shows how each     *)
(* quotient moves and that the score moves with them.  The second part     *)
(* shows what the loop over the sorted entries gives as ranks, and that a  *)
(* rank counts those with more points, however ties were sorted.           *)
(* Matching, for any ids, prices, quantities and any number of orders: the *)
(* book stays sound, and the bot's own copy of it right.  What the two     *)
(* loops leave of a side is shown round by round, then what resting and    *)
(* cancelling make of one, and at last what every call makes of a book.    *)
(* The last part shows that these calls are those of the abstract book,    *)
(* that is, price-time priority.                                           *)
(***************************************************************************)
EXTENDS Ranking, BotBook, DataLemmas, FunctionTheorems, SequenceTheorems

-----------------------------------------------------------------------------
(* The score as a function of its fractions. *)

\* Products keep the order of their factors, ...
LEMMA TimesMono ==
  ASSUME NEW a \in Int, NEW b \in Int, NEW c \in Nat, a <= b
  PROVE  a * c <= b * c
OBVIOUS

\* ... and show it.
LEMMA TimesCancel ==
  ASSUME NEW a \in Int, NEW b \in Int, NEW c \in Nat \ {0}, a * c <= b * c
  PROVE  a <= b
OBVIOUS

\* Rounding keeps the order of fractions.
LEMMA RoundMono ==
  ASSUME NEW n1 \in Nat, NEW d1 \in Nat \ {0}, NEW n2 \in Nat, NEW d2 \in Nat \ {0},
         n1 * d2 <= n2 * d1
  PROVE  round2(n1, d1) <= round2(n2, d2)
<1> DEFINE k == (2 * n1 + d1) \div (2 * d1)
           j == (2 * n2 + d2) \div (2 * d2)
<1>1. k \in Int /\ j \in Int /\ k * (2 * d1) <= 2 * n1 + d1 /\ 2 * n2 + d2 < (j + 1) * (2 * d2)
  OBVIOUS
<1>2. round2(n1, d1) = k /\ round2(n2, d2) = j  BY DEF round2
<1> HIDE DEF k, j
<1>3. (k * (2 * d1)) * d2 <= (2 * n1 + d1) * d2  BY <1>1, TimesMono
<1>4. (2 * n2 + d2) * d1 < ((j + 1) * (2 * d2)) * d1  BY <1>1
<1>5. (2 * n1 + d1) * d2 <= (2 * n2 + d2) * d1  OBVIOUS
<1>6. (k * (2 * d1)) * d2 < ((j + 1) * (2 * d2)) * d1  BY <1>1, <1>3, <1>4, <1>5
<1>7. k < j + 1  BY <1>1, <1>6
<1> QED BY <1>1, <1>2, <1>7

\* The score of the fractions a / A of throughput, b / B of latency and
\* q / MaxRate of correct answers.
ScoreOf(t, ofT, l, ofL, q) ==
  clamp(round2(4000 * t * ofL * MaxRate + 4000 * l * ofT * MaxRate + 2000 * q * ofT * ofL,
               ofT * ofL * MaxRate), 0, 10000)

IsScore(x) == x \in Points

\* A score is clamped.
LEMMA ScoreIsInRange ==
  ASSUME NEW a \in Nat, NEW d1 \in Nat \ {0}, NEW b \in Nat, NEW d2 \in Nat \ {0}, NEW q \in Nat
  PROVE  IsScore(ScoreOf(a, d1, b, d2, q))
<1> DEFINE n == 4000 * a * d2 * MaxRate + 4000 * b * d1 * MaxRate + 2000 * q * d1 * d2
           d == d1 * d2 * MaxRate
<1>1. MaxRate \in Nat \ {0}  BY RankingAssumption
<1>2. n \in Nat /\ d \in Nat \ {0}  BY <1>1
<1> HIDE DEF n, d
<1>3. round2(n, d) \in Int  BY <1>2 DEF round2
<1>4. PICK v \in Int : v = round2(n, d)  BY <1>3
<1>5. PICK u : u = clamp(v, 0, 10000) /\ IsScore(u)
  <2>1. clamp(v, 0, 10000) \in 0 .. 10000  BY DEF clamp
  <2> QED  BY <2>1 DEF IsScore, Points
<1>6. ScoreOf(a, d1, b, d2, q) = u  BY <1>4, <1>5 DEF ScoreOf, n, d
<1>7. IsScore(u)  BY <1>5
<1> QED  BY <1>6, <1>7

\* No fraction smaller makes no score smaller.
LEMMA ScoreMono ==
  ASSUME NEW a1 \in Nat, NEW A1 \in Nat \ {0}, NEW b1 \in Nat, NEW B1 \in Nat \ {0}, NEW q1 \in Nat,
         NEW a2 \in Nat, NEW A2 \in Nat \ {0}, NEW b2 \in Nat, NEW B2 \in Nat \ {0}, NEW q2 \in Nat,
         a1 * A2 <= a2 * A1, b1 * B2 <= b2 * B1, q1 <= q2
  PROVE  ScoreOf(a1, A1, b1, B1, q1) <= ScoreOf(a2, A2, b2, B2, q2)
<1> DEFINE M == MaxRate
           n1 == 4000 * a1 * B1 * MaxRate + 4000 * b1 * A1 * MaxRate + 2000 * q1 * A1 * B1
           d1 == A1 * B1 * MaxRate
           n2 == 4000 * a2 * B2 * MaxRate + 4000 * b2 * A2 * MaxRate + 2000 * q2 * A2 * B2
           d2 == A2 * B2 * MaxRate
<1>1. MaxRate \in Nat \ {0}  BY RankingAssumption
<1>2. n1 \in Nat /\ d1 \in Nat \ {0} /\ n2 \in Nat /\ d2 \in Nat \ {0}  BY <1>1
<1>3. n1 * d2 <= n2 * d1
  <2> DEFINE x == B1 * B2 * M * M
             y == A1 * A2 * M * M
             z == A1 * B1 * A2 * B2 * M
  <2>1. x \in Nat /\ y \in Nat /\ z \in Nat  BY <1>1
  <2>2. n1 * d2 = 4000 * ((a1 * A2) * x) + 4000 * ((b1 * B2) * y) + 2000 * (q1 * z)
    BY <1>1
  <2>3. n2 * d1 = 4000 * ((a2 * A1) * x) + 4000 * ((b2 * B1) * y) + 2000 * (q2 * z)
    BY <1>1
  <2> HIDE DEF x, y, z, n1, n2, d1, d2
  <2>4. (a1 * A2) * x <= (a2 * A1) * x  BY <2>1, TimesMono
  <2>5. (b1 * B2) * y <= (b2 * B1) * y  BY <2>1, TimesMono
  <2>6. q1 * z <= q2 * z  BY <2>1, TimesMono
  <2> DEFINE u1 == (a1 * A2) * x
             u2 == (a2 * A1) * x
             v1 == (b1 * B2) * y
             v2 == (b2 * B1) * y
             w1 == q1 * z
             w2 == q2 * z
  <2>7. u1 \in Int /\ u2 \in Int /\ v1 \in Int /\ v2 \in Int /\ w1 \in Int /\ w2 \in Int  BY <2>1
  <2>8. u1 <= u2 /\ v1 <= v2 /\ w1 <= w2  BY <2>4, <2>5, <2>6
  <2>9. n1 * d2 = 4000 * u1 + 4000 * v1 + 2000 * w1 /\ n2 * d1 = 4000 * u2 + 4000 * v2 + 2000 * w2
    BY <2>2, <2>3
  <2> HIDE DEF u1, u2, v1, v2, w1, w2
  <2> QED  BY <2>7, <2>8, <2>9
<1> HIDE DEF n1, d1, n2, d2
<1>4. round2(n1, d1) <= round2(n2, d2)  BY <1>2, <1>3, RoundMono
<1>5. round2(n1, d1) \in Int /\ round2(n2, d2) \in Int  BY <1>2 DEF round2
<1>6. clamp(round2(n1, d1), 0, 10000) <= clamp(round2(n2, d2), 0, 10000)  BY <1>4, <1>5 DEF clamp
<1> QED  BY <1>6 DEF ScoreOf, n1, d1, n2, d2

-----------------------------------------------------------------------------
(* The fractions. *)

\* Nothing is less than no part, ...
LEMMA NoPart == ASSUME NEW b \in Nat, NEW c \in Nat, NEW d \in Nat PROVE 0 * b <= c * d
<1>1. 0 * b = 0 /\ c * d \in Nat  OBVIOUS
<1> QED  BY <1>1

\* ... and nothing more than the whole.
LEMMA WholeIsMost == ASSUME NEW a \in Nat, NEW d \in Nat, a <= d, NEW c \in Nat PROVE a * c <= c * d
<1>1. a * c <= d * c  BY TimesMono
<1>2. d * c = c * d  OBVIOUS
<1> QED  BY <1>1, <1>2

\* norm of a value between the extremes is a fraction of at most one.
LEMMA NormIsFraction ==
  ASSUME NEW lo \in Nat, NEW hi \in Nat, NEW v \in lo .. hi
  PROVE  /\ norm(v, lo, hi).num \in Nat /\ norm(v, lo, hi).den \in Nat \ {0}
         /\ latencyCredit(norm(v, lo, hi)) \in Nat
         /\ norm(v, lo, hi).num <= norm(v, lo, hi).den
BY DEF norm, latencyCredit

\* Within one field more throughput is never worth less, nor less latency.
LEMMA NormMono ==
  ASSUME NEW lo \in Nat, NEW hi \in Nat, NEW v \in lo .. hi, NEW w \in lo .. hi, v <= w
  PROVE  /\ norm(v, lo, hi).den = norm(w, lo, hi).den
         /\ norm(v, lo, hi).num <= norm(w, lo, hi).num
         /\ latencyCredit(norm(w, lo, hi)) <= latencyCredit(norm(v, lo, hi))
BY DEF norm, latencyCredit

\* lo and hi are the extremes of a field of which one value is v and the
\* others are those in O.
Extreme(lo, hi, O, v) ==
  /\ lo \in O \cup {v} /\ hi \in O \cup {v}
  /\ \A x \in O \cup {v} : lo <= x /\ x <= hi

\* v rises to w: its own norm does not fall.
LEMMA RiserGains ==
  ASSUME NEW O \in SUBSET Nat, NEW v \in Nat, NEW w \in Nat, v <= w,
         NEW lo \in Nat, NEW hi \in Nat, Extreme(lo, hi, O, v),
         NEW lo2 \in Nat, NEW hi2 \in Nat, Extreme(lo2, hi2, O, w)
  PROVE  norm(v, lo, hi).num * norm(w, lo2, hi2).den <= norm(w, lo2, hi2).num * norm(v, lo, hi).den
<1>1. v \in lo .. hi /\ w \in lo2 .. hi2  BY DEF Extreme
<1>2. CASE w = hi2
  <2>1. norm(w, lo2, hi2).num = norm(w, lo2, hi2).den  BY <1>1, <1>2 DEF norm
  <2>2. /\ norm(v, lo, hi).num \in Nat /\ norm(v, lo, hi).den \in Nat
        /\ norm(v, lo, hi).num <= norm(v, lo, hi).den /\ norm(w, lo2, hi2).den \in Nat
    BY <1>1, NormIsFraction
  <2> QED  BY <2>1, <2>2, WholeIsMost
<1>3. CASE w # hi2
  <2>1. hi2 = hi /\ lo <= lo2  BY <1>3 DEF Extreme
  <2>2. CASE lo2 = lo  BY <1>1, <2>1, <2>2, NormIsFraction DEF norm
  <2>3. CASE lo2 # lo
    <3>1. lo = v  BY <2>1, <2>3 DEF Extreme
    <3>2. lo # hi  BY <1>1, <1>3, <2>1, <3>1
    <3>3. norm(v, lo, hi).num = 0  BY <3>1, <3>2 DEF norm
    <3>4. /\ norm(w, lo2, hi2).num \in Nat /\ norm(w, lo2, hi2).den \in Nat
          /\ norm(v, lo, hi).den \in Nat
      BY <1>1, NormIsFraction
    <3> QED  BY <3>3, <3>4, NoPart
  <2> QED  BY <2>2, <2>3
<1> QED  BY <1>2, <1>3

\* v rises to w: nobody else's norm rises.
LEMMA OthersDoNotGain ==
  ASSUME NEW O \in SUBSET Nat, NEW v \in Nat, NEW w \in Nat, v <= w,
         NEW lo \in Nat, NEW hi \in Nat, Extreme(lo, hi, O, v),
         NEW lo2 \in Nat, NEW hi2 \in Nat, Extreme(lo2, hi2, O, w),
         NEW x \in O
  PROVE  norm(x, lo2, hi2).num * norm(x, lo, hi).den <= norm(x, lo, hi).num * norm(x, lo2, hi2).den
<1>1. x \in lo .. hi /\ x \in lo2 .. hi2  BY DEF Extreme
<1>2. hi <= hi2 /\ lo <= lo2  BY DEF Extreme
<1>3. CASE hi = lo \/ x = hi
  <2>1. norm(x, lo, hi).num = norm(x, lo, hi).den  BY <1>1, <1>3 DEF norm
  <2>2. /\ norm(x, lo2, hi2).num \in Nat /\ norm(x, lo2, hi2).den \in Nat
        /\ norm(x, lo2, hi2).num <= norm(x, lo2, hi2).den /\ norm(x, lo, hi).den \in Nat
    BY <1>1, NormIsFraction
  <2> QED  BY <2>1, <2>2, WholeIsMost
<1>4. CASE hi # lo /\ hi2 = lo2
  <2>1. x = hi  BY <1>4, <1>2, <1>1
  <2> QED  BY <2>1, <1>3
<1>5. CASE hi # lo /\ hi2 # lo2
  <2>1. /\ norm(x, lo2, hi2).num = x - lo2 /\ norm(x, lo2, hi2).den = hi2 - lo2
        /\ norm(x, lo, hi).num = x - lo /\ norm(x, lo, hi).den = hi - lo
    BY <1>5 DEF norm
  <2>2. (x - lo) * (hi - lo2) <= (x - lo) * (hi2 - lo2)
    <3>1. x - lo \in Nat /\ hi - lo2 \in Int /\ hi2 - lo2 \in Int /\ hi - lo2 <= hi2 - lo2  BY <1>1, <1>2
    <3> QED  BY <3>1
  <2>3. (hi - x) * (lo2 - lo) >= 0
    <3>1. hi - x \in Nat /\ lo2 - lo \in Nat  BY <1>1, <1>2
    <3> QED  BY <3>1
  <2>4. (x - lo) * (hi - lo2) - (x - lo2) * (hi - lo) = (hi - x) * (lo2 - lo)  OBVIOUS
  <2>5. (x - lo2) * (hi - lo) <= (x - lo) * (hi2 - lo2)
    <3> DEFINE p == (x - lo) * (hi - lo2)
               q == (x - lo2) * (hi - lo)
               r == (hi - x) * (lo2 - lo)
               s == (x - lo) * (hi2 - lo2)
    <3>1. p \in Int /\ q \in Int /\ r \in Int /\ s \in Int  OBVIOUS
    <3>2. p <= s /\ r >= 0 /\ p - q = r  BY <2>2, <2>3, <2>4
    <3> HIDE DEF p, q, r, s
    <3>3. q <= s  BY <3>1, <3>2
    <3> QED  BY <3>3 DEF q, s
  <2> QED  BY <2>1, <2>5
<1> QED  BY <1>3, <1>4, <1>5

\* v falls to w: its own latency credit does not fall.
LEMMA FallerGains ==
  ASSUME NEW O \in SUBSET Nat, NEW v \in Nat, NEW w \in Nat, w <= v,
         NEW lo \in Nat, NEW hi \in Nat, Extreme(lo, hi, O, v),
         NEW lo2 \in Nat, NEW hi2 \in Nat, Extreme(lo2, hi2, O, w)
  PROVE  latencyCredit(norm(v, lo, hi)) * norm(w, lo2, hi2).den
           <= latencyCredit(norm(w, lo2, hi2)) * norm(v, lo, hi).den
<1>1. v \in lo .. hi /\ w \in lo2 .. hi2  BY DEF Extreme
<1>2. CASE v = hi
  <2>1. latencyCredit(norm(v, lo, hi)) = 0  BY <1>1, <1>2 DEF norm, latencyCredit
  <2>2. /\ latencyCredit(norm(w, lo2, hi2)) \in Nat /\ norm(w, lo2, hi2).den \in Nat
        /\ norm(v, lo, hi).den \in Nat
    BY <1>1, NormIsFraction
  <2> QED  BY <2>1, <2>2, NoPart
<1>3. CASE v # hi
  <2>1. hi2 = hi /\ lo2 <= lo /\ lo # hi  BY <1>3 DEF Extreme
  <2>2. CASE w = lo2
    <3>1. lo2 # hi2  BY <1>1, <1>3, <2>1, <2>2
    <3>2. latencyCredit(norm(w, lo2, hi2)) = norm(w, lo2, hi2).den
      BY <2>2, <3>1 DEF norm, latencyCredit
    <3>3. latencyCredit(norm(v, lo, hi)) <= norm(v, lo, hi).den  BY <1>1 DEF norm, latencyCredit
    <3>4. /\ latencyCredit(norm(v, lo, hi)) \in Nat /\ norm(v, lo, hi).den \in Nat
          /\ norm(w, lo2, hi2).den \in Nat
      BY <1>1, NormIsFraction
    <3> QED  BY <3>2, <3>3, <3>4, TimesMono
  <2>3. CASE w # lo2
    <3>1. lo2 = lo  BY <2>1, <2>3 DEF Extreme
    <3> QED  BY <1>1, <2>1, <3>1 DEF norm, latencyCredit
  <2> QED  BY <2>2, <2>3
<1> QED  BY <1>2, <1>3

\* v falls to w: nobody else's latency credit rises.
LEMMA OthersGainNoCredit ==
  ASSUME NEW O \in SUBSET Nat, NEW v \in Nat, NEW w \in Nat, w <= v,
         NEW lo \in Nat, NEW hi \in Nat, Extreme(lo, hi, O, v),
         NEW lo2 \in Nat, NEW hi2 \in Nat, Extreme(lo2, hi2, O, w),
         NEW x \in O
  PROVE  latencyCredit(norm(x, lo2, hi2)) * norm(x, lo, hi).den
           <= latencyCredit(norm(x, lo, hi)) * norm(x, lo2, hi2).den
<1>1. x \in lo .. hi /\ x \in lo2 .. hi2  BY DEF Extreme
<1>2. hi2 <= hi /\ lo2 <= lo  BY DEF Extreme
<1>3. CASE hi2 = lo2 \/ x = hi2
  <2>1. latencyCredit(norm(x, lo2, hi2)) = 0  BY <1>1, <1>3 DEF norm, latencyCredit
  <2>2. /\ latencyCredit(norm(x, lo, hi)) \in Nat /\ norm(x, lo, hi).den \in Nat
        /\ norm(x, lo2, hi2).den \in Nat
    BY <1>1, NormIsFraction
  <2> QED  BY <2>1, <2>2, NoPart
<1>4. CASE hi2 # lo2 /\ hi = lo
  <2>1. x = hi /\ x = hi2  BY <1>4, <1>2, <1>1
  <2> QED  BY <2>1, <1>3
<1>5. CASE hi2 # lo2 /\ hi # lo
  <2>1. /\ latencyCredit(norm(x, lo2, hi2)) = hi2 - x /\ norm(x, lo2, hi2).den = hi2 - lo2
        /\ latencyCredit(norm(x, lo, hi)) = hi - x /\ norm(x, lo, hi).den = hi - lo
    BY <1>5 DEF norm, latencyCredit
  <2>2. (hi - x) * (hi2 - lo) <= (hi - x) * (hi2 - lo2)
    <3>1. hi - x \in Nat /\ hi2 - lo \in Int /\ hi2 - lo2 \in Int /\ hi2 - lo <= hi2 - lo2  BY <1>1, <1>2
    <3> QED  BY <3>1
  <2>3. (hi - hi2) * (x - lo) >= 0
    <3>1. hi - hi2 \in Nat /\ x - lo \in Nat  BY <1>1, <1>2
    <3> QED  BY <3>1
  <2>4. (hi - x) * (hi2 - lo) - (hi2 - x) * (hi - lo) = (hi - hi2) * (x - lo)  OBVIOUS
  <2>5. (hi2 - x) * (hi - lo) <= (hi - x) * (hi2 - lo2)
    <3> DEFINE p == (hi - x) * (hi2 - lo)
               q == (hi2 - x) * (hi - lo)
               r == (hi - hi2) * (x - lo)
               s == (hi - x) * (hi2 - lo2)
    <3>1. p \in Int /\ q \in Int /\ r \in Int /\ s \in Int  OBVIOUS
    <3>2. p <= s /\ r >= 0 /\ p - q = r  BY <2>2, <2>3, <2>4
    <3> HIDE DEF p, q, r, s
    <3>3. q <= s  BY <3>1, <3>2
    <3> QED  BY <3>3 DEF q, s
  <2> QED  BY <2>1, <2>5
<1> QED  BY <1>3, <1>4, <1>5

-----------------------------------------------------------------------------
(* The scores of a field. *)

RowSet == [Ranked -> Rows \cup {NoRow}]

\* Those with a row, their throughputs and their latencies.
Entered(rows) == {c \in Ranked : rows[c] # NoRow}
TPSsOf(rows) == {rows[c].tps : c \in Entered(rows)}
P99sOf(rows) == {rows[c].p99 : c \in Entered(rows)}

\* The score of one that has a row.
ScoreIn(rows, c) ==
  ScoreOf(norm(rows[c].tps, Min(TPSsOf(rows)), Max(TPSsOf(rows))).num,
          norm(rows[c].tps, Min(TPSsOf(rows)), Max(TPSsOf(rows))).den,
          latencyCredit(norm(rows[c].p99, Min(P99sOf(rows)), Max(P99sOf(rows)))),
          norm(rows[c].p99, Min(P99sOf(rows)), Max(P99sOf(rows))).den,
          rows[c].rate)

\* The row of one who has entered.
LEMMA RowTypes ==
  ASSUME NEW rows \in RowSet, NEW c \in Entered(rows)
  PROVE  /\ c \in Ranked /\ rows[c] \in Rows
         /\ rows[c].tps \in Nat /\ rows[c].p99 \in Nat /\ rows[c].rate \in 0 .. MaxRate
         /\ rows[c].rate \in Nat
<1>1. c \in Ranked /\ rows[c] \in Rows  BY DEF RowSet, Entered
<1>2. MaxRate \in Nat /\ TPSs \subseteq Nat /\ P99s \subseteq Nat  BY RankingAssumption
<1>3. rows[c].tps \in TPSs /\ rows[c].p99 \in P99s /\ rows[c].rate \in 0 .. MaxRate  BY <1>1 DEF Rows
<1>4. \A n \in 0 .. MaxRate : n \in Nat  BY <1>2
<1> QED  BY <1>1, <1>2, <1>3, <1>4

\* Finitely many have entered, so their values have extremes.
LEMMA FieldIsFinite ==
  ASSUME NEW rows \in RowSet, Entered(rows) # {}
  PROVE  /\ IsFiniteSet(Entered(rows))
         /\ TPSsOf(rows) \in SUBSET Nat /\ IsFiniteSet(TPSsOf(rows)) /\ TPSsOf(rows) # {}
         /\ P99sOf(rows) \in SUBSET Nat /\ IsFiniteSet(P99sOf(rows)) /\ P99sOf(rows) # {}
<1> DEFINE E == Entered(rows)
           f == [c \in E |-> rows[c].tps]
           g == [c \in E |-> rows[c].p99]
<1>1. IsFiniteSet(E)
  <2>1. E \in SUBSET Ranked  BY DEF Entered
  <2> QED  BY <2>1, RankingAssumption, FS_Subset
<1>2. TPSsOf(rows) = {f[c] : c \in E} /\ P99sOf(rows) = {g[c] : c \in E}  BY DEF TPSsOf, P99sOf
<1>3. IsFiniteSet(TPSsOf(rows)) /\ IsFiniteSet(P99sOf(rows))
  <2> HIDE DEF E
  <2>1. DOMAIN f = E /\ DOMAIN g = E  OBVIOUS
  <2> HIDE DEF f, g
  <2> QED  BY <1>1, <1>2, <2>1, ImageIsFinite
<1>4. TPSsOf(rows) \in SUBSET Nat /\ P99sOf(rows) \in SUBSET Nat
  BY RowTypes DEF TPSsOf, P99sOf
<1>5. TPSsOf(rows) # {} /\ P99sOf(rows) # {}  BY DEF TPSsOf, P99sOf
<1> QED  BY <1>1, <1>3, <1>4, <1>5

\* The extremes of a field, seen from one of its members.
LEMMA FieldExtremes ==
  ASSUME NEW rows \in RowSet, NEW c \in Entered(rows)
  PROVE  LET others == Entered(rows) \ {c}
             tl == Min(TPSsOf(rows))
             th == Max(TPSsOf(rows))
             pl == Min(P99sOf(rows))
             ph == Max(P99sOf(rows)) IN
         /\ tl \in Nat /\ th \in Nat /\ pl \in Nat /\ ph \in Nat
         /\ rows[c].tps \in tl .. th /\ rows[c].p99 \in pl .. ph
         /\ Extreme(tl, th, {rows[d].tps : d \in others}, rows[c].tps)
         /\ Extreme(pl, ph, {rows[d].p99 : d \in others}, rows[c].p99)
<1> DEFINE others == Entered(rows) \ {c}
           T == TPSsOf(rows)
           P == P99sOf(rows)
<1>1. /\ T \in SUBSET Nat /\ IsFiniteSet(T) /\ T # {}
      /\ P \in SUBSET Nat /\ IsFiniteSet(P) /\ P # {}
  BY FieldIsFinite
<1>2. T = {rows[d].tps : d \in others} \cup {rows[c].tps}  BY DEF TPSsOf
<1>3. P = {rows[d].p99 : d \in others} \cup {rows[c].p99}  BY DEF P99sOf
<1> HIDE DEF T, P, others
<1>4. T \in SUBSET Int /\ P \in SUBSET Int  BY <1>1
<1>5. Min(T) \in T /\ Max(T) \in T /\ \A y \in T : Min(T) <= y /\ y <= Max(T)  BY <1>1, <1>4, MinOf, MaxOf
<1>6. Min(P) \in P /\ Max(P) \in P /\ \A y \in P : Min(P) <= y /\ y <= Max(P)  BY <1>1, <1>4, MinOf, MaxOf
<1>7. rows[c].tps \in T /\ rows[c].p99 \in P  BY <1>2, <1>3
<1>8. /\ Min(T) \in Nat /\ Max(T) \in Nat /\ Min(P) \in Nat /\ Max(P) \in Nat
      /\ rows[c].tps \in Min(T) .. Max(T) /\ rows[c].p99 \in Min(P) .. Max(P)
  <2>1. \A l, h, x \in Nat : l <= x /\ x <= h => x \in l .. h  OBVIOUS
  <2>2. Min(T) \in Nat /\ Max(T) \in Nat /\ Min(P) \in Nat /\ Max(P) \in Nat
        /\ rows[c].tps \in Nat /\ rows[c].p99 \in Nat
    BY <1>1, <1>5, <1>6, <1>7
  <2>3. /\ Min(T) <= rows[c].tps /\ rows[c].tps <= Max(T)
        /\ Min(P) <= rows[c].p99 /\ rows[c].p99 <= Max(P)
    BY <1>5, <1>6, <1>7
  <2> QED  BY <2>1, <2>2, <2>3, Zenon
<1>9. Extreme(Min(T), Max(T), {rows[d].tps : d \in others}, rows[c].tps)  BY <1>2, <1>5 DEF Extreme
<1>10. Extreme(Min(P), Max(P), {rows[d].p99 : d \in others}, rows[c].p99)  BY <1>3, <1>6 DEF Extreme
<1> QED  BY <1>8, <1>9, <1>10 DEF T, P, others

\* The fractions a score is made of.
LEMMA FractionTypes ==
  ASSUME NEW rows \in RowSet, NEW c \in Entered(rows)
  PROVE  LET nt == norm(rows[c].tps, Min(TPSsOf(rows)), Max(TPSsOf(rows)))
             np == norm(rows[c].p99, Min(P99sOf(rows)), Max(P99sOf(rows))) IN
         /\ nt.num \in Nat /\ nt.den \in Nat \ {0}
         /\ latencyCredit(np) \in Nat /\ np.den \in Nat \ {0}
BY FieldExtremes, NormIsFraction

\* computeCompositeScore is the score of those fractions.
LEMMA ScoreIsOfFractions ==
  ASSUME NEW rows \in RowSet, NEW c \in Entered(rows)
  PROVE  /\ computeCompositeScore(rows[c], {rows[d] : d \in Entered(rows)}) = ScoreIn(rows, c)
         /\ IsScore(ScoreIn(rows, c))
<1> DEFINE F == {rows[d] : d \in Entered(rows)}
           nt == norm(rows[c].tps, Min(TPSsOf(rows)), Max(TPSsOf(rows)))
           np == norm(rows[c].p99, Min(P99sOf(rows)), Max(P99sOf(rows)))
           a == nt.num
           ofT == nt.den
           l == latencyCredit(np)
           ofL == np.den
<1>1. tpsIn(F) = TPSsOf(rows) /\ p99In(F) = P99sOf(rows)  BY DEF TPSsOf, P99sOf, tpsIn, p99In
<1> HIDE DEF F
<1>2. computeCompositeScore(rows[c], F) = ScoreOf(a, ofT, l, ofL, rows[c].rate)
  BY <1>1 DEF computeCompositeScore, ScoreOf
<1>3. ScoreIn(rows, c) = ScoreOf(a, ofT, l, ofL, rows[c].rate)  BY DEF ScoreIn
<1>4. a \in Nat /\ ofT \in Nat \ {0} /\ l \in Nat /\ ofL \in Nat \ {0}
  BY FractionTypes
<1>5. rows[c].rate \in Nat  BY RowTypes
<1> HIDE DEF nt, np, a, ofT, l, ofL
<1>6. IsScore(ScoreOf(a, ofT, l, ofL, rows[c].rate))
  BY <1>4, <1>5, ScoreIsInRange, Zenon
<1>7. computeCompositeScore(rows[c], F) = ScoreIn(rows, c) /\ IsScore(ScoreIn(rows, c))
  BY <1>2, <1>3, <1>6
<1> QED  BY <1>7 DEF F

\* One at least as good in everything scores at least as much.
LEMMA BetterScoresMore ==
  ASSUME NEW rows \in RowSet, NEW c \in Entered(rows), NEW d \in Entered(rows),
         rows[c].tps >= rows[d].tps, rows[c].p99 <= rows[d].p99, rows[c].rate >= rows[d].rate
  PROVE  ScoreIn(rows, d) <= ScoreIn(rows, c)
<1> DEFINE tl == Min(TPSsOf(rows))
           th == Max(TPSsOf(rows))
           pl == Min(P99sOf(rows))
           ph == Max(P99sOf(rows))
           ntc == norm(rows[c].tps, tl, th)
           ntd == norm(rows[d].tps, tl, th)
           npc == norm(rows[c].p99, pl, ph)
           npd == norm(rows[d].p99, pl, ph)
<1>1. /\ tl \in Nat /\ th \in Nat /\ pl \in Nat /\ ph \in Nat
      /\ rows[c].tps \in tl .. th /\ rows[c].p99 \in pl .. ph
      /\ rows[d].tps \in tl .. th /\ rows[d].p99 \in pl .. ph
  BY FieldExtremes
<1>2. /\ ntc.num \in Nat /\ ntc.den \in Nat \ {0} /\ latencyCredit(npc) \in Nat /\ npc.den \in Nat \ {0}
      /\ ntd.num \in Nat /\ ntd.den \in Nat \ {0} /\ latencyCredit(npd) \in Nat /\ npd.den \in Nat \ {0}
  BY FractionTypes
<1>3. rows[c].rate \in Nat /\ rows[d].rate \in Nat /\ rows[d].rate <= rows[c].rate  BY RowTypes
<1> HIDE DEF tl, th, pl, ph
<1>4. ntd.den = ntc.den /\ ntd.num <= ntc.num  BY <1>1, NormMono
<1>5. npd.den = npc.den /\ latencyCredit(npd) <= latencyCredit(npc)  BY <1>1, NormMono
<1> DEFINE a == ntc.num
           b == ntd.num
           A == ntc.den
           l == latencyCredit(npc)
           k == latencyCredit(npd)
           L == npc.den
<1>6. ScoreIn(rows, c) = ScoreOf(a, A, l, L, rows[c].rate)  BY DEF ScoreIn, tl, th, pl, ph
<1>7. ScoreIn(rows, d) = ScoreOf(b, A, k, L, rows[d].rate)  BY <1>4, <1>5 DEF ScoreIn, tl, th, pl, ph
<1>8. /\ a \in Nat /\ b \in Nat /\ A \in Nat \ {0} /\ l \in Nat /\ k \in Nat /\ L \in Nat \ {0}
      /\ b <= a /\ k <= l
  BY <1>2, <1>4, <1>5
<1> HIDE DEF ntc, ntd, npc, npd, a, b, A, l, k, L
<1>9. b * A <= a * A /\ k * L <= l * L  BY <1>8, TimesMono
<1>10. ScoreOf(b, A, k, L, rows[d].rate) <= ScoreOf(a, A, l, L, rows[c].rate)
  BY <1>3, <1>8, <1>9, ScoreMono
<1> QED  BY <1>6, <1>7, <1>10

\* When only c's numbers change, and none of them for the worse, its score
\* does not fall and nobody else's rises.
LEMMA ImprovementMovesScores ==
  ASSUME NEW rows \in RowSet, NEW rows2 \in RowSet,
         NEW c \in Entered(rows), c \in Entered(rows2),
         \A d \in Ranked \ {c} : rows2[d] = rows[d],
         rows2[c].tps >= rows[c].tps, rows2[c].p99 <= rows[c].p99, rows2[c].rate >= rows[c].rate
  PROVE  /\ Entered(rows2) = Entered(rows)
         /\ ScoreIn(rows, c) <= ScoreIn(rows2, c)
         /\ \A d \in Entered(rows) \ {c} : ScoreIn(rows2, d) <= ScoreIn(rows, d)
<1> DEFINE others == Entered(rows) \ {c}
           T == {rows[d].tps : d \in others}
           P == {rows[d].p99 : d \in others}
           tl == Min(TPSsOf(rows))
           th == Max(TPSsOf(rows))
           pl == Min(P99sOf(rows))
           ph == Max(P99sOf(rows))
           tl2 == Min(TPSsOf(rows2))
           th2 == Max(TPSsOf(rows2))
           pl2 == Min(P99sOf(rows2))
           ph2 == Max(P99sOf(rows2))
<1>1. Entered(rows2) = Entered(rows)  BY DEF Entered
<1>2. \A d \in others : rows2[d] = rows[d]  BY DEF Entered
<1>3. {rows2[d].tps : d \in Entered(rows2) \ {c}} = T  BY <1>1, <1>2
<1>4. {rows2[d].p99 : d \in Entered(rows2) \ {c}} = P  BY <1>1, <1>2
<1>5. /\ tl \in Nat /\ th \in Nat /\ pl \in Nat /\ ph \in Nat
      /\ Extreme(tl, th, T, rows[c].tps) /\ Extreme(pl, ph, P, rows[c].p99)
  BY FieldExtremes
<1>6. /\ tl2 \in Nat /\ th2 \in Nat /\ pl2 \in Nat /\ ph2 \in Nat
      /\ Extreme(tl2, th2, T, rows2[c].tps) /\ Extreme(pl2, ph2, P, rows2[c].p99)
  BY <1>3, <1>4, FieldExtremes
<1>7. T \in SUBSET Nat /\ P \in SUBSET Nat  BY RowTypes
<1>8. /\ rows[c].tps \in Nat /\ rows2[c].tps \in Nat /\ rows[c].p99 \in Nat /\ rows2[c].p99 \in Nat
      /\ rows[c].rate \in Nat /\ rows2[c].rate \in Nat
  BY RowTypes
<1>9. \A d \in Entered(rows) :
        /\ norm(rows[d].tps, tl, th).num \in Nat /\ norm(rows[d].tps, tl, th).den \in Nat \ {0}
        /\ latencyCredit(norm(rows[d].p99, pl, ph)) \in Nat /\ norm(rows[d].p99, pl, ph).den \in Nat \ {0}
        /\ norm(rows2[d].tps, tl2, th2).num \in Nat /\ norm(rows2[d].tps, tl2, th2).den \in Nat \ {0}
        /\ latencyCredit(norm(rows2[d].p99, pl2, ph2)) \in Nat
        /\ norm(rows2[d].p99, pl2, ph2).den \in Nat \ {0}
  BY <1>1, FractionTypes
<1>10. \A d \in Entered(rows) :
         /\ ScoreIn(rows, d) = ScoreOf(norm(rows[d].tps, tl, th).num, norm(rows[d].tps, tl, th).den,
              latencyCredit(norm(rows[d].p99, pl, ph)), norm(rows[d].p99, pl, ph).den, rows[d].rate)
         /\ ScoreIn(rows2, d) = ScoreOf(norm(rows2[d].tps, tl2, th2).num, norm(rows2[d].tps, tl2, th2).den,
              latencyCredit(norm(rows2[d].p99, pl2, ph2)), norm(rows2[d].p99, pl2, ph2).den, rows2[d].rate)
  BY DEF ScoreIn
<1> HIDE DEF T, P, tl, th, pl, ph, tl2, th2, pl2, ph2
<1>11. ScoreIn(rows, c) <= ScoreIn(rows2, c)
  <2> DEFINE nt == norm(rows[c].tps, tl, th)
             np == norm(rows[c].p99, pl, ph)
             nt2 == norm(rows2[c].tps, tl2, th2)
             np2 == norm(rows2[c].p99, pl2, ph2)
             l == latencyCredit(np)
             l2 == latencyCredit(np2)
  <2>1. nt.num * nt2.den <= nt2.num * nt.den
    BY <1>5, <1>6, <1>7, <1>8, RiserGains
  <2>2. l * np2.den <= l2 * np.den
    BY <1>5, <1>6, <1>7, <1>8, FallerGains
  <2>3. /\ nt.num \in Nat /\ nt.den \in Nat \ {0} /\ l \in Nat /\ np.den \in Nat \ {0}
        /\ nt2.num \in Nat /\ nt2.den \in Nat \ {0} /\ l2 \in Nat /\ np2.den \in Nat \ {0}
    BY <1>9
  <2>4. /\ ScoreIn(rows, c) = ScoreOf(nt.num, nt.den, l, np.den, rows[c].rate)
        /\ ScoreIn(rows2, c) = ScoreOf(nt2.num, nt2.den, l2, np2.den, rows2[c].rate)
    BY <1>10
  <2> HIDE DEF nt, np, nt2, np2, l, l2
  <2>5. rows[c].rate <= rows2[c].rate  BY <1>8
  <2>6. ScoreOf(nt.num, nt.den, l, np.den, rows[c].rate)
          <= ScoreOf(nt2.num, nt2.den, l2, np2.den, rows2[c].rate)
    BY <1>8, <2>1, <2>2, <2>3, <2>5, ScoreMono
  <2> QED  BY <2>4, <2>6
<1>12. ASSUME NEW d \in others PROVE ScoreIn(rows2, d) <= ScoreIn(rows, d)
  <2> DEFINE nt == norm(rows[d].tps, tl, th)
             np == norm(rows[d].p99, pl, ph)
             nt2 == norm(rows[d].tps, tl2, th2)
             np2 == norm(rows[d].p99, pl2, ph2)
             a == nt.num
             a2 == nt2.num
             A == nt.den
             A2 == nt2.den
             l == latencyCredit(np)
             l2 == latencyCredit(np2)
             L == np.den
             L2 == np2.den
  <2>1. rows2[d] = rows[d] /\ rows[d].tps \in T /\ rows[d].p99 \in P /\ d \in Entered(rows)
    BY <1>2 DEF T, P
  <2>2. a2 * A <= a * A2
    BY <1>5, <1>6, <1>7, <1>8, <2>1, OthersDoNotGain
  <2>3. l2 * L <= l * L2
    BY <1>5, <1>6, <1>7, <1>8, <2>1, OthersGainNoCredit
  <2>4. rows[d].rate \in Nat /\ rows[d].rate <= rows[d].rate  BY <2>1, RowTypes
  <2>5. /\ a \in Nat /\ A \in Nat \ {0} /\ l \in Nat /\ L \in Nat \ {0}
        /\ a2 \in Nat /\ A2 \in Nat \ {0} /\ l2 \in Nat /\ L2 \in Nat \ {0}
    BY <1>9, <2>1
  <2>6. /\ ScoreIn(rows, d) = ScoreOf(a, A, l, L, rows[d].rate)
        /\ ScoreIn(rows2, d) = ScoreOf(a2, A2, l2, L2, rows[d].rate)
    BY <1>10, <2>1
  <2> HIDE DEF nt, np, nt2, np2, a, a2, A, A2, l, l2, L, L2
  <2>7. ScoreOf(a2, A2, l2, L2, rows[d].rate)
          <= ScoreOf(a, A, l, L, rows[d].rate)
    BY <2>2, <2>3, <2>4, <2>5, ScoreMono
  <2> QED  BY <2>6, <2>7
<1> QED  BY <1>1, <1>11, <1>12

-----------------------------------------------------------------------------
(* The ranks of a sorted sequence. *)

\* What the recursion in WithRanks asks of rank, up to the m-th entry.
Ranks(rank, s, m) ==
  rank = [i \in 1 .. m |->
            IF i = 1 THEN 1
            ELSE IF s[i - 1].score # s[i].score THEN nextRank(i, rank[i - 1]) ELSE rank[i - 1]]

Ranked4(s, i, r) == [id |-> s[i].id, row |-> s[i].row, score |-> s[i].score, rank |-> r]

\* It has a solution, which WithRanks takes.
LEMMA RanksExist ==
  ASSUME NEW s, NEW n \in Nat, Len(s) = n
  PROVE  \E rank : Ranks(rank, s, n) /\ WithRanks(s) = [i \in 1 .. n |-> Ranked4(s, i, rank[i])]
<1> DEFINE T == {m \in Nat : \E f : Ranks(f, s, m)}
<1>1. 0 \in T
  <2>1. Ranks([i \in 1 .. 0 |-> 0], s, 0)  BY DEF Ranks
  <2> QED  BY <2>1
<1>2. ASSUME NEW m \in Nat, m \in T PROVE m + 1 \in T
  <2>1. PICK f : Ranks(f, s, m)  BY <1>2
  <2> DEFINE g == [i \in 1 .. m + 1 |->
                IF i = 1 THEN 1
                ELSE IF s[i - 1].score # s[i].score THEN nextRank(i, f[i - 1]) ELSE f[i - 1]]
  <2>2. \A i \in 1 .. m : g[i] = f[i]  BY <2>1 DEF Ranks
  <2>3. \A i \in 1 .. m + 1 : i # 1 => i - 1 \in 1 .. m  OBVIOUS
  <2>4. \A i \in 1 .. m + 1 : i # 1 => g[i - 1] = f[i - 1]  BY <2>2, <2>3
  <2>5. Ranks(g, s, m + 1)  BY <2>4 DEF Ranks
  <2> HIDE DEF g
  <2> QED  BY <2>5
<1> HIDE DEF T
<1>3. n \in T  BY <1>1, <1>2, Induct
<1>4. \E f : Ranks(f, s, n)  BY <1>3 DEF T
<1> DEFINE rank == CHOOSE f : Ranks(f, s, n)
<1>5. Ranks(rank, s, n)  BY <1>4
<1>6. WithRanks(s) = [i \in 1 .. n |-> Ranked4(s, i, rank[i])]
  BY DEF WithRanks, Ranks, Ranked4
<1> HIDE DEF rank
<1> QED  BY <1>5, <1>6

\* In a sequence whose scores do not rise, the rank of an entry is the place
\* of the first entry with its score.
LEMMA RankIsFirstOfItsScore ==
  ASSUME NEW s, NEW n \in Nat, Len(s) = n,
         \A i \in 1 .. n : s[i].score \in Int,
         \A i, j \in 1 .. n : i < j => s[i].score >= s[j].score
  PROVE  /\ DOMAIN WithRanks(s) = 1 .. n
         /\ \A i \in 1 .. n :
              LET r == WithRanks(s)[i].rank IN
              /\ WithRanks(s)[i] = Ranked4(s, i, r)
              /\ r \in 1 .. i
              /\ \A j \in 1 .. n : s[j].score > s[i].score <=> j < r
<1>1. PICK rank : Ranks(rank, s, n) /\ WithRanks(s) = [i \in 1 .. n |-> Ranked4(s, i, rank[i])]
  BY RanksExist, Zenon
<1>2. \A i \in 1 .. n : rank[i] = IF i = 1 THEN 1
             ELSE IF s[i - 1].score # s[i].score THEN i ELSE rank[i - 1]
  BY <1>1 DEF nextRank, Ranks
<1> DEFINE Good(i) == /\ rank[i] \in 1 .. i
                      /\ \A j \in 1 .. n : s[j].score > s[i].score <=> j < rank[i]
           T == {m \in Nat : m \in 1 .. n => Good(m)}
<1>3. 0 \in T  OBVIOUS
<1>4. ASSUME NEW m \in Nat, m \in T PROVE m + 1 \in T
  <2> SUFFICES ASSUME m + 1 \in 1 .. n PROVE Good(m + 1)  OBVIOUS
  <2>1. CASE m = 0
    <3>1. rank[1] = 1  BY <1>2, <2>1
    <3>2. 1 \in 1 .. n  BY <2>1
    <3>3. \A j \in 1 .. n : ~(s[j].score > s[1].score)
      <4> TAKE j \in 1 .. n
      <4>1. j = 1 \/ 1 < j  OBVIOUS
      <4>2. s[j].score \in Int /\ s[1].score \in Int  BY <3>2
      <4> QED  BY <3>2, <4>1, <4>2
    <3>4. \A j \in 1 .. n : ~(j < 1)  OBVIOUS
    <3> QED  BY <2>1, <3>1, <3>3, <3>4
  <2>2. CASE m # 0
    <3>1. m \in 1 .. n /\ m + 1 - 1 = m /\ m + 1 # 1  BY <2>2
    <3>2. Good(m)  BY <1>4, <3>1
    <3>3. rank[m + 1] = IF s[m].score # s[m + 1].score THEN m + 1 ELSE rank[m]  BY <1>2, <3>1
    <3>4. s[m].score \in Int /\ s[m + 1].score \in Int /\ s[m].score >= s[m + 1].score  BY <3>1
    <3>5. CASE s[m].score = s[m + 1].score
      <4>1. rank[m + 1] = rank[m] /\ rank[m] \in 1 .. m  BY <3>2, <3>3, <3>5
      <4> QED  BY <3>2, <3>5, <4>1
    <3>6. CASE s[m].score # s[m + 1].score
      <4>1. rank[m + 1] = m + 1  BY <3>3, <3>6
      <4>2. \A j \in 1 .. n : s[j].score > s[m + 1].score <=> j < m + 1
        <5> TAKE j \in 1 .. n
        <5>1. s[j].score \in Int  OBVIOUS
        <5>2. j = m \/ j < m \/ j = m + 1 \/ m + 1 < j  BY <3>1
        <5>3. CASE j = m  BY <3>4, <3>6, <5>3
        <5>4. CASE j < m
          <6>1. s[j].score >= s[m].score  BY <3>1, <5>4
          <6> QED  BY <3>4, <3>6, <5>1, <5>4, <6>1
        <5>5. CASE j = m + 1  BY <5>5, <3>4
        <5>6. CASE m + 1 < j
          <6>1. s[m + 1].score >= s[j].score  BY <5>6
          <6> QED  BY <3>4, <5>1, <5>6, <6>1
        <5> QED  BY <5>2, <5>3, <5>4, <5>5, <5>6
      <4> QED  BY <4>1, <4>2
    <3> QED  BY <3>5, <3>6
  <2> QED  BY <2>1, <2>2
<1> HIDE DEF T
<1>5. \A m \in Nat : m \in T  BY <1>3, <1>4, Induct
<1>6. \A i \in 1 .. n : Good(i)  BY <1>5 DEF T
<1>7. DOMAIN WithRanks(s) = 1 .. n  BY <1>1
<1>8. \A i \in 1 .. n : WithRanks(s)[i] = Ranked4(s, i, rank[i])  BY <1>1
<1> HIDE DEF Good
<1>9. ASSUME NEW i \in 1 .. n
      PROVE  LET r == WithRanks(s)[i].rank IN
              /\ WithRanks(s)[i] = Ranked4(s, i, r)
              /\ r \in 1 .. i
              /\ \A j \in 1 .. n : s[j].score > s[i].score <=> j < r
  <2>1. WithRanks(s)[i] = Ranked4(s, i, rank[i])  BY <1>8
  <2>2. WithRanks(s)[i].rank = rank[i]  BY <2>1 DEF Ranked4
  <2>3. Good(i)  BY <1>6
  <2> QED  BY <2>1, <2>2, <2>3 DEF Good
<1> QED  BY <1>7, <1>9

-----------------------------------------------------------------------------
(* The table of a cycle. *)

\* What every table of a cycle over rows is: everyone who has a row comes in
\* once, in the order of the scores, with the rank of its score.
Board(rows, t) ==
  /\ DOMAIN t = 1 .. Cardinality(Entered(rows))
  /\ \A i \in DOMAIN t :
       /\ t[i].id \in Entered(rows)
       /\ t[i].row = rows[t[i].id]
       /\ t[i].score = ScoreIn(rows, t[i].id)
       /\ t[i].rank \in DOMAIN t
       /\ \A j \in DOMAIN t : t[j].score > t[i].score <=> j < t[i].rank
  /\ \A i, j \in DOMAIN t : t[i].id = t[j].id => i = j
  /\ \A c \in Entered(rows) : \E i \in DOMAIN t : t[i].id = c
  /\ \A i, j \in DOMAIN t : i < j => ~Before(t[j], t[i])

\* Scores can be compared.
LEMMA ScoreIsNat ==
  ASSUME NEW rows \in RowSet, NEW c \in Entered(rows)
  PROVE  ScoreIn(rows, c) \in Nat
<1>1. IsScore(ScoreIn(rows, c))  BY ScoreIsOfFractions
<1>2. \A x : IsScore(x) => x \in Nat  BY DEF IsScore, Points
<1> QED  BY <1>1, <1>2

\* What Compute may return, however it sorts ties (scorer.go:149-193).
LEMMA TableIsBoard ==
  ASSUME NEW rows \in RowSet, NEW t \in Tables(rows)
  PROVE  Board(rows, t)
<1> DEFINE E == Entered(rows)
           e == Scored(rows)
           n == Cardinality(E)
<1>1. IsFiniteSet(E) /\ n \in Nat
  <2>1. E \in SUBSET Ranked  BY DEF Entered
  <2>2. IsFiniteSet(E)  BY <2>1, RankingAssumption, FS_Subset
  <2> QED  BY <2>2, FS_CardinalityType
<1>2. DOMAIN e = E /\ \A c \in E : e[c] = [id |-> c, row |-> rows[c], score |-> ScoreIn(rows, c)]
  BY ScoreIsOfFractions DEF Scored, Entered
<1> HIDE DEF E, e
<1>3. PICK o \in SetToSeqs(E) :
        /\ t = WithRanks([i \in DOMAIN o |-> e[o[i]]])
        /\ \A i, j \in DOMAIN o : i < j => ~Before(e[o[j]], e[o[i]])
  BY <1>2 DEF Tables, e
<1>4. o \in [1 .. n -> E] /\ \A i, j \in 1 .. n : i # j => o[i] # o[j]
  BY <1>3 DEF SetToSeqs
<1> DEFINE s == [i \in 1 .. n |-> e[o[i]]]
<1>5. t = WithRanks(s)  BY <1>3, <1>4
<1>6. \A i \in 1 .. n : /\ s[i].id = o[i] /\ s[i].row = rows[o[i]] /\ s[i].score = ScoreIn(rows, o[i])
                        /\ o[i] \in E
  BY <1>2, <1>4
<1>7. Len(s) = n
  <2>1. s \in Seq({e[o[i]] : i \in 1 .. n})  BY <1>1
  <2>2. DOMAIN s = 1 .. n  OBVIOUS
  <2> HIDE DEF s
  <2> QED  BY <1>1, <2>1, <2>2
<1>8. \A i \in 1 .. n : s[i].score \in Int
  <2>1. \A c \in E : ScoreIn(rows, c) \in Int  BY ScoreIsNat DEF E
  <2> QED  BY <1>6, <2>1
<1>9. \A i, j \in 1 .. n : i < j => s[i].score >= s[j].score
  <2> TAKE i, j \in 1 .. n
  <2> HAVE i < j
  <2>1. ~Before(s[j], s[i])  BY <1>3, <1>4
  <2>2. ~(s[j].score > s[i].score)  BY <2>1 DEF Before
  <2> HIDE DEF s
  <2> QED  BY <1>8, <2>2
<1>17. \A i, j \in 1 .. n : i < j => ~Before(s[j], s[i])
  <2> TAKE i, j \in 1 .. n
  <2> HAVE i < j
  <2> QED  BY <1>3, <1>4
<1> HIDE DEF s
<1>10. /\ DOMAIN t = 1 .. n
       /\ \A i \in 1 .. n :
              /\ t[i] = Ranked4(s, i, t[i].rank)
              /\ t[i].rank \in 1 .. i
              /\ \A j \in 1 .. n : s[j].score > s[i].score <=> j < t[i].rank
  BY <1>1, <1>5, <1>7, <1>8, <1>9, RankIsFirstOfItsScore
<1>11. \A i \in 1 .. n : t[i].id = o[i] /\ t[i].row = rows[o[i]] /\ t[i].score = ScoreIn(rows, o[i])
  BY <1>6, <1>10 DEF Ranked4
<1>12. \A i, j \in 1 .. n : t[j].score > t[i].score <=> j < t[i].rank
  BY <1>6, <1>10, <1>11
<1>13. \A i \in 1 .. n : t[i].rank \in 1 .. n  BY <1>1, <1>10
<1>14. \A i, j \in 1 .. n : t[i].id = t[j].id => i = j  BY <1>4, <1>11
<1>15. \A c \in E : \E i \in 1 .. n : t[i].id = c  BY <1>1, <1>4, <1>11, EveryoneComesIn
<1>16. \A i \in 1 .. n : t[i].id \in E  BY <1>6, <1>11
<1>18. \A i, j \in 1 .. n : i < j => ~Before(t[j], t[i])  BY <1>6, <1>11, <1>17 DEF Before
<1> QED  BY <1>10, <1>11, <1>12, <1>13, <1>14, <1>15, <1>16, <1>18 DEF Board, E

\* What Board says of one place.
LEMMA BoardPlace ==
  ASSUME NEW rows \in RowSet, NEW t, Board(rows, t), NEW i \in DOMAIN t
  PROVE  /\ t[i].id \in Entered(rows) /\ t[i].row = rows[t[i].id]
         /\ t[i].score = ScoreIn(rows, t[i].id) /\ t[i].score \in Nat
         /\ t[i].rank \in DOMAIN t /\ t[i].rank \in Nat \ {0}
         /\ {j \in DOMAIN t : t[j].score > t[i].score} = 1 .. t[i].rank - 1
<1>1. Cardinality(Entered(rows)) \in Nat
  <2>1. Entered(rows) \in SUBSET Ranked  BY DEF Entered
  <2>2. IsFiniteSet(Entered(rows))  BY <2>1, RankingAssumption, FS_Subset
  <2> QED  BY <2>2, FS_CardinalityType
<1> DEFINE n == Cardinality(Entered(rows))
<1>2. DOMAIN t = 1 .. n  BY DEF Board
<1>3. /\ t[i].id \in Entered(rows) /\ t[i].row = rows[t[i].id]
      /\ t[i].score = ScoreIn(rows, t[i].id) /\ t[i].rank \in DOMAIN t
      /\ \A j \in DOMAIN t : t[j].score > t[i].score <=> j < t[i].rank
  BY DEF Board
<1>4. t[i].score \in Nat  BY <1>3, ScoreIsNat
<1> HIDE DEF n
<1>5. n \in Nat /\ t[i].rank \in 1 .. n  BY <1>1, <1>2, <1>3 DEF n
<1>6. {j \in DOMAIN t : t[j].score > t[i].score} = {j \in 1 .. n : j < t[i].rank}  BY <1>2, <1>3
<1>7. {j \in 1 .. n : j < t[i].rank} = 1 .. t[i].rank - 1  BY <1>5
<1> QED  BY <1>3, <1>4, <1>5, <1>6, <1>7

\* Those with more points than c.
Above(rows, c) == {d \in Entered(rows) : ScoreIn(rows, d) > ScoreIn(rows, c)}

\* The rank counts the places with more points, ...
LEMMA RankCountsPlaces ==
  ASSUME NEW rows \in RowSet, NEW t, Board(rows, t), NEW i \in DOMAIN t
  PROVE  t[i].rank = 1 + Cardinality({j \in DOMAIN t : t[j].score > t[i].score})
<1> DEFINE r == t[i].rank
           J == {j \in DOMAIN t : t[j].score > t[i].score}
<1>1. J = 1 .. r - 1 /\ r \in Nat \ {0}  BY BoardPlace
<1>2. Cardinality(1 .. r - 1) = r - 1
  <2>1. 1 \in Int /\ r - 1 \in Int /\ ((1 > r - 1) => r - 1 = 0) /\ r - 1 - 1 + 1 = r - 1  BY <1>1
  <2> HIDE DEF r
  <2> QED  BY <2>1, FS_Interval
<1> SUFFICES r = 1 + Cardinality(J)  OBVIOUS
<1> HIDE DEF r, J
<1> QED  BY <1>1, <1>2

\* ... and the contestants with more points.
LEMMA RankCountsThoseAbove ==
  ASSUME NEW rows \in RowSet, NEW t, Board(rows, t), NEW i \in DOMAIN t
  PROVE  /\ IsFiniteSet(Above(rows, t[i].id))
         /\ t[i].rank = 1 + Cardinality(Above(rows, t[i].id))
<1> DEFINE above == Above(rows, t[i].id)
           r == t[i].rank
           J == 1 .. r - 1
           f == [j \in J |-> t[j].id]
<1>1. {j \in DOMAIN t : t[j].score > t[i].score} = J /\ r \in Nat \ {0} /\ J \subseteq DOMAIN t
  BY BoardPlace
<1>2. IsFiniteSet(J) /\ Cardinality(J) = r - 1
  <2>1. 1 \in Int /\ r - 1 \in Int /\ ((1 > r - 1) => r - 1 = 0) /\ r - 1 - 1 + 1 = r - 1  BY <1>1
  <2> HIDE DEF r
  <2> QED  BY <2>1, FS_Interval
<1>3. \A j \in J : t[j].id \in above
  <2> TAKE j \in J
  <2>1. j \in DOMAIN t /\ t[j].score > t[i].score  BY <1>1
  <2> QED  BY <2>1, BoardPlace DEF Above
<1>4. \A a, b \in J : f[a] = f[b] => a = b
  BY <1>1 DEF Board
<1>5. \A d \in above : \E j \in J : f[j] = d
  <2> TAKE d \in above
  <2>1. PICK j \in DOMAIN t : t[j].id = d  BY DEF Board, Above
  <2>2. t[j].score > t[i].score  BY <2>1, BoardPlace DEF Above
  <2>3. j \in J  BY <1>1, <2>2
  <2> QED  BY <2>1, <2>3
<1>6. f \in [J -> above]  BY <1>3
<1> HIDE DEF f, J, above, r
<1>7. f \in Bijection(J, above)  BY <1>4, <1>5, <1>6, Fun_IsBij
<1>8. ExistsBijection(J, above)  BY <1>7 DEF ExistsBijection
<1>9. IsFiniteSet(above) /\ Cardinality(above) = Cardinality(J)  BY <1>2, <1>8, FS_Bijection, Zenon
<1>10. r = 1 + Cardinality(J)  BY <1>1, <1>2
<1> QED  BY <1>1, <1>9, <1>10 DEF above, r

\* One who is no worse in anything is not ranked below.
LEMMA BetterRanksHigher ==
  ASSUME NEW rows \in RowSet, NEW t, Board(rows, t), NEW i \in DOMAIN t, NEW k \in DOMAIN t,
         t[i].row.tps >= t[k].row.tps, t[i].row.p99 <= t[k].row.p99, t[i].row.rate >= t[k].row.rate
  PROVE  t[i].rank <= t[k].rank
<1>1. t[k].score <= t[i].score
  <2>1. /\ t[i].id \in Entered(rows) /\ t[i].row = rows[t[i].id]
        /\ t[k].id \in Entered(rows) /\ t[k].row = rows[t[k].id]
    BY BoardPlace
  <2>2. ScoreIn(rows, t[k].id) <= ScoreIn(rows, t[i].id)  BY <2>1, BetterScoresMore
  <2> QED  BY <2>2, BoardPlace
<1>2. t[i].score \in Nat /\ t[k].score \in Nat /\ \A j \in DOMAIN t : t[j].score \in Nat  BY BoardPlace
<1>3. {j \in DOMAIN t : t[j].score > t[i].score} \subseteq {j \in DOMAIN t : t[j].score > t[k].score}
  BY <1>1, <1>2
<1>4. 1 .. t[i].rank - 1 \subseteq 1 .. t[k].rank - 1  BY <1>3, BoardPlace
<1>5. t[i].rank \in Nat \ {0} /\ t[k].rank \in Nat \ {0}  BY BoardPlace
<1> QED  BY <1>4, <1>5

-----------------------------------------------------------------------------
(* Cycle by cycle. *)

\* Between cycles the table is the board of the rows, and both readers of
\* the ticker know everyone's last rank.
RankingInv ==
  /\ row \in RowSet
  /\ Board(row, table)
  /\ prevRank \in [Ranked -> Nat] /\ told = prevRank
  /\ \A i \in DOMAIN table : prevRank[table[i].id] = table[i].rank

\* The entry of a contestant on the board.
LEMMA EntryOnBoard ==
  ASSUME NEW rows \in RowSet, NEW t, Board(rows, t)
  PROVE  /\ onBoard(t) = Entered(rows)
         /\ Range(t) = {t[i] : i \in DOMAIN t}
         /\ \A i \in DOMAIN t : entryOf(t, t[i].id) = t[i]
<1>1. Range(t) = {t[i] : i \in DOMAIN t}  BY DEF Range
<1>2. \A i \in DOMAIN t : t[i].id \in Entered(rows)  BY DEF Board
<1>3. \A i, j \in DOMAIN t : t[i].id = t[j].id => i = j  BY DEF Board
<1>4. \A c \in Entered(rows) : \E i \in DOMAIN t : t[i].id = c  BY DEF Board
<1>5. onBoard(t) = Entered(rows)  BY <1>1, <1>2, <1>4 DEF onBoard
<1>6. ASSUME NEW i \in DOMAIN t PROVE entryOf(t, t[i].id) = t[i]
  <2>1. \A e \in Range(t) : e.id = t[i].id => e = t[i]  BY <1>1, <1>3
  <2>2. t[i] \in Range(t)  BY <1>1
  <2> QED  BY <2>1, <2>2 DEF entryOf
<1> QED  BY <1>1, <1>5, <1>6

\* At first no one is on the board.
LEMMA RankingInitInv == RankingInit => RankingInv
<1> SUFFICES ASSUME RankingInit PROVE RankingInv  OBVIOUS
<1>1. row \in RowSet  BY DEF RankingInit, RowSet
<1>2. Entered(row) = {}  BY DEF RankingInit, Entered
<1>3. Cardinality(Entered(row)) = 0  BY <1>2, FS_EmptySet
<1>4. table = <<>> /\ DOMAIN table = 1 .. 0 /\ 1 .. 0 = {}  BY DEF RankingInit
<1>5. Board(row, table)  BY <1>2, <1>3, <1>4 DEF Board
<1> QED  BY <1>1, <1>4, <1>5 DEF RankingInit, RankingInv

\* After a cycle both know the rank of everyone on the board, and of the
\* others what they knew.
LEMMA DiffTells ==
  ASSUME RankingInv, NEW rows \in RowSet, NEW t, Board(rows, t), Diff(t)
  PROVE  /\ prevRank' \in [Ranked -> Nat] /\ told' = prevRank'
         /\ \A i \in DOMAIN t : prevRank'[t[i].id] = t[i].rank
<1>1. /\ onBoard(t) = Entered(rows) /\ Entered(rows) \subseteq Ranked
      /\ Range(t) = {t[i] : i \in DOMAIN t}
      /\ \A i \in DOMAIN t : entryOf(t, t[i].id) = t[i]
  BY EntryOnBoard DEF Entered
<1>2. \A i \in DOMAIN t : t[i].id \in Entered(rows) /\ t[i].rank \in Nat \ {0}  BY BoardPlace
<1>3. \A c \in Entered(rows) : \E i \in DOMAIN t : t[i].id = c  BY DEF Board
<1>4. \A c \in Ranked : prevRank'[c] = IF c \in Entered(rows) THEN entryOf(t, c).rank ELSE prevRank[c]
  BY <1>1 DEF Diff
<1>5. \A i \in DOMAIN t : prevRank'[t[i].id] = t[i].rank  BY <1>1, <1>2, <1>4
<1>6. prevRank' \in [Ranked -> Nat]
  <2>1. prevRank' = [c \in Ranked |-> IF c \in Entered(rows) THEN entryOf(t, c).rank ELSE prevRank[c]]
    BY <1>1 DEF Diff
  <2>2. \A c \in Entered(rows) : entryOf(t, c).rank \in Nat  BY <1>1, <1>2, <1>3
  <2> QED  BY <2>1, <2>2 DEF RankingInv
<1> DEFINE said(c) == {ev.rank : ev \in {x \in ticker' : x.id = c /\ x.rank # 0}}
<1>7. \A c \in Ranked : told'[c] = IF told[c] = 0 /\ c \in Entered(rows) THEN entryOf(t, c).rank
                                   ELSE IF said(c) = {} THEN told[c] ELSE Max(said(c))
  BY <1>1 DEF Diff
<1>8. \A ev \in ticker' : ev.rank # 0 => \E i \in DOMAIN t : ev \in EventsOf(t[i])
  <2> DEFINE close == IF CloseRace(t) THEN {[kind |-> "close", id |-> t[1].id, rank |-> 0]} ELSE {}
  <2>1. ticker' = AllEvents(t) \cup close  BY DEF Diff
  <2>2. \A ev \in close : ev.rank = 0  OBVIOUS
  <2> HIDE DEF close
  <2>3. \A ev \in AllEvents(t) : \E e \in Range(t) : ev \in EventsOf(e)  BY DEF AllEvents
  <2>4. \A ev \in ticker' : ev.rank # 0 => \E e \in Range(t) : ev \in EventsOf(e)
    BY <2>1, <2>2, <2>3
  <2> QED  BY <1>1, <2>4
<1>9. \A i \in DOMAIN t : \A ev \in EventsOf(t[i]) :
         ev.rank # 0 => ev.id = t[i].id /\ ev.rank = t[i].rank
                        /\ (prevRank[t[i].id] # 0 => t[i].rank # prevRank[t[i].id])
  BY DEF EventsOf, Moved
<1>10. \A i \in DOMAIN t : prevRank[t[i].id] # 0 /\ t[i].rank # prevRank[t[i].id] =>
          \E ev \in EventsOf(t[i]) : ev.id = t[i].id /\ ev.rank = t[i].rank
  <2> TAKE i \in DOMAIN t
  <2> DEFINE e == t[i]
             prev == prevRank[e.id]
             ev == [kind |-> IF e.rank < prev - 2 THEN "climbs" ELSE IF e.rank < prev THEN "up" ELSE "drops",
                    id |-> e.id, rank |-> e.rank]
  <2> HAVE prev # 0 /\ e.rank # prev
  <2>1. Moved(e, prev)  BY DEF Moved
  <2>2. {ev} \subseteq EventsOf(e)  BY <2>1, Zenon DEF EventsOf
  <2>3. ev.id = e.id /\ ev.rank = e.rank  OBVIOUS
  <2> HIDE DEF ev
  <2> QED  BY <2>2, <2>3
<1>11. \A i \in DOMAIN t : EventsOf(t[i]) \subseteq ticker'
  <2>1. AllEvents(t) \subseteq ticker'  BY DEF Diff
  <2>2. \A e \in Range(t) : EventsOf(e) \subseteq AllEvents(t)  BY DEF AllEvents
  <2>3. \A i \in DOMAIN t : t[i] \in Range(t)  BY <1>1
  <2> QED  BY <2>1, <2>2, <2>3
<1>12. ASSUME NEW c \in Ranked PROVE told'[c] = prevRank'[c]
  <2>1. told[c] = prevRank[c] /\ prevRank[c] \in Nat  BY DEF RankingInv
  <2>2. CASE c \notin Entered(rows)
    <3>1. said(c) = {}  BY <1>2, <1>8, <1>9, <2>2
    <3> QED  BY <1>4, <1>7, <2>1, <2>2, <3>1
  <2>3. CASE c \in Entered(rows)
    <3>1. PICK i \in DOMAIN t : t[i].id = c  BY <1>3, <2>3
    <3>2. entryOf(t, c) = t[i] /\ prevRank'[c] = t[i].rank /\ t[i].rank \in Nat \ {0}
      BY <1>1, <1>2, <1>5, <3>1
    <3>3. \A k \in DOMAIN t : t[k].id = c => k = i  BY <3>1 DEF Board
    <3>4. CASE told[c] = 0  BY <1>7, <2>3, <3>2, <3>4
    <3>5. CASE told[c] # 0 /\ t[i].rank = prevRank[c]
      <4>1. said(c) = {}  BY <1>8, <1>9, <2>1, <3>1, <3>3, <3>5
      <4> QED  BY <1>7, <2>1, <3>2, <3>5, <4>1
    <3>6. CASE told[c] # 0 /\ t[i].rank # prevRank[c]
      <4>1. \A x \in said(c) : x = t[i].rank  BY <1>8, <1>9, <3>3
      <4>2. t[i].rank \in said(c)
        <5>1. PICK ev \in EventsOf(t[i]) : ev.id = c /\ ev.rank = t[i].rank
          BY <1>10, <2>1, <3>1, <3>6
        <5> QED  BY <1>11, <3>2, <5>1
      <4>3. said(c) = {t[i].rank}  BY <4>1, <4>2
      <4>4. Max({t[i].rank}) = t[i].rank  BY <3>2, MaxOfOne
      <4> QED  BY <1>7, <3>2, <3>6, <4>3, <4>4
    <3> QED  BY <3>4, <3>5, <3>6
  <2> QED  BY <2>2, <2>3
<1>13. told' = prevRank'
  <2>1. DOMAIN told' = Ranked /\ told' = [c \in Ranked |-> told'[c]]  BY DEF Diff
  <2>2. prevRank' = [c \in Ranked |-> prevRank'[c]]  BY <1>6
  <2> QED  BY <1>12, <2>1, <2>2
<1> QED  BY <1>5, <1>6, <1>13

\* A cycle, whatever the rows it finds.
LEMMA CycleKeepsInv ==
  ASSUME RankingInv, NEW rows \in RowSet, Cycle(rows)
  PROVE  RankingInv'
<1>1. row' = rows /\ table' \in Tables(rows) /\ Diff(table')  BY DEF Cycle
<1>2. Board(rows, table')  BY <1>1, TableIsBoard
<1>3. /\ prevRank' \in [Ranked -> Nat] /\ told' = prevRank'
      /\ \A i \in DOMAIN table' : prevRank'[table'[i].id] = table'[i].rank
  BY <1>1, <1>2, DiffTells
<1> QED  BY <1>1, <1>2, <1>3 DEF RankingInv

\* A step of the specification is a cycle.
LEMMA RankingStep == RankingInv /\ [RankingNext]_rankingVars => RankingInv'
<1> SUFFICES ASSUME RankingInv, [RankingNext]_rankingVars PROVE RankingInv'  OBVIOUS
<1>1. CASE RankingNext
  <2>1. PICK c \in Ranked, r \in Rows \cup {NoRow} : Cycle([row EXCEPT ![c] = r])
    BY <1>1 DEF RankingNext
  <2>2. [row EXCEPT ![c] = r] \in RowSet  BY DEF RankingInv, RowSet
  <2> QED  BY <2>1, <2>2, CycleKeepsInv
<1>2. CASE UNCHANGED rankingVars  BY <1>2 DEF rankingVars, RankingInv
<1> QED  BY <1>1, <1>2

\* So the invariant always holds.
LEMMA RankingInvariant == RankingSpec => []RankingInv
BY RankingInitInv, RankingStep, PTL DEF RankingSpec

\* Whatever is measured, a rank counts those with more points and is shared
\* by equal scores, one at least as good in everything is not ranked below,
\* and the table stands in the order of the sort (scorer.go:149-193).
THEOREM RanksAlwaysFollowScores == RankingSpec => []RanksFollowScores
<1>1. RankingInv => RanksFollowScores
  <2> SUFFICES ASSUME RankingInv PROVE RanksFollowScores  OBVIOUS
  <2>1. row \in RowSet /\ Board(row, table)  BY DEF RankingInv
  <2>2. \A i \in DOMAIN table :
          table[i].rank = 1 + Cardinality({j \in DOMAIN table : table[j].score > table[i].score})
    BY <2>1, RankCountsPlaces
  <2>3. \A i \in DOMAIN table : table[i].score \in Points
    <3> TAKE i \in DOMAIN table
    <3>1. table[i].id \in Entered(row) /\ table[i].score = ScoreIn(row, table[i].id)  BY <2>1, BoardPlace
    <3>2. IsScore(table[i].score)  BY <2>1, <3>1, ScoreIsOfFractions
    <3> QED  BY <3>2 DEF IsScore
  <2>4. \A a, b \in Range(table) :
          a.row.tps >= b.row.tps /\ a.row.p99 <= b.row.p99 /\ a.row.rate >= b.row.rate => a.rank <= b.rank
    BY <2>1, EntryOnBoard, BetterRanksHigher
  <2>5. \A i, j \in DOMAIN table : i < j => ~Before(table[j], table[i])  BY <2>1 DEF Board
  <2> QED  BY <2>2, <2>3, <2>4, <2>5 DEF RanksFollowScores
<1> QED  BY <1>1, RankingInvariant, PTL

\* One who reads the ticker alone knows every rank (generator.go:36-56).
THEOREM RankingTickerTellsTheBoard == RankingSpec => []TickerTellsTheBoard
<1>1. RankingInv => TickerTellsTheBoard
  <2> SUFFICES ASSUME RankingInv, NEW c \in Ranked
               PROVE  told[c] = prevRank[c] /\ (c \in onBoard(table) => told[c] = entryOf(table, c).rank)
    BY DEF TickerTellsTheBoard
  <2>1. row \in RowSet /\ Board(row, table)  BY DEF RankingInv
  <2>2. ASSUME c \in onBoard(table) PROVE told[c] = entryOf(table, c).rank
    <3>1. c \in Entered(row)  BY <2>1, <2>2, EntryOnBoard
    <3>2. PICK i \in DOMAIN table : table[i].id = c  BY <2>1, <3>1 DEF Board
    <3>3. entryOf(table, c) = table[i]  BY <2>1, <3>2, EntryOnBoard
    <3> QED  BY <3>2, <3>3 DEF RankingInv
  <2> QED  BY <2>2 DEF RankingInv
<1> QED  BY <1>1, RankingInvariant, PTL

\* The same on one step.
LEMMA StepImproves ==
  ASSUME RankingInv, RankingInv', NEW c \in onBoard(table) \cap onBoard(table'),
         \A d \in Ranked \ {c} : row'[d] = row[d],
         entryOf(table', c).row.tps >= entryOf(table, c).row.tps,
         entryOf(table', c).row.p99 <= entryOf(table, c).row.p99,
         entryOf(table', c).row.rate >= entryOf(table, c).row.rate
  PROVE  entryOf(table', c).rank <= entryOf(table, c).rank
<1>1. PICK rows, rows2, t, t2 : rows = row /\ rows2 = row' /\ t = table /\ t2 = table'  OBVIOUS
<1>2. rows \in RowSet /\ Board(rows, t)  BY <1>1 DEF RankingInv
<1>3. rows2 \in RowSet /\ Board(rows2, t2)  BY <1>1 DEF RankingInv
<1>4. c \in Entered(rows) /\ c \in Entered(rows2)  BY <1>1, <1>2, <1>3, EntryOnBoard
<1>5. PICK i \in DOMAIN t : t[i].id = c  BY <1>2, <1>4 DEF Board
<1>6. PICK k \in DOMAIN t2 : t2[k].id = c  BY <1>3, <1>4 DEF Board
<1>7. entryOf(t, c) = t[i] /\ entryOf(t2, c) = t2[k]  BY <1>2, <1>3, <1>5, <1>6, EntryOnBoard
<1>8. t[i].row = rows[c] /\ t2[k].row = rows2[c]  BY <1>2, <1>3, <1>5, <1>6, BoardPlace
<1> DEFINE above == Above(rows, c)
           above2 == Above(rows2, c)
<1>9. IsFiniteSet(above) /\ t[i].rank = 1 + Cardinality(above)  BY <1>2, <1>5, RankCountsThoseAbove
<1>10. IsFiniteSet(above2) /\ t2[k].rank = 1 + Cardinality(above2)  BY <1>3, <1>6, RankCountsThoseAbove
<1>11. /\ Entered(rows2) = Entered(rows)
       /\ ScoreIn(rows, c) <= ScoreIn(rows2, c)
       /\ \A d \in Entered(rows) \ {c} : ScoreIn(rows2, d) <= ScoreIn(rows, d)
  BY <1>1, <1>2, <1>3, <1>4, <1>7, <1>8, ImprovementMovesScores
<1>12. \A d \in Entered(rows) : ScoreIn(rows, d) \in Nat /\ ScoreIn(rows2, d) \in Nat
  BY <1>2, <1>3, <1>11, ScoreIsNat
<1>13. above2 \subseteq above  BY <1>4, <1>11, <1>12 DEF Above
<1> HIDE DEF above, above2
<1>14. Cardinality(above2) <= Cardinality(above) /\ Cardinality(above2) \in Nat /\ Cardinality(above) \in Nat
  BY <1>9, <1>10, <1>13, FS_Subset, FS_CardinalityType
<1>15. t2[k].rank <= t[i].rank  BY <1>9, <1>10, <1>14
<1> QED  BY <1>1, <1>7, <1>15

\* Whoever alone improves does not lose a rank, although that moves the
\* extremes everybody is normalised by (scorer.go:169-193).
THEOREM RankingImprovementNeverHurts == RankingSpec => ImprovementNeverHurts
<1>1. ASSUME RankingInv, RankingInv'
      PROVE \A c \in onBoard(table) \cap onBoard(table') :
       LET a == entryOf(table, c)
           b == entryOf(table', c) IN
       /\ \A d \in Ranked \ {c} : row'[d] = row[d]
       /\ b.row.tps >= a.row.tps /\ b.row.p99 <= a.row.p99 /\ b.row.rate >= a.row.rate
       => b.rank <= a.rank
  BY <1>1, StepImproves
<1> QED  BY <1>1, RankingInvariant, PTL DEF ImprovementNeverHurts

-----------------------------------------------------------------------------
(* One more, one less, and the first of a kind. *)

\* What InsertAt returns.
AddedAt(S, s, i, e, res) ==
  /\ res \in Seq(S) /\ Len(res) = Len(s) + 1
  /\ \A j \in 1 .. Len(s) + 1 : res[j] = IF j < i THEN s[j] ELSE IF j = i THEN e ELSE s[j - 1]

LEMMA Inserted ==
  ASSUME NEW S, NEW s \in Seq(S), NEW i \in 1 .. Len(s) + 1, NEW e \in S
  PROVE  AddedAt(S, s, i, e, InsertAt(s, i, e))
<1> DEFINE a == SubSeq(s, 1, i - 1)
           b == SubSeq(s, i, Len(s))
<1>1. Len(s) \in Nat /\ i \in Nat /\ i >= 1 /\ i <= Len(s) + 1  OBVIOUS
<1>2. a \in Seq(S) /\ Len(a) = i - 1 /\ \A j \in 1 .. i - 1 : a[j] = s[j]
  <2>1. \A j \in 1 .. i - 1 : s[j] \in S  BY <1>1
  <2> QED  BY <1>1, <2>1, SubSeqProperties
<1>3. b \in Seq(S) /\ Len(b) = Len(s) - i + 1 /\ \A j \in 1 .. Len(s) - i + 1 : b[j] = s[i + j - 1]
  <2>1. \A j \in i .. Len(s) : s[j] \in S  BY <1>1
  <2> QED  BY <1>1, <2>1, SubSeqProperties
<1> DEFINE c == a \o <<e>>
<1>4. InsertAt(s, i, e) = c \o b  BY DEF InsertAt
<1> HIDE DEF a, b
<1>5. <<e>> \in Seq(S) /\ Len(<<e>>) = 1 /\ <<e>>[1] = e  OBVIOUS
<1>6. /\ c \in Seq(S) /\ Len(c) = i
      /\ \A j \in 1 .. i : c[j] = IF j <= i - 1 THEN a[j] ELSE <<e>>[j - (i - 1)]
  BY <1>1, <1>2, <1>5, ConcatProperties
<1> HIDE DEF c
<1>7. \A j \in 1 .. i : c[j] = IF j < i THEN s[j] ELSE e
  <2> TAKE j \in 1 .. i
  <2>1. CASE j < i  BY <1>1, <1>2, <1>6, <2>1
  <2>2. CASE j = i
    <3>1. j - (i - 1) = 1 /\ ~(j <= i - 1)  BY <1>1, <2>2
    <3> QED  BY <1>5, <1>6, <2>2, <3>1
  <2> QED  BY <1>1, <2>1, <2>2
<1>8. /\ c \o b \in Seq(S) /\ Len(c \o b) = Len(s) + 1
      /\ \A j \in 1 .. Len(s) + 1 : (c \o b)[j] = IF j <= i THEN c[j] ELSE b[j - i]
  <2>1. Len(c) + Len(b) = Len(s) + 1  BY <1>1, <1>3, <1>6
  <2>2. /\ c \o b \in Seq(S) /\ Len(c \o b) = Len(c) + Len(b)
        /\ \A j \in 1 .. Len(c) + Len(b) : (c \o b)[j] = IF j <= Len(c) THEN c[j] ELSE b[j - Len(c)]
    BY <1>3, <1>6, ConcatProperties
  <2> QED  BY <1>6, <2>1, <2>2, Zenon
<1>9. ASSUME NEW j \in 1 .. Len(s) + 1, j > i PROVE b[j - i] = s[j - 1]
  <2>1. j - i \in 1 .. Len(s) - i + 1 /\ i + (j - i) - 1 = j - 1  BY <1>1, <1>9
  <2> QED  BY <1>3, <2>1
<1>10. /\ InsertAt(s, i, e) \in Seq(S) /\ Len(InsertAt(s, i, e)) = Len(s) + 1
       /\ \A j \in 1 .. Len(s) + 1 :
            InsertAt(s, i, e)[j] = IF j < i THEN s[j] ELSE IF j = i THEN e ELSE s[j - 1]
  BY <1>1, <1>4, <1>7, <1>8, <1>9
<1> QED  BY <1>10 DEF AddedAt

\* What RemoveAt returns.
LEMMA Removed ==
  ASSUME NEW S, NEW s \in Seq(S), NEW i \in 1 .. Len(s)
  PROVE  /\ RemoveAt(s, i) \in Seq(S) /\ Len(RemoveAt(s, i)) = Len(s) - 1
         /\ \A j \in 1 .. Len(s) - 1 : RemoveAt(s, i)[j] = IF j < i THEN s[j] ELSE s[j + 1]
<1> DEFINE a == SubSeq(s, 1, i - 1)
           b == SubSeq(s, i + 1, Len(s))
<1>1. Len(s) \in Nat /\ i \in Nat /\ i >= 1 /\ i <= Len(s)  OBVIOUS
<1>2. a \in Seq(S) /\ Len(a) = i - 1 /\ \A j \in 1 .. i - 1 : a[j] = s[j]
  <2>1. \A j \in 1 .. i - 1 : s[j] \in S  BY <1>1
  <2> QED  BY <1>1, <2>1, SubSeqProperties
<1>3. b \in Seq(S) /\ Len(b) = Len(s) - i /\ \A j \in 1 .. Len(s) - i : b[j] = s[i + j]
  <2>1. \A j \in i + 1 .. Len(s) : s[j] \in S  BY <1>1
  <2>2. /\ b \in Seq(S) /\ Len(b) = IF i + 1 <= Len(s) THEN Len(s) - (i + 1) + 1 ELSE 0
        /\ \A j \in 1 .. Len(s) - (i + 1) + 1 : b[j] = s[(i + 1) + j - 1]
    BY <1>1, <2>1, SubSeqProperties
  <2> HIDE DEF b
  <2>3. \A j \in 1 .. Len(s) - i : (i + 1) + j - 1 = i + j  BY <1>1
  <2> QED  BY <1>1, <2>2, <2>3
<1>4. RemoveAt(s, i) = a \o b  BY DEF RemoveAt
<1> HIDE DEF a, b
<1>5. /\ a \o b \in Seq(S) /\ Len(a \o b) = Len(s) - 1
      /\ \A j \in 1 .. Len(s) - 1 : (a \o b)[j] = IF j <= i - 1 THEN a[j] ELSE b[j - (i - 1)]
  <2>1. Len(a) + Len(b) = Len(s) - 1  BY <1>1, <1>2, <1>3
  <2>2. /\ a \o b \in Seq(S) /\ Len(a \o b) = Len(a) + Len(b)
        /\ \A j \in 1 .. Len(a) + Len(b) : (a \o b)[j] = IF j <= Len(a) THEN a[j] ELSE b[j - Len(a)]
    BY <1>2, <1>3, ConcatProperties
  <2> QED  BY <1>2, <2>1, <2>2, Zenon
<1>6. ASSUME NEW j \in 1 .. Len(s) - 1, j >= i PROVE b[j - (i - 1)] = s[j + 1]
  <2>1. j - (i - 1) \in 1 .. Len(s) - i /\ i + (j - (i - 1)) = j + 1  BY <1>1, <1>6
  <2> QED  BY <1>3, <2>1
<1> QED  BY <1>1, <1>2, <1>4, <1>5, <1>6

\* What SelectInSeq returns, I being the places of that kind.
LEMMA FirstPlace ==
  ASSUME NEW n \in Nat, NEW I \in SUBSET (1 .. n)
  PROVE  \/ I = {} /\ (IF I # {} THEN Min(I) ELSE 0) = 0
         \/ /\ (IF I # {} THEN Min(I) ELSE 0) \in I
            /\ \A j \in I : (IF I # {} THEN Min(I) ELSE 0) <= j
<1>1. IsFiniteSet(I)
  <2>1. IsFiniteSet(1 .. n)  BY FS_Interval
  <2> QED  BY <2>1, FS_Subset, Zenon
<1>2. I \in SUBSET Int  OBVIOUS
<1>3. I # {} => Min(I) \in I /\ \A j \in I : Min(I) <= j  BY <1>1, <1>2, MinOf
<1> QED  BY <1>3

-----------------------------------------------------------------------------
(* The two loops of matching, round by round. *)

\* A round of the inner or of the outer loop, o saying which and for which order.
Inner    == <<TRUE>>
Outer(o) == <<FALSE, o>>
round(o, acc, x) == IF o[1] THEN takeFrom(acc, x) ELSE matchLevel(o[2], acc, x)

\* What the recursion of the fold asks of g at a set s of places.
FoldStep(o, base, g, seq, s) == IF s = {} THEN base ELSE round(o, g[s \ {Max(s)}], seq[Max(s)])

FoldUpto(o, base, g, seq, n) ==
  \A s \in SUBSET DOMAIN seq : Cardinality(s) <= n => g[s] = FoldStep(o, base, g, seq, s)

Folds(o, base, g, seq) == g = [s \in SUBSET DOMAIN seq |-> FoldStep(o, base, g, seq, s)]

\* It has a solution.
LEMMA FoldExists ==
  ASSUME NEW E, NEW seq \in Seq(E), NEW o, NEW base
  PROVE  \E g : Folds(o, base, g, seq)
<1> DEFINE S == DOMAIN seq
           T == {n \in Nat : \E g : g = [s \in SUBSET S |-> g[s]] /\ FoldUpto(o, base, g, seq, n)}
<1>0. IsFiniteSet(S) /\ S \subseteq Int
  <2>1. DOMAIN seq = 1 .. Len(seq) /\ Len(seq) \in Nat  OBVIOUS
  <2> QED  BY <2>1, FS_Interval
<1>1. \A s \in SUBSET S : /\ IsFiniteSet(s) /\ Cardinality(s) \in Nat
                          /\ (Cardinality(s) = 0 => s = {})
  <2> HIDE DEF S
  <2> QED  BY <1>0, FS_Subset, FS_CardinalityType, FS_EmptySet
<1>2. \A s \in SUBSET S : s # {} => /\ Max(s) \in s /\ s \ {Max(s)} \in SUBSET S
                                    /\ Cardinality(s \ {Max(s)}) = Cardinality(s) - 1
  <2> HIDE DEF S
  <2> TAKE s \in SUBSET S
  <2> HAVE s # {}
  <2>0. s \in SUBSET Int  BY <1>0
  <2>1. Max(s) \in s  BY <1>1, <2>0, MaxOf
  <2>2. Cardinality(s \ {Max(s)}) = Cardinality(s) - 1
    BY <1>1, <2>1, FS_RemoveElement, Zenon
  <2> QED  BY <2>1, <2>2
<1>3. 0 \in T
  <2> DEFINE g == [s \in SUBSET S |-> base]
  <2>1. \A s \in SUBSET S : Cardinality(s) <= 0 => g[s] = FoldStep(o, base, g, seq, s)
    BY <1>1 DEF FoldStep
  <2>2. FoldUpto(o, base, g, seq, 0)  BY <2>1 DEF FoldUpto
  <2>3. g = [s \in SUBSET S |-> g[s]]  OBVIOUS
  <2> HIDE DEF g
  <2> QED  BY <2>2, <2>3
<1>4. ASSUME NEW n \in Nat, n \in T PROVE n + 1 \in T
  <2>1. PICK g : FoldUpto(o, base, g, seq, n)  BY <1>4
  <2> HIDE DEF T
  <2> DEFINE h == [s \in SUBSET S |-> FoldStep(o, base, g, seq, s)]
  <2>2. \A s \in SUBSET S : Cardinality(s) <= n => h[s] = g[s]  BY <2>1 DEF FoldUpto
  <2>3. \A s \in SUBSET S : Cardinality(s) <= n + 1 /\ s # {} => h[s \ {Max(s)}] = g[s \ {Max(s)}]
    <3> TAKE s \in SUBSET S
    <3> HAVE Cardinality(s) <= n + 1 /\ s # {}
    <3>1. Cardinality(s \ {Max(s)}) <= n  BY <1>1, <1>2
    <3> HIDE DEF h
    <3> QED  BY <1>2, <2>2, <3>1
  <2>4. \A s \in SUBSET S : h[s] = FoldStep(o, base, g, seq, s)  OBVIOUS
  <2>5. h = [s \in SUBSET S |-> h[s]]  OBVIOUS
  <2> HIDE DEF h
  <2>6. \A s \in SUBSET S : Cardinality(s) <= n + 1 => h[s] = FoldStep(o, base, h, seq, s)
    BY <2>3, <2>4 DEF FoldStep
  <2>7. FoldUpto(o, base, h, seq, n + 1)  BY <2>6 DEF FoldUpto
  <2> QED  BY <2>5, <2>7 DEF T
<1> HIDE DEF T
<1>5. Cardinality(S) \in T  BY <1>1, <1>3, <1>4, Induct
<1>6. PICK g : g = [s \in SUBSET S |-> g[s]] /\ FoldUpto(o, base, g, seq, Cardinality(S))  BY <1>5 DEF T
<1>7. \A s \in SUBSET S : Cardinality(s) <= Cardinality(S)
  <2> HIDE DEF S
  <2> QED  BY <1>0, FS_Subset
<1>8. \A s \in SUBSET S : g[s] = FoldStep(o, base, g, seq, s)  BY <1>6, <1>7 DEF FoldUpto
<1>9. [s \in SUBSET S |-> g[s]] = [s \in SUBSET S |-> FoldStep(o, base, g, seq, s)]  BY <1>8
<1>10. Folds(o, base, g, seq)  BY <1>6, <1>9, Zenon DEF Folds
<1> QED  BY <1>10

\* h goes through the rounds.
Rounds(o, base, seq, h) ==
  /\ h[0] = base
  /\ \A n \in 0 .. Len(seq) - 1 : h[n + 1] = round(o, h[n], seq[n + 1])

\* The fold takes the elements in their order.
LEMMA FoldInOrder ==
  ASSUME NEW E, NEW seq \in Seq(E), NEW o, NEW base, NEW g, Folds(o, base, g, seq)
  PROVE  \E h : Rounds(o, base, seq, h) /\ g[DOMAIN seq] = h[Len(seq)]
<1> DEFINE h == [n \in 0 .. Len(seq) |-> g[1 .. n]]
<1>1. DOMAIN seq = 1 .. Len(seq) /\ Len(seq) \in Nat  OBVIOUS
<1>2. \A s \in SUBSET DOMAIN seq : g[s] = FoldStep(o, base, g, seq, s)  BY DEF Folds
<1>3. 1 .. 0 = {}  OBVIOUS
<1>4. g[1 .. 0] = base  BY <1>2, <1>3 DEF FoldStep
<1>5. ASSUME NEW n \in 0 .. Len(seq) - 1 PROVE g[1 .. n + 1] = round(o, g[1 .. n], seq[n + 1])
  <2>0. n \in Nat /\ n + 1 <= Len(seq)  BY <1>1
  <2>1. Max(1 .. n + 1) = n + 1 /\ (1 .. n + 1) \ {n + 1} = 1 .. n
    <3>1. IsFiniteSet(1 .. n + 1) /\ 1 .. n + 1 \in SUBSET Int /\ n + 1 \in 1 .. n + 1
      BY <2>0, FS_Interval
    <3> DEFINE R == 1 .. n + 1
    <3>2. R \in SUBSET Int /\ IsFiniteSet(R) /\ R # {}  BY <3>1
    <3> HIDE DEF R
    <3>3. Max(R) \in R /\ \A y \in R : y <= Max(R)  BY <3>2, MaxOf
    <3> QED  BY <2>0, <3>1, <3>3 DEF R
  <2>2. 1 .. n + 1 \in SUBSET DOMAIN seq /\ 1 .. n + 1 # {}
    <3>1. 1 .. n + 1 \subseteq 1 .. Len(seq) /\ 1 \in 1 .. n + 1  BY <1>1, <2>0
    <3> QED  BY <1>1, <3>1
  <2> QED  BY <1>2, <2>1, <2>2 DEF FoldStep
<1>6. h[0] = base  BY <1>1, <1>4
<1>7. \A n \in 0 .. Len(seq) - 1 : h[n + 1] = round(o, h[n], seq[n + 1])
  <2> TAKE n \in 0 .. Len(seq) - 1
  <2>1. n \in 0 .. Len(seq) /\ n + 1 \in 0 .. Len(seq)  BY <1>1
  <2>2. h[n] = g[1 .. n] /\ h[n + 1] = g[1 .. n + 1]  BY <2>1
  <2> HIDE DEF h
  <2> QED  BY <1>5, <2>2
<1>8. h[Len(seq)] = g[DOMAIN seq]  BY <1>1
<1> HIDE DEF h
<1> QED  BY <1>6, <1>7, <1>8 DEF Rounds

\* The orders of a level.
LEMMA TakeInOrder ==
  ASSUME NEW E, NEW seq \in Seq(E), NEW base
  PROVE  \E h : Rounds(Inner, base, seq, h) /\ FoldLeft(takeFrom, base, seq) = h[Len(seq)]
<1> DEFINE Solves(g) == g = [s \in SUBSET DOMAIN seq |->
                               IF s = {} THEN base ELSE takeFrom(g[s \ {Max(s)}], seq[Max(s)])]
<1>1. \A g : Solves(g) <=> Folds(Inner, base, g, seq)  BY DEF Folds, FoldStep, round, Inner
<1>2. \E g : Solves(g)  BY <1>1, FoldExists
<1> DEFINE it == CHOOSE it : Solves(it)
<1>3. Solves(it)
  <2> HIDE DEF Solves
  <2> QED  BY <1>2
<1>4. FoldLeft(takeFrom, base, seq) = it[DOMAIN seq]
  BY DEF FoldLeft, MapThenFoldSet
<1> HIDE DEF it, Solves
<1> QED  BY <1>1, <1>3, <1>4, FoldInOrder

\* The levels of a side.
LEMMA MatchInOrder ==
  ASSUME NEW E, NEW seq \in Seq(E), NEW o
  PROVE  \E h : /\ Rounds(Outer(o), [done |-> FALSE, left |-> o.qty, gone |-> {}, last |-> 0, levels |-> <<>>], seq, h)
                /\ match(o, seq) = h[Len(seq)]
<1> DEFINE base == [done |-> FALSE, left |-> o.qty, gone |-> {}, last |-> 0, levels |-> <<>>]
           Solves(g) == g = [s \in SUBSET DOMAIN seq |->
                               IF s = {} THEN base ELSE matchLevel(o, g[s \ {Max(s)}], seq[Max(s)])]
<1>1. \A g : Solves(g) <=> Folds(Outer(o), base, g, seq)  BY DEF Folds, FoldStep, round, Outer
<1>2. \E g : Solves(g)  
  <2> HIDE DEF Solves, base
  <2> QED  BY <1>1, FoldExists
<1> DEFINE it == CHOOSE it : Solves(it)
<1>3. Solves(it)
  <2> HIDE DEF Solves
  <2> QED  BY <1>2
<1>4. match(o, seq) = it[DOMAIN seq]
  BY DEF match, FoldLeft, MapThenFoldSet
<1> HIDE DEF it, Solves
<1>5. \E h : Rounds(Outer(o), base, seq, h) /\ it[DOMAIN seq] = h[Len(seq)]
  <2> HIDE DEF base
  <2> QED  BY <1>1, <1>3, FoldInOrder
<1> QED  BY <1>4, <1>5

-----------------------------------------------------------------------------
(* What the inner loop leaves of a level. *)

\* Resting orders, the rows of a side, and what they hold.
Rest  == {r \in [id : Ids, left : Nat \ {0}, seq : Nat] : \E q \in Quantities : r.left <= q}
Level == [price : Prices, orders : Seq(Rest)]

HasId(orders, x)  == \E i \in DOMAIN orders : orders[i].id = x
Single(orders)    == \A i, j \in DOMAIN orders : orders[i].id = orders[j].id => i = j
\* Among the first n.
HasUpto(orders, n, x) == \E i \in 1 .. n : orders[i].id = x

\* After n rounds: acc of a level's orders, `start` being what was left and
\* `gone` who was gone before.  Nothing is kept while something is left, and of
\* each id the level had, once, either is true: kept or gone.
TakenTo(orders, n, start, gone, acc) ==
  /\ acc.left \in Nat /\ acc.left <= start
  /\ acc.kept \in Seq(Rest)
  /\ acc.kept # <<>> => acc.left = 0
  /\ \A x : HasId(acc.kept, x) => HasUpto(orders, n, x)
  /\ \A x : HasUpto(orders, n, x) => HasId(acc.kept, x) \/ x \in acc.gone
  /\ \A x : x \in acc.gone => x \in gone \/ HasUpto(orders, n, x)
  /\ gone \subseteq acc.gone
  /\ Single(orders) => /\ Single(acc.kept)
                       /\ \A x : HasId(acc.kept, x) /\ x \in acc.gone => x \in gone

\* One more id at the end.
LEMMA IdsAppended ==
  ASSUME NEW s \in Seq(Rest), NEW r \in Rest
  PROVE  /\ \A x : HasId(Append(s, r), x) <=> HasId(s, x) \/ x = r.id
         /\ Single(s) /\ ~HasId(s, r.id) => Single(Append(s, r))
<1> DEFINE a == Append(s, r)
           n == Len(s) + 1
<1>1. /\ DOMAIN a = DOMAIN s \cup {n} /\ n \notin DOMAIN s /\ a[n] = r
      /\ \A i \in DOMAIN s : a[i] = s[i]
  OBVIOUS
<1> HIDE DEF a, n
<1>2. \A x : HasId(a, x) <=> HasId(s, x) \/ x = r.id  BY <1>1 DEF HasId
<1>3. Single(s) /\ ~HasId(s, r.id) => Single(a)  BY <1>1 DEF HasId, Single
<1> QED  BY <1>2, <1>3 DEF a

\* One round.
LEMMA RoundOfTaking ==
  ASSUME NEW orders \in Seq(Rest), NEW n \in 0 .. Len(orders) - 1, NEW start \in Nat, NEW gone,
         NEW acc, TakenTo(orders, n, start, gone, acc)
  PROVE  TakenTo(orders, n + 1, start, gone, takeFrom(acc, orders[n + 1]))
<1> DEFINE r == orders[n + 1]
           m == Min({acc.left, r.left})
           k == [r EXCEPT !.left = @ - m]
<1>1. n \in Nat /\ n + 1 \in 1 .. Len(orders) /\ Len(orders) \in Nat /\ DOMAIN orders = 1 .. Len(orders)
  OBVIOUS
<1>2. r \in Rest /\ r.left \in Nat /\ r.left > 0 /\ acc.left \in Nat
  <2>1. r \in Rest  BY <1>1
  <2> QED  BY <2>1 DEF Rest, TakenTo
<1>3. m = IF acc.left <= r.left THEN acc.left ELSE r.left
  <2>1. acc.left \in Int /\ r.left \in Int  BY <1>2
  <2> HIDE DEF r
  <2> QED  BY <2>1, MaxMinOfTwo
<1>4. \A x : HasUpto(orders, n + 1, x) <=> HasUpto(orders, n, x) \/ x = r.id
  <2>1. 1 .. n + 1 = 1 .. n \cup {n + 1}  BY <1>1
  <2> QED  BY <2>1 DEF HasUpto
<1>5. Single(orders) => ~HasUpto(orders, n, r.id)
  <2> SUFFICES ASSUME Single(orders), NEW i \in 1 .. n, orders[i].id = r.id PROVE FALSE
    BY DEF HasUpto
  <2>1. i \in DOMAIN orders /\ n + 1 \in DOMAIN orders /\ i # n + 1  BY <1>1
  <2> QED  BY <2>1 DEF Single
<1>6. takeFrom(acc, r) = [left |-> acc.left - m,
                          gone |-> IF m = r.left THEN acc.gone \cup {r.id} ELSE acc.gone,
                          kept |-> IF m = r.left THEN acc.kept ELSE Append(acc.kept, k)]
  BY DEF takeFrom
<1>7. m # r.left => k \in Rest /\ k.id = r.id
  <2>1. PICK q \in Quantities : r.left <= q  BY <1>2 DEF Rest
  <2>2. q \in Nat  BY BookAssumption
  <2>3. r.id \in Ids /\ r.seq \in Nat /\ r = [id |-> r.id, left |-> r.left, seq |-> r.seq]
    BY <1>2 DEF Rest
  <2> HIDE DEF r, m
  <2>4. k = [id |-> r.id, left |-> r.left - m, seq |-> r.seq]  BY <2>3
  <2>5. m # r.left => r.left - m \in Nat \ {0} /\ r.left - m <= q  BY <1>2, <1>3, <2>1, <2>2
  <2> HIDE DEF k
  <2> QED  BY <2>3, <2>4, <2>5 DEF Rest
<1> HIDE DEF r, m, k
<1> DEFINE t == takeFrom(acc, r)
<1>8. CASE m = r.left
  <2>1. t.left = acc.left - m /\ t.gone = acc.gone \cup {r.id} /\ t.kept = acc.kept  BY <1>6, <1>8
  <2> HIDE DEF t
  <2>2. t.left \in Nat /\ t.left <= start /\ (t.kept # <<>> => t.left = 0) /\ t.kept \in Seq(Rest)
    BY <1>2, <1>3, <1>8, <2>1 DEF TakenTo
  <2>3. /\ \A x : HasId(t.kept, x) => HasUpto(orders, n + 1, x)
        /\ \A x : HasUpto(orders, n + 1, x) => HasId(t.kept, x) \/ x \in t.gone
        /\ \A x : x \in t.gone => x \in gone \/ HasUpto(orders, n + 1, x)
        /\ gone \subseteq t.gone
    BY <1>4, <2>1 DEF TakenTo
  <2>4. Single(orders) => /\ Single(t.kept)
                          /\ \A x : HasId(t.kept, x) /\ x \in t.gone => x \in gone
    BY <1>5, <2>1 DEF TakenTo
  <2>5. TakenTo(orders, n + 1, start, gone, t)  BY <2>2, <2>3, <2>4, Zenon DEF TakenTo
  <2> QED  BY <2>5 DEF t, r
<1>9. CASE m # r.left
  <2>1. t.left = acc.left - m /\ t.gone = acc.gone /\ t.kept = Append(acc.kept, k)  BY <1>6, <1>9
  <2> HIDE DEF t
  <2>2. t.left = 0 /\ t.left \in Nat /\ t.left <= start  BY <1>2, <1>3, <1>9, <2>1
  <2>3. acc.kept \in Seq(Rest) /\ k \in Rest /\ k.id = r.id  BY <1>7, <1>9 DEF TakenTo
  <2>4. t.kept \in Seq(Rest)  BY <2>1, <2>3
  <2>5. /\ \A x : HasId(t.kept, x) <=> HasId(acc.kept, x) \/ x = r.id
        /\ Single(acc.kept) /\ ~HasId(acc.kept, r.id) => Single(t.kept)
    BY <2>1, <2>3, IdsAppended
  <2>6. /\ \A x : HasId(t.kept, x) => HasUpto(orders, n + 1, x)
        /\ \A x : HasUpto(orders, n + 1, x) => HasId(t.kept, x) \/ x \in t.gone
        /\ \A x : x \in t.gone => x \in gone \/ HasUpto(orders, n + 1, x)
        /\ gone \subseteq t.gone
    BY <1>4, <2>1, <2>5 DEF TakenTo
  <2>7. Single(orders) => /\ Single(t.kept)
                          /\ \A x : HasId(t.kept, x) /\ x \in t.gone => x \in gone
    BY <1>5, <2>1, <2>5 DEF TakenTo
  <2>8. TakenTo(orders, n + 1, start, gone, t)  BY <2>2, <2>4, <2>6, <2>7, Zenon DEF TakenTo
  <2> QED  BY <2>8 DEF t, r
<1> QED  BY <1>8, <1>9

\* The whole loop.
LEMMA TakingResult ==
  ASSUME NEW orders \in Seq(Rest), NEW start \in Nat, NEW gone
  PROVE  TakenTo(orders, Len(orders), start, gone,
                 FoldLeft(takeFrom, [left |-> start, gone |-> gone, kept |-> <<>>], orders))
<1> DEFINE base == [left |-> start, gone |-> gone, kept |-> <<>>]
<1>1. PICK h : Rounds(Inner, base, orders, h) /\ FoldLeft(takeFrom, base, orders) = h[Len(orders)]
  <2> HIDE DEF base
  <2> QED  BY TakeInOrder
<1>2. Len(orders) \in Nat  OBVIOUS
<1> DEFINE T == {n \in Nat : n <= Len(orders) => TakenTo(orders, n, start, gone, h[n])}
<1>3. 0 \in T
  <2>1. h[0].left = start /\ h[0].gone = gone /\ h[0].kept = <<>>  BY <1>1 DEF Rounds
  <2>2. \A x : ~HasId(<<>>, x) /\ ~HasUpto(orders, 0, x)  BY DEF HasId, HasUpto
  <2>3. Single(<<>>) /\ <<>> \in Seq(Rest)  BY DEF Single
  <2>4. TakenTo(orders, 0, start, gone, h[0])  BY <2>1, <2>2, <2>3 DEF TakenTo
  <2> QED  BY <2>4
<1>4. ASSUME NEW n \in Nat, n \in T PROVE n + 1 \in T
  <2> SUFFICES ASSUME n + 1 <= Len(orders) PROVE TakenTo(orders, n + 1, start, gone, h[n + 1])
    OBVIOUS
  <2>1. n \in 0 .. Len(orders) - 1 /\ TakenTo(orders, n, start, gone, h[n])  BY <1>2, <1>4
  <2>2. h[n + 1] = takeFrom(h[n], orders[n + 1])  BY <1>1, <2>1 DEF Rounds, round, Inner
  <2> HIDE DEF T
  <2> QED  BY <2>1, <2>2, RoundOfTaking
<1> HIDE DEF T
<1>5. Len(orders) \in T  BY <1>2, <1>3, <1>4, Induct
<1> QED  BY <1>1, <1>2, <1>5 DEF T

-----------------------------------------------------------------------------
(* What the outer loop leaves of a side. *)

Holds(levels, x)   == \E i \in DOMAIN levels : HasId(levels[i].orders, x)
Rests(levels, p)   == \E i \in DOMAIN levels : levels[i].price = p /\ levels[i].orders # <<>>
Ordered(t, levels) == \A i, j \in DOMAIN levels : i < j => better(t, levels[i].price, levels[j].price)

\* Every id once.
Once(levels) ==
  /\ \A i \in DOMAIN levels : Single(levels[i].orders)
  /\ \A i, j \in DOMAIN levels : \A x :
       HasId(levels[i].orders, x) /\ HasId(levels[j].orders, x) => i = j

\* Among the first n levels.
HoldsUpto(levels, n, x) == \E i \in 1 .. n : HasId(levels[i].orders, x)

\* On a side whose levels stand as type t has them, what o does not cross
\* comes after what it crosses.
Stops(o, t) == \A p, q \in Prices : better(t, p, q) /\ ~crosses(o, p) => ~crosses(o, q)

\* Order r rests at price p.
Has(orders, r)   == \E n \in DOMAIN orders : orders[n] = r
At(levels, p, r) == \E i \in DOMAIN levels : levels[i].price = p /\ Has(levels[i].orders, r)

\* Each level has its orders as they arrived, the last of them by `now`.
Rising(orders)     == \A i, j \in DOMAIN orders : i < j => orders[i].seq < orders[j].seq
Timed(levels, now) ==
  \A i \in DOMAIN levels :
    Rising(levels[i].orders) /\ \A r : Has(levels[i].orders, r) => r.seq <= now

\* What is left is of the levels seen.
FromUpto(levels, n, out) ==
  \A k \in DOMAIN out : \E i \in 1 .. n :
    levels[i].price = out[k].price /\ (out[k].orders # <<>> => levels[i].orders # <<>>)

\* Each id they had is kept or gone, and not both if it was there once.
IdsMatched(levels, n, acc) ==
  /\ \A x : Holds(acc.levels, x) => HoldsUpto(levels, n, x)
  /\ \A x : HoldsUpto(levels, n, x) => Holds(acc.levels, x) \/ x \in acc.gone
  /\ \A x : x \in acc.gone => HoldsUpto(levels, n, x)
  /\ Once(levels) => Once(acc.levels) /\ \A x : ~(Holds(acc.levels, x) /\ x \in acc.gone)

\* After n rounds: while something is left, no level kept may be traded with.
MatchedTo(o, t, levels, n, acc) ==
  /\ acc = [done |-> acc.done, left |-> acc.left, gone |-> acc.gone, last |-> acc.last,
            levels |-> acc.levels]
  /\ acc.left \in Nat /\ acc.left <= o.qty /\ acc.last \in Nat
  /\ acc.levels \in Seq(Level) /\ Ordered(t, acc.levels)
  /\ FromUpto(levels, n, acc.levels)
  /\ IdsMatched(levels, n, acc)
  /\ acc.left > 0 => \A k \in DOMAIN acc.levels : ~crosses(o, acc.levels[k].price)
  /\ acc.done /\ acc.left > 0 => \E i \in 1 .. n : ~crosses(o, levels[i].price)

\* One more level at the end.
LEMMA LevelAppended ==
  ASSUME NEW s \in Seq(Level), NEW l \in Level
  PROVE  /\ Append(s, l) \in Seq(Level)
         /\ \A k \in DOMAIN Append(s, l) : (k \in DOMAIN s /\ Append(s, l)[k] = s[k]) \/ Append(s, l)[k] = l
         /\ \A x : Holds(Append(s, l), x) <=> Holds(s, x) \/ HasId(l.orders, x)
         /\ (Once(s) /\ Single(l.orders) /\ \A x : ~(Holds(s, x) /\ HasId(l.orders, x))) => Once(Append(s, l))
         /\ \A t : (Ordered(t, s) /\ \A k \in DOMAIN s : better(t, s[k].price, l.price)) => Ordered(t, Append(s, l))
<1> DEFINE a == Append(s, l)
           n == Len(s) + 1
<1>1. /\ DOMAIN a = DOMAIN s \cup {n} /\ n \notin DOMAIN s /\ a[n] = l
      /\ \A i \in DOMAIN s : a[i] = s[i] /\ i \in Int /\ i < n
      /\ a \in Seq(Level) /\ n \in Int
  OBVIOUS
<1> HIDE DEF a, n
<1>2. \A x : Holds(a, x) <=> Holds(s, x) \/ HasId(l.orders, x)  BY <1>1 DEF Holds
<1>3. (Once(s) /\ Single(l.orders) /\ \A x : ~(Holds(s, x) /\ HasId(l.orders, x))) => Once(a)
  BY <1>1 DEF Once, Holds
<1>4. ASSUME NEW t, Ordered(t, s), \A k \in DOMAIN s : better(t, s[k].price, l.price)
      PROVE  Ordered(t, a)
  <2> SUFFICES ASSUME NEW i \in DOMAIN a, NEW j \in DOMAIN a, i < j
               PROVE  better(t, a[i].price, a[j].price)
    BY DEF Ordered
  <2>1. i \in DOMAIN s  BY <1>1
  <2>2. CASE j = n  BY <1>1, <1>4, <2>1, <2>2
  <2>3. CASE j \in DOMAIN s  BY <1>1, <1>4, <2>1, <2>3 DEF Ordered
  <2> QED  BY <1>1, <2>2, <2>3
<1> QED  BY <1>1, <1>2, <1>3, <1>4 DEF a

\* A round that leaves, of level n + 1, the level l.
LEMMA RoundLeaves ==
  ASSUME NEW levels \in Seq(Level), NEW n \in 0 .. Len(levels) - 1, NEW t, Ordered(t, levels),
         NEW s \in Seq(Level), Ordered(t, s), FromUpto(levels, n, s),
         NEW l \in Level, l.price = levels[n + 1].price, l.orders # <<>> => levels[n + 1].orders # <<>>
  PROVE  /\ Append(s, l) \in Seq(Level) /\ Ordered(t, Append(s, l))
         /\ FromUpto(levels, n + 1, Append(s, l))
<1>1. n \in Nat /\ n + 1 \in DOMAIN levels /\ 1 .. n \subseteq DOMAIN levels
      /\ 1 .. n + 1 = 1 .. n \cup {n + 1}
  OBVIOUS
<1>2. ASSUME NEW k \in DOMAIN s PROVE better(t, s[k].price, l.price)
  <2>1. PICK i \in 1 .. n : levels[i].price = s[k].price  BY DEF FromUpto
  <2>2. i \in DOMAIN levels /\ i < n + 1  BY <1>1
  <2> QED  BY <1>1, <2>1, <2>2 DEF Ordered
<1>3. Append(s, l) \in Seq(Level) /\ Ordered(t, Append(s, l))  BY <1>2, LevelAppended
<1>4. \A k \in DOMAIN Append(s, l) : (k \in DOMAIN s /\ Append(s, l)[k] = s[k]) \/ Append(s, l)[k] = l
  BY LevelAppended
<1> DEFINE a == Append(s, l)
<1> HIDE DEF a
<1>5. FromUpto(levels, n + 1, a)
  <2> SUFFICES ASSUME NEW k \in DOMAIN a
               PROVE  \E i \in 1 .. n + 1 : levels[i].price = a[k].price
                                           /\ (a[k].orders # <<>> => levels[i].orders # <<>>)
    BY DEF FromUpto
  <2>1. (k \in DOMAIN s /\ a[k] = s[k]) \/ a[k] = l  BY <1>4 DEF a
  <2>2. CASE a[k] = l  BY <1>1, <2>2
  <2>3. CASE k \in DOMAIN s /\ a[k] = s[k]  BY <1>1, <2>3 DEF FromUpto
  <2> QED  BY <2>1, <2>2, <2>3
<1> QED  BY <1>3, <1>5 DEF a

\* The ids, when l keeps some of level n + 1 and gone grows by others.
LEMMA RoundKeepsIds ==
  ASSUME NEW levels \in Seq(Level), NEW n \in 0 .. Len(levels) - 1,
         NEW acc, acc.levels \in Seq(Level), IdsMatched(levels, n, acc),
         NEW out, NEW kept, NEW gone,
         \A x : HasId(kept, x) => HasId(levels[n + 1].orders, x),
         \A x : HasId(levels[n + 1].orders, x) => HasId(kept, x) \/ x \in gone,
         \A x : x \in gone => x \in acc.gone \/ HasId(levels[n + 1].orders, x),
         acc.gone \subseteq gone,
         Single(levels[n + 1].orders) => \A x : HasId(kept, x) /\ x \in gone => x \in acc.gone,
         \A x : Holds(out, x) <=> Holds(acc.levels, x) \/ HasId(kept, x),
         (Once(acc.levels) /\ Single(levels[n + 1].orders)
            /\ \A x : ~(Holds(acc.levels, x) /\ HasId(kept, x))) => Once(out),
         NEW t, t.levels = out, t.gone = gone
  PROVE  IdsMatched(levels, n + 1, t)
<1>1. n \in Nat /\ n + 1 \in DOMAIN levels /\ 1 .. n \subseteq DOMAIN levels
      /\ 1 .. n + 1 = 1 .. n \cup {n + 1}
  OBVIOUS
<1>2. \A x : HoldsUpto(levels, n + 1, x) <=> HoldsUpto(levels, n, x) \/ HasId(levels[n + 1].orders, x)
  BY <1>1 DEF HoldsUpto
<1>3. Once(levels) => \A x : ~(HoldsUpto(levels, n, x) /\ HasId(levels[n + 1].orders, x))
  <2> SUFFICES ASSUME Once(levels), NEW x, NEW i \in 1 .. n, HasId(levels[i].orders, x),
                      HasId(levels[n + 1].orders, x)
               PROVE  FALSE
    BY DEF HoldsUpto
  <2>1. i \in DOMAIN levels /\ i # n + 1  BY <1>1
  <2> QED  BY <1>1, <2>1 DEF Once
<1>4. Once(levels) => Single(levels[n + 1].orders)  BY <1>1 DEF Once
<1>5. /\ \A x : Holds(out, x) => HoldsUpto(levels, n + 1, x)
      /\ \A x : HoldsUpto(levels, n + 1, x) => Holds(out, x) \/ x \in gone
      /\ \A x : x \in gone => HoldsUpto(levels, n + 1, x)
  BY <1>2 DEF IdsMatched
<1>6. Once(levels) => Once(out) /\ \A x : ~(Holds(out, x) /\ x \in gone)
  BY <1>3, <1>4 DEF IdsMatched
<1> QED  BY <1>5, <1>6 DEF IdsMatched

\* One round.
LEMMA RoundOfMatching ==
  ASSUME NEW levels \in Seq(Level), NEW n \in 0 .. Len(levels) - 1, NEW t, Ordered(t, levels),
         NEW o, o.qty \in Nat, Stops(o, t), NEW acc, MatchedTo(o, t, levels, n, acc)
  PROVE  MatchedTo(o, t, levels, n + 1, matchLevel(o, acc, levels[n + 1]))
<1> DEFINE lvl == levels[n + 1]
           in == FoldLeft(takeFrom, [left |-> acc.left, gone |-> acc.gone, kept |-> <<>>], lvl.orders)
           res == matchLevel(o, acc, lvl)
<1>1. n \in Nat /\ n + 1 \in DOMAIN levels /\ 1 .. n \subseteq DOMAIN levels
      /\ 1 .. n \subseteq 1 .. n + 1 /\ n + 1 \in 1 .. n + 1
  OBVIOUS
<1>2. lvl \in Level /\ lvl.orders \in Seq(Rest) /\ lvl.price \in Prices
      /\ lvl = [price |-> lvl.price, orders |-> lvl.orders]
  <2>1. lvl \in Level  BY <1>1
  <2> HIDE DEF lvl
  <2> QED  BY <2>1 DEF Level
<1>3. /\ acc.left \in Nat /\ acc.left <= o.qty /\ acc.levels \in Seq(Level) /\ Ordered(t, acc.levels)
      /\ acc.last \in Nat
      /\ FromUpto(levels, n, acc.levels) /\ IdsMatched(levels, n, acc)
      /\ acc.left > 0 => \A k \in DOMAIN acc.levels : ~crosses(o, acc.levels[k].price)
      /\ acc.done /\ acc.left > 0 => \E i \in 1 .. n : ~crosses(o, levels[i].price)
      /\ acc = [done |-> acc.done, left |-> acc.left, gone |-> acc.gone, last |-> acc.last,
                levels |-> acc.levels]
  BY DEF MatchedTo
<1>4. CASE acc.done \/ acc.left = 0 \/ ~crosses(o, lvl.price)
  <2> DEFINE new == Append(acc.levels, lvl)
  <2>1. res = [acc EXCEPT !.done = TRUE, !.levels = Append(@, lvl)]  BY <1>4 DEF matchLevel
  <2> HIDE DEF res, in
  <2>2. res = [done |-> TRUE, left |-> acc.left, gone |-> acc.gone, last |-> acc.last, levels |-> new]
    BY <1>3, <2>1
  <2>3. /\ res.done = TRUE /\ res.left = acc.left /\ res.gone = acc.gone /\ res.levels = new
        /\ res.last = acc.last
        /\ res = [done |-> res.done, left |-> res.left, gone |-> res.gone, last |-> res.last,
                  levels |-> res.levels]
    BY <2>2
  <2>4. new \in Seq(Level) /\ Ordered(t, new) /\ FromUpto(levels, n + 1, new)
    BY <1>2, <1>3, RoundLeaves
  <2>5. /\ \A k \in DOMAIN new : (k \in DOMAIN acc.levels /\ new[k] = acc.levels[k]) \/ new[k] = lvl
        /\ \A x : Holds(new, x) <=> Holds(acc.levels, x) \/ HasId(lvl.orders, x)
        /\ (Once(acc.levels) /\ Single(lvl.orders) /\ \A x : ~(Holds(acc.levels, x) /\ HasId(lvl.orders, x)))
             => Once(new)
    BY <1>2, <1>3, LevelAppended
  <2> HIDE DEF new
  <2>6. IdsMatched(levels, n + 1, res)
    <3> DEFINE kept == lvl.orders
               gone == acc.gone
    <3>1. Single(lvl.orders) => \A x : HasId(kept, x) /\ x \in gone => x \in acc.gone  OBVIOUS
    <3> QED  BY <1>3, <2>3, <2>5, <3>1, RoundKeepsIds
  <2>7. acc.left > 0 => ~crosses(o, lvl.price)
    <3> SUFFICES ASSUME acc.done, acc.left > 0 PROVE ~crosses(o, lvl.price)  BY <1>3, <1>4
    <3>1. PICK i \in 1 .. n : ~crosses(o, levels[i].price)  BY <1>3
    <3>2. i \in DOMAIN levels /\ i < n + 1 /\ levels[i].price \in Prices
      <4>1. i \in DOMAIN levels /\ i < n + 1  BY <1>1
      <4>2. levels[i] \in Level  BY <4>1
      <4> QED  BY <4>1, <4>2 DEF Level
    <3>3. better(t, levels[i].price, lvl.price)  BY <1>1, <3>2 DEF Ordered
    <3> HIDE DEF lvl
    <3> QED  BY <1>2, <3>1, <3>2, <3>3 DEF Stops
  <2>8. acc.left > 0 => \A k \in DOMAIN new : ~crosses(o, new[k].price)  BY <1>3, <2>5, <2>7
  <2>9. acc.left > 0 => \E i \in 1 .. n + 1 : ~crosses(o, levels[i].price)  BY <1>1, <2>7
  <2>10. MatchedTo(o, t, levels, n + 1, res)
    BY <1>3, <2>3, <2>4, <2>6, <2>8, <2>9 DEF MatchedTo
  <2> QED  BY <2>10 DEF res, lvl
<1>5. CASE ~(acc.done \/ acc.left = 0 \/ ~crosses(o, lvl.price))
  <2> DEFINE l == [lvl EXCEPT !.orders = in.kept]
             new == IF in.kept = <<>> THEN acc.levels ELSE Append(acc.levels, l)
             last == IF in.left < acc.left THEN lvl.price ELSE acc.last
  <2>1. TakenTo(lvl.orders, Len(lvl.orders), acc.left, acc.gone, in)
    <3> HIDE DEF lvl
    <3> QED  BY <1>2, <1>3, TakingResult
  <2>2. res = [done |-> FALSE, left |-> in.left, gone |-> in.gone, last |-> last, levels |-> new]
    BY <1>5 DEF matchLevel
  <2> HIDE DEF res, in
  <2>0. last \in Nat  BY <1>2, <1>3, BookAssumption
  <2>3. /\ res.done = FALSE /\ res.left = in.left /\ res.gone = in.gone /\ res.levels = new
        /\ res.last = last
        /\ res = [done |-> res.done, left |-> res.left, gone |-> res.gone, last |-> res.last,
                  levels |-> res.levels]
    <3> HIDE DEF new, last
    <3> QED  BY <2>2
  <2>4. \A x : HasUpto(lvl.orders, Len(lvl.orders), x) <=> HasId(lvl.orders, x)
    <3>1. DOMAIN lvl.orders = 1 .. Len(lvl.orders)  BY <1>2
    <3> QED  BY <3>1 DEF HasUpto, HasId
  <2>5. /\ in.left \in Nat /\ in.left <= acc.left /\ in.kept \in Seq(Rest)
        /\ in.kept # <<>> => in.left = 0
        /\ \A x : HasId(in.kept, x) => HasId(lvl.orders, x)
        /\ \A x : HasId(lvl.orders, x) => HasId(in.kept, x) \/ x \in in.gone
        /\ \A x : x \in in.gone => x \in acc.gone \/ HasId(lvl.orders, x)
        /\ acc.gone \subseteq in.gone
        /\ Single(lvl.orders) => /\ Single(in.kept)
                                 /\ \A x : HasId(in.kept, x) /\ x \in in.gone => x \in acc.gone
    BY <2>1, <2>4 DEF TakenTo
  <2>6. l \in Level /\ l.price = lvl.price /\ l.orders = in.kept
    <3>1. l = [price |-> lvl.price, orders |-> in.kept]
      <4> HIDE DEF lvl
      <4> QED  BY <1>2
    <3> HIDE DEF l, lvl
    <3> QED  BY <1>2, <2>5, <3>1 DEF Level
  <2>7. in.kept # <<>> => lvl.orders # <<>>
    <3> SUFFICES ASSUME in.kept # <<>> PROVE lvl.orders # <<>>  OBVIOUS
    <3>1. 1 \in DOMAIN in.kept  BY <2>5
    <3>2. HasId(lvl.orders, in.kept[1].id)  BY <2>5, <3>1 DEF HasId
    <3> HIDE DEF lvl
    <3>3. DOMAIN lvl.orders # {}  BY <3>2 DEF HasId
    <3> QED  BY <3>3
  <2> HIDE DEF l
  <2>8. new \in Seq(Level) /\ Ordered(t, new) /\ FromUpto(levels, n + 1, new)
    <3>1. CASE in.kept = <<>>
      <4>1. new = acc.levels  BY <3>1
      <4>2. FromUpto(levels, n + 1, acc.levels)  BY <1>1, <1>3 DEF FromUpto
      <4> QED  BY <1>3, <4>1, <4>2
    <3>2. CASE in.kept # <<>>
      <4>1. new = Append(acc.levels, l)  BY <3>2
      <4> QED  BY <1>3, <2>6, <2>7, <4>1, RoundLeaves
    <3> QED  BY <3>1, <3>2
  <2>9. /\ \A x : Holds(new, x) <=> Holds(acc.levels, x) \/ HasId(in.kept, x)
        /\ (Once(acc.levels) /\ Single(lvl.orders) /\ \A x : ~(Holds(acc.levels, x) /\ HasId(in.kept, x)))
             => Once(new)
    <3>1. CASE in.kept = <<>>
      <4>1. new = acc.levels  BY <3>1
      <4>2. \A x : ~HasId(in.kept, x)  BY <3>1 DEF HasId
      <4> QED  BY <4>1, <4>2
    <3>2. CASE in.kept # <<>>
      <4>1. new = Append(acc.levels, l)  BY <3>2
      <4> QED  BY <1>3, <2>5, <2>6, <4>1, LevelAppended
    <3> QED  BY <3>1, <3>2
  <2>10. in.left > 0 => \A k \in DOMAIN new : ~crosses(o, new[k].price)
    <3> SUFFICES ASSUME in.left > 0 PROVE \A k \in DOMAIN new : ~crosses(o, new[k].price)  OBVIOUS
    <3>1. in.kept = <<>> /\ acc.left > 0  BY <1>3, <2>5
    <3> QED  BY <1>3, <3>1
  <2> HIDE DEF new, last
  <2>11. IdsMatched(levels, n + 1, res)  BY <1>3, <2>3, <2>5, <2>9, RoundKeepsIds
  <2>12. in.left <= o.qty  
    <3>1. o.qty \in Nat /\ acc.left \in Nat /\ in.left \in Nat  BY <1>3, <2>5
    <3> QED  BY <1>3, <2>5, <3>1
  <2>13. MatchedTo(o, t, levels, n + 1, res)
    BY <2>0, <2>3, <2>5, <2>8, <2>10, <2>11, <2>12 DEF MatchedTo
  <2> QED  BY <2>13 DEF res, lvl
<1> QED  BY <1>4, <1>5

\* The whole loop.
atStart(o) == [done |-> FALSE, left |-> o.qty, gone |-> {}, last |-> 0, levels |-> <<>>]

LEMMA MatchingRounds ==
  ASSUME NEW levels \in Seq(Level), NEW t, Ordered(t, levels), NEW o, o.qty \in Nat, Stops(o, t)
  PROVE  \E h : /\ Rounds(Outer(o), atStart(o), levels, h) /\ match(o, levels) = h[Len(levels)]
               /\ \A n \in 0 .. Len(levels) : MatchedTo(o, t, levels, n, h[n])
<1> DEFINE base == atStart(o)
<1>1. PICK h : Rounds(Outer(o), base, levels, h) /\ match(o, levels) = h[Len(levels)]
  BY MatchInOrder DEF atStart
<1>2. Len(levels) \in Nat  OBVIOUS
<1> DEFINE T == {n \in Nat : n <= Len(levels) => MatchedTo(o, t, levels, n, h[n])}
<1>3. 0 \in T
  <2>1. h[0] = base  BY <1>1 DEF Rounds
  <2>2. \A x : ~Holds(<<>>, x) /\ ~HoldsUpto(levels, 0, x)  BY DEF Holds, HoldsUpto
  <2>3. Once(<<>>) /\ Ordered(t, <<>>) /\ <<>> \in Seq(Level) /\ FromUpto(levels, 0, <<>>)
    BY DEF Once, Ordered, FromUpto
  <2>4. IdsMatched(levels, 0, base)  BY <2>2, <2>3 DEF IdsMatched, atStart
  <2>5. MatchedTo(o, t, levels, 0, base)  BY <2>3, <2>4 DEF MatchedTo, atStart
  <2> QED  BY <2>1, <2>5
<1>4. ASSUME NEW n \in Nat, n \in T PROVE n + 1 \in T
  <2> SUFFICES ASSUME n + 1 <= Len(levels) PROVE MatchedTo(o, t, levels, n + 1, h[n + 1])
    OBVIOUS
  <2>1. n \in 0 .. Len(levels) - 1 /\ MatchedTo(o, t, levels, n, h[n])  BY <1>2, <1>4
  <2>2. h[n + 1] = matchLevel(o, h[n], levels[n + 1])  BY <1>1, <2>1 DEF Rounds, round, Outer
  <2> HIDE DEF T
  <2> QED  BY <2>1, <2>2, RoundOfMatching
<1> HIDE DEF T
<1>5. ASSUME NEW n \in 0 .. Len(levels) PROVE MatchedTo(o, t, levels, n, h[n])
  <2>1. n \in Nat /\ n <= Len(levels)  BY <1>2
  <2>2. n \in T  BY <1>3, <1>4, <2>1, Induct
  <2> QED  BY <2>1, <2>2 DEF T
<1> QED  BY <1>1, <1>5

LEMMA MatchingResult ==
  ASSUME NEW levels \in Seq(Level), NEW t, Ordered(t, levels), NEW o, o.qty \in Nat, Stops(o, t)
  PROVE  MatchedTo(o, t, levels, Len(levels), match(o, levels))
<1>1. PICK h : /\ match(o, levels) = h[Len(levels)]
               /\ \A n \in 0 .. Len(levels) : MatchedTo(o, t, levels, n, h[n])
  BY MatchingRounds
<1>2. Len(levels) \in 0 .. Len(levels)  OBVIOUS
<1> QED  BY <1>1, <1>2

-----------------------------------------------------------------------------
(* Resting and cancelling. *)

\* One more order at the end of a level.
LEMMA OrderAppended ==
  ASSUME NEW s \in Seq(Rest), NEW r \in Rest
  PROVE  /\ \A x : Has(Append(s, r), x) <=> Has(s, x) \/ x = r
         /\ (Rising(s) /\ \A x : Has(s, x) => x.seq < r.seq) => Rising(Append(s, r))
<1> DEFINE a == Append(s, r)
           n == Len(s) + 1
<1>1. /\ DOMAIN a = DOMAIN s \cup {n} /\ n \notin DOMAIN s /\ a[n] = r
      /\ \A i \in DOMAIN s : a[i] = s[i] /\ s[i] \in Rest /\ i \in Int /\ i < n
      /\ n \in Int
  OBVIOUS
<1> HIDE DEF a, n
<1>2. \A x : Has(a, x) <=> Has(s, x) \/ x = r  BY <1>1 DEF Has
<1>3. ASSUME Rising(s), \A x : Has(s, x) => x.seq < r.seq
      PROVE  Rising(a)
  <2>1. \A i \in DOMAIN s : s[i].seq < r.seq  BY <1>3 DEF Has
  <2>2. \A j \in DOMAIN s : ~(n < j)  BY <1>1
  <2>3. ~(n < n)  BY <1>1
  <2> QED  BY <1>1, <1>3, <2>1, <2>2, <2>3 DEF Rising
<1> QED  BY <1>2, <1>3 DEF a

\* A level whose orders change.
Changed(levels, i, orders) == [levels EXCEPT ![i].orders = orders]

LEMMA LevelChanged ==
  ASSUME NEW levels \in Seq(Level), NEW i \in DOMAIN levels, NEW orders \in Seq(Rest)
  PROVE  LET res == Changed(levels, i, orders) IN
         /\ res \in Seq(Level) /\ DOMAIN res = DOMAIN levels
         /\ \A k \in DOMAIN levels : res[k].price = levels[k].price /\ (k # i => res[k] = levels[k])
         /\ res[i].orders = orders
         /\ \A t : Ordered(t, levels) => Ordered(t, res)
<1>1. DOMAIN levels = 1 .. Len(levels) /\ Len(levels) \in Nat /\ \A k \in DOMAIN levels : levels[k] \in Level
  OBVIOUS
<1>2. levels[i] = [price |-> levels[i].price, orders |-> levels[i].orders] /\ levels[i].price \in Prices
  BY <1>1 DEF Level
<1> DEFINE l == [levels[i] EXCEPT !.orders = orders]
           res == Changed(levels, i, orders)
<1>3. l = [price |-> levels[i].price, orders |-> orders]  BY <1>2
<1>4. l \in Level /\ l.price = levels[i].price /\ l.orders = orders  BY <1>2, <1>3 DEF Level
<1>5. res = [levels EXCEPT ![i] = l]  BY DEF Changed
<1> HIDE DEF l, res
<1>6. /\ DOMAIN res = DOMAIN levels /\ res[i] = l /\ \A k \in DOMAIN levels : k # i => res[k] = levels[k]
  BY <1>1, <1>5
<1>7. res \in Seq(Level)
  <2>1. res \in [1 .. Len(levels) -> Level]  BY <1>1, <1>4, <1>5
  <2> QED  BY <1>1, <2>1
<1>8. \A k \in DOMAIN levels : res[k].price = levels[k].price  BY <1>4, <1>6
<1>9. \A t : Ordered(t, levels) => Ordered(t, res)  BY <1>6, <1>8 DEF Ordered
<1> QED  BY <1>4, <1>6, <1>7, <1>8, <1>9 DEF res

\* A new level at place p.
LEMMA LevelInserted ==
  ASSUME NEW levels \in Seq(Level), NEW p \in 1 .. Len(levels) + 1, NEW l \in Level, NEW t,
         Ordered(t, levels),
         \A j \in DOMAIN levels : j < p => better(t, levels[j].price, l.price),
         \A j \in DOMAIN levels : j >= p => better(t, l.price, levels[j].price),
         NEW res, res = InsertAt(levels, p, l)
  PROVE  /\ res \in Seq(Level) /\ Ordered(t, res)
         /\ \A x : Holds(res, x) <=> Holds(levels, x) \/ HasId(l.orders, x)
         /\ (Once(levels) /\ Single(l.orders) /\ \A x : ~(Holds(levels, x) /\ HasId(l.orders, x))) => Once(res)
         /\ \A q : Rests(res, q) => Rests(levels, q) \/ q = l.price
<1> DEFINE D == DOMAIN levels
<1>0. D = 1 .. Len(levels) /\ Len(levels) \in Nat /\ p \in Nat /\ p >= 1 /\ p <= Len(levels) + 1
  OBVIOUS
<1>1. /\ res \in Seq(Level) /\ DOMAIN res = 1 .. Len(levels) + 1
      /\ \A j \in 1 .. Len(levels) + 1 : res[j] = IF j < p THEN levels[j] ELSE IF j = p THEN l ELSE levels[j - 1]
  <2>1. /\ res \in Seq(Level) /\ Len(res) = Len(levels) + 1
        /\ \A j \in 1 .. Len(levels) + 1 : res[j] = IF j < p THEN levels[j] ELSE IF j = p THEN l ELSE levels[j - 1]
    <3>1. AddedAt(Level, levels, p, l, res)  BY Inserted
    <3> QED  BY <3>1 DEF AddedAt
  <2> QED  BY <2>1
<1> DEFINE old(j) == IF j < p THEN j ELSE j - 1
<1>2. \A j \in DOMAIN res : j # p => old(j) \in D /\ res[j] = levels[old(j)]  BY <1>0, <1>1
<1>3. p \in DOMAIN res /\ res[p] = l  BY <1>0, <1>1
<1>4. \A k \in D : \E j \in DOMAIN res : j # p /\ old(j) = k
  <2> TAKE k \in D
  <2>1. CASE k < p  BY <1>0, <1>1, <2>1
  <2>2. CASE k >= p
    <3>1. k + 1 \in DOMAIN res /\ k + 1 # p /\ old(k + 1) = k  BY <1>0, <1>1, <2>2
    <3> QED  BY <3>1
  <2> QED  BY <1>0, <2>1, <2>2
<1>5. /\ \A i, j \in DOMAIN res : i # p /\ j # p /\ i < j => old(i) < old(j)
      /\ \A i, j \in DOMAIN res : i # p /\ j # p /\ old(i) = old(j) => i = j
  BY <1>0, <1>1
<1>6. \A j \in DOMAIN res : j # p => (j < p => old(j) < p) /\ (j > p => old(j) >= p)
  BY <1>0, <1>1
<1>7. \A i \in DOMAIN res : i \in Int  BY <1>1
<1> HIDE DEF old, D
<1>8. Ordered(t, res)
  <2> SUFFICES ASSUME NEW i \in DOMAIN res, NEW j \in DOMAIN res, i < j
               PROVE  better(t, res[i].price, res[j].price)
    BY DEF Ordered
  <2>1. CASE i = p  BY <1>0, <1>2, <1>3, <1>6, <1>7, <2>1 DEF D
  <2>2. CASE j = p  BY <1>0, <1>2, <1>3, <1>6, <1>7, <2>2 DEF D
  <2>3. CASE i # p /\ j # p
    <3>1. old(i) < old(j)  BY <1>5, <2>3
    <3>2. /\ old(i) \in DOMAIN levels /\ res[i] = levels[old(i)]
          /\ old(j) \in DOMAIN levels /\ res[j] = levels[old(j)]
      BY <1>2, <2>3 DEF D
    <3> QED  BY <3>1, <3>2 DEF Ordered
  <2> QED  BY <2>1, <2>2, <2>3
<1>9. \A x : Holds(res, x) <=> Holds(levels, x) \/ HasId(l.orders, x)
  <2> TAKE x
  <2>1. ASSUME Holds(res, x) PROVE Holds(levels, x) \/ HasId(l.orders, x)
    BY <1>2, <1>3, <2>1 DEF Holds, D
  <2>2. ASSUME NEW k \in DOMAIN levels, HasId(levels[k].orders, x) PROVE Holds(res, x)
    <3>1. PICK j \in DOMAIN res : j # p /\ old(j) = k  BY <1>4 DEF D
    <3> QED  BY <1>2, <2>2, <3>1 DEF Holds
  <2>3. HasId(l.orders, x) => Holds(res, x)  BY <1>3 DEF Holds
  <2> QED  BY <2>1, <2>2, <2>3 DEF Holds
<1>10. ASSUME Once(levels), Single(l.orders), \A x : ~(Holds(levels, x) /\ HasId(l.orders, x))
       PROVE  Once(res)
  <2>1. ASSUME NEW i \in DOMAIN res PROVE Single(res[i].orders)
    <3>1. CASE i = p  BY <1>3, <1>10, <3>1
    <3>2. CASE i # p  BY <1>2, <1>10, <3>2 DEF Once, D
    <3> QED  BY <3>1, <3>2
  <2>2. ASSUME NEW i \in DOMAIN res, NEW j \in DOMAIN res, NEW x,
               HasId(res[i].orders, x), HasId(res[j].orders, x)
        PROVE  i = j
    <3>1. CASE i # p /\ j # p
      <4>1. old(i) \in DOMAIN levels /\ old(j) \in DOMAIN levels /\ res[i] = levels[old(i)] /\ res[j] = levels[old(j)]
        BY <1>2, <3>1 DEF D
      <4>2. old(i) = old(j)  BY <1>10, <2>2, <4>1 DEF Once
      <4> QED  BY <1>5, <3>1, <4>2
    <3>2. CASE i = p /\ j # p
      <4>1. Holds(levels, x)  BY <1>2, <2>2, <3>2 DEF Holds, D
      <4> QED  BY <1>3, <1>10, <2>2, <3>2, <4>1
    <3>3. CASE i # p /\ j = p
      <4>1. Holds(levels, x)  BY <1>2, <2>2, <3>3 DEF Holds, D
      <4> QED  BY <1>3, <1>10, <2>2, <3>3, <4>1
    <3> QED  BY <3>1, <3>2, <3>3
  <2> QED  BY <2>1, <2>2 DEF Once
<1>11. \A q : Rests(res, q) => Rests(levels, q) \/ q = l.price  BY <1>2, <1>3 DEF Rests, D
<1> QED  BY <1>1, <1>8, <1>9, <1>10, <1>11

\* A new level and the old ones, wherever it is.
LEMMA LevelJoined ==
  ASSUME NEW levels \in Seq(Level), NEW p \in 1 .. Len(levels) + 1, NEW l \in Level,
         NEW res, res = InsertAt(levels, p, l)
  PROVE  /\ \A j \in DOMAIN res : res[j] = l \/ \E k \in DOMAIN levels : res[j] = levels[k]
         /\ \A k \in DOMAIN levels : \E j \in DOMAIN res : res[j] = levels[k]
         /\ \E j \in DOMAIN res : res[j] = l
<1>1. /\ DOMAIN levels = 1 .. Len(levels) /\ Len(levels) \in Nat /\ p \in Nat
      /\ p >= 1 /\ p <= Len(levels) + 1
  OBVIOUS
<1>2. /\ DOMAIN res = 1 .. Len(levels) + 1
      /\ \A j \in 1 .. Len(levels) + 1 : res[j] = IF j < p THEN levels[j] ELSE IF j = p THEN l ELSE levels[j - 1]
  <2>1. /\ res \in Seq(Level) /\ Len(res) = Len(levels) + 1
        /\ \A j \in 1 .. Len(levels) + 1 : res[j] = IF j < p THEN levels[j] ELSE IF j = p THEN l ELSE levels[j - 1]
    <3>1. AddedAt(Level, levels, p, l, res)  BY Inserted
    <3> QED  BY <3>1 DEF AddedAt
  <2> QED  BY <2>1
<1>3. p \in DOMAIN res /\ res[p] = l  BY <1>1, <1>2
<1>4. ASSUME NEW k \in DOMAIN levels PROVE \E j \in DOMAIN res : res[j] = levels[k]
  <2>1. CASE k < p
    <3>1. k \in DOMAIN res /\ res[k] = levels[k]  BY <1>1, <1>2, <2>1
    <3> QED  BY <3>1
  <2>2. CASE k >= p
    <3>1. k + 1 \in 1 .. Len(levels) + 1 /\ ~(k + 1 < p) /\ k + 1 # p /\ (k + 1) - 1 = k
      BY <1>1, <2>2
    <3>2. k + 1 \in DOMAIN res /\ res[k + 1] = levels[k]  BY <1>2, <3>1
    <3> QED  BY <3>2
  <2> QED  BY <1>1, <2>1, <2>2
<1>5. ASSUME NEW j \in DOMAIN res PROVE res[j] = l \/ \E k \in DOMAIN levels : res[j] = levels[k]
  <2>1. CASE j < p
    <3>1. j \in DOMAIN levels /\ res[j] = levels[j]  BY <1>1, <1>2, <2>1
    <3> QED  BY <3>1
  <2>2. CASE j = p  BY <1>3, <2>2
  <2>3. CASE j > p
    <3>1. j - 1 \in DOMAIN levels /\ res[j] = levels[j - 1]  BY <1>1, <1>2, <2>3
    <3> QED  BY <3>1
  <2> QED  BY <1>1, <1>2, <2>1, <2>2, <2>3
<1> QED  BY <1>3, <1>4, <1>5

\* What a limit order may be.
Sound(o) == o.id \in Ids /\ o.type \in Limits /\ o.price \in Prices /\ o.qty \in Quantities /\ o.seq \in Nat

\* The rest of a limit order joins its side.
LEMMA InsertResult ==
  ASSUME NEW levels \in Seq(Level), NEW o, Sound(o), Ordered(o.type, levels),
         NEW left \in Nat \ {0}, left <= o.qty
  PROVE  LET res == insert(levels, o, left) IN
         /\ res \in Seq(Level) /\ Ordered(o.type, res)
         /\ \A x : Holds(res, x) <=> Holds(levels, x) \/ x = o.id
         /\ Once(levels) /\ ~Holds(levels, o.id) => Once(res)
         /\ \A q : Rests(res, q) => Rests(levels, q) \/ q = o.price
         /\ \A q, x : At(res, q, x) <=> \/ At(levels, q, x)
                                       \/ (q = o.price /\ x = [id |-> o.id, left |-> left, seq |-> o.seq])
         /\ \A now \in Nat : Timed(levels, now) /\ now < o.seq => Timed(res, o.seq)
<1> DEFINE n == Len(levels)
           res == insert(levels, o, left)
           r == [id |-> o.id, left |-> left, seq |-> o.seq]
           Same == {k \in 1 .. n : levels[k].price = o.price}
           Worse == {k \in 1 .. n : better(o.type, o.price, levels[k].price)}
           i == IF Same # {} THEN Min(Same) ELSE 0
           w == IF Worse # {} THEN Min(Worse) ELSE 0
           l == [price |-> o.price, orders |-> <<r>>]
           p == IF w = 0 THEN n + 1 ELSE w
<1>1. res = IF i # 0 THEN [levels EXCEPT ![i].orders = Append(levels[i].orders, r)] ELSE InsertAt(levels, p, l)
  BY DEF insert, SelectInSeq
<1>2. n \in Nat /\ DOMAIN levels = 1 .. n /\ \A k \in 1 .. n : levels[k] \in Level  OBVIOUS
<1>3. \A k \in 1 .. n : levels[k].price \in Nat /\ levels[k].orders \in Seq(Rest)
  BY <1>2, BookAssumption DEF Level
<1>4. r \in Rest /\ r.id = o.id
  <2>1. left \in Nat \ {0} /\ o.id \in Ids /\ o.seq \in Nat /\ o.qty \in Quantities  BY DEF Sound
  <2> QED  BY <2>1 DEF Rest
<1>5. o.price \in Nat /\ o.price \in Prices /\ o.type \in Limits  BY BookAssumption DEF Sound
<1>6. Same \in SUBSET (1 .. n) /\ Worse \in SUBSET (1 .. n)  OBVIOUS
<1>7. /\ \A k \in 1 .. n : k \in Same <=> levels[k].price = o.price
      /\ \A k \in 1 .. n : k \in Worse <=> better(o.type, o.price, levels[k].price)
  OBVIOUS
<1> HIDE DEF res, r, Same, Worse
<1>8. (Same = {} /\ i = 0) \/ (i \in Same /\ \A j \in Same : i <= j)  BY <1>2, <1>6, FirstPlace
<1>9. (Worse = {} /\ w = 0) \/ (w \in Worse /\ \A j \in Worse : w <= j)  BY <1>2, <1>6, FirstPlace
<1> HIDE DEF n, i, w
<1>10. CASE i # 0
  <2>1. i \in 1 .. n /\ levels[i].price = o.price  BY <1>6, <1>7, <1>8, <1>10
  <2> DEFINE orders == Append(levels[i].orders, r)
  <2>2. orders \in Seq(Rest)  BY <1>3, <1>4, <2>1
  <2>3. /\ \A x : HasId(orders, x) <=> HasId(levels[i].orders, x) \/ x = o.id
        /\ Single(levels[i].orders) /\ ~HasId(levels[i].orders, o.id) => Single(orders)
    <3>1. levels[i].orders \in Seq(Rest)  BY <1>3, <2>1
    <3> QED  BY <1>4, <3>1, IdsAppended
  <2>4. res = Changed(levels, i, orders)  BY <1>1, <1>10 DEF Changed
  <2> HIDE DEF orders
  <2>5. /\ res \in Seq(Level) /\ DOMAIN res = DOMAIN levels
        /\ \A k \in DOMAIN levels : res[k].price = levels[k].price /\ (k # i => res[k] = levels[k])
        /\ res[i].orders = orders
        /\ \A t : Ordered(t, levels) => Ordered(t, res)
    <3>1. i \in DOMAIN levels  BY <1>2, <2>1
    <3> QED  BY <2>2, <2>4, <3>1, LevelChanged
  <2>6. \A x : Holds(res, x) <=> Holds(levels, x) \/ x = o.id
    BY <1>2, <2>1, <2>3, <2>5 DEF Holds
  <2>7. Once(levels) /\ ~Holds(levels, o.id) => Once(res)
    <3> SUFFICES ASSUME Once(levels), ~Holds(levels, o.id) PROVE Once(res)  OBVIOUS
    <3>1. \A k \in DOMAIN levels : ~HasId(levels[k].orders, o.id)  BY DEF Holds
    <3>2. \A k \in DOMAIN res : Single(res[k].orders)  BY <1>2, <2>1, <2>3, <2>5, <3>1 DEF Once
    <3>3. \A k \in DOMAIN res : \A x : HasId(res[k].orders, x) <=> HasId(levels[k].orders, x) \/ (k = i /\ x = o.id)
      BY <1>2, <2>1, <2>3, <2>5
    <3>4. ASSUME NEW k \in DOMAIN res, NEW j \in DOMAIN res, NEW x,
                 HasId(res[k].orders, x), HasId(res[j].orders, x)
          PROVE  k = j
      <4>1. CASE x = o.id  BY <2>5, <3>1, <3>3, <3>4, <4>1
      <4>2. CASE x # o.id
        <5>1. HasId(levels[k].orders, x) /\ HasId(levels[j].orders, x)  BY <3>3, <3>4, <4>2
        <5> QED  BY <2>5, <5>1 DEF Once
      <4> QED  BY <4>1, <4>2
    <3> QED  BY <3>2, <3>4 DEF Once
  <2>8. \A q : Rests(res, q) => Rests(levels, q) \/ q = o.price
    BY <1>2, <2>1, <2>5 DEF Rests
  <2>9. /\ \A x : Has(orders, x) <=> Has(levels[i].orders, x) \/ x = r
        /\ (Rising(levels[i].orders) /\ \A x : Has(levels[i].orders, x) => x.seq < r.seq) => Rising(orders)
    BY <1>3, <1>4, <2>1, OrderAppended DEF orders
  <2>10. \A q, x : At(res, q, x) <=> At(levels, q, x) \/ (q = o.price /\ x = r)
    BY <1>2, <2>1, <2>5, <2>9 DEF At
  <2>11. ASSUME NEW now \in Nat, Timed(levels, now), now < o.seq PROVE Timed(res, o.seq)
    <3>1. r.seq = o.seq /\ o.seq \in Nat  BY DEF r, Sound
    <3>2. \A x \in Rest : x.seq <= now => x.seq <= o.seq /\ x.seq < r.seq  BY <2>11, <3>1 DEF Rest
    <3>3. \A k \in DOMAIN levels : \A x : Has(levels[k].orders, x) => x.seq <= o.seq /\ x.seq < r.seq
      BY <1>2, <1>3, <2>11, <3>2 DEF Timed, Has
    <3>4. Rising(orders) /\ \A x : Has(orders, x) => x.seq <= o.seq
      BY <1>2, <2>1, <2>9, <2>11, <3>1, <3>3 DEF Timed
    <3> QED  BY <1>2, <2>1, <2>5, <2>11, <3>3, <3>4 DEF Timed
  <2> QED  BY <2>5, <2>6, <2>7, <2>8, <2>10, <2>11 DEF res, r
<1>11. CASE i = 0
  <2>1. \A k \in 1 .. n : levels[k].price # o.price
    <3>1. Same = {}  
      <4>1. 0 \notin Same  BY <1>6
      <4> QED  BY <1>8, <1>11, <4>1
    <3> QED  BY <1>7, <3>1
  <2>2. l \in Level /\ l.price = o.price /\ l.orders = <<r>>
    <3>1. <<r>> \in Seq(Rest)  BY <1>4
    <3> QED  BY <1>5, <3>1 DEF Level
  <2>3. /\ \A x : HasId(l.orders, x) <=> x = o.id
        /\ Single(l.orders)
    <3>1. DOMAIN <<r>> = {1} /\ <<r>>[1] = r  OBVIOUS
    <3> HIDE DEF l
    <3> QED  BY <1>4, <2>2, <3>1 DEF HasId, Single
  <2>4. res = InsertAt(levels, p, l)  BY <1>1, <1>11
  <2>5. p \in 1 .. n + 1 /\ \A j \in 1 .. n : j < p => j \notin Worse
    <3>1. CASE w = 0
      <4>1. 0 \notin Worse  BY <1>6
      <4>2. Worse = {}  BY <1>9, <3>1, <4>1
      <4> QED  BY <1>2, <3>1, <4>2
    <3>2. CASE w # 0
      <4>1. w \in Worse /\ w \in 1 .. n  BY <1>6, <1>9, <3>2
      <4>2. p = w  BY <3>2
      <4> HIDE DEF p
      <4> QED  BY <1>2, <1>9, <4>1, <4>2
    <3> QED  BY <3>1, <3>2
  <2>6. \A j \in 1 .. n : j < p => better(o.type, levels[j].price, l.price)
    <3> TAKE j \in 1 .. n
    <3> HAVE j < p
    <3>1. ~better(o.type, o.price, levels[j].price)  BY <1>7, <2>5
    <3>2. levels[j].price \in Nat /\ levels[j].price # o.price  BY <1>3, <2>1
    <3> HIDE DEF l
    <3> QED  BY <1>5, <2>2, <3>1, <3>2 DEF better
  <2>7. \A j \in 1 .. n : j >= p => better(o.type, l.price, levels[j].price)
    <3> TAKE j \in 1 .. n
    <3> HAVE j >= p
    <3>1. w # 0 /\ p = w  BY <1>2
    <3>2. w \in Worse /\ w \in 1 .. n  BY <1>6, <1>9, <3>1
    <3>3. better(o.type, o.price, levels[w].price)  BY <1>7, <3>2
    <3>4. j = w \/ w < j  BY <3>1, <3>2
    <3>5. w < j => better(o.type, levels[w].price, levels[j].price)  BY <1>2, <3>2 DEF Ordered
    <3>6. levels[j].price \in Nat /\ levels[w].price \in Nat  BY <1>3, <3>2
    <3> HIDE DEF l, p
    <3> QED  BY <1>5, <2>2, <3>3, <3>4, <3>5, <3>6 DEF better
  <2> HIDE DEF l, p
  <2>8. /\ res \in Seq(Level) /\ Ordered(o.type, res)
        /\ \A x : Holds(res, x) <=> Holds(levels, x) \/ HasId(l.orders, x)
        /\ (Once(levels) /\ Single(l.orders) /\ \A x : ~(Holds(levels, x) /\ HasId(l.orders, x))) => Once(res)
        /\ \A q : Rests(res, q) => Rests(levels, q) \/ q = l.price
    BY <1>2, <2>2, <2>4, <2>5, <2>6, <2>7, LevelInserted DEF n
  <2>8a. /\ \A j \in DOMAIN res : res[j] = l \/ \E k \in DOMAIN levels : res[j] = levels[k]
         /\ \A k \in DOMAIN levels : \E j \in DOMAIN res : res[j] = levels[k]
         /\ \E j \in DOMAIN res : res[j] = l
    <3>1. l \in Level /\ p \in 1 .. Len(levels) + 1 /\ levels \in Seq(Level)  BY <1>2, <2>2, <2>5 DEF n
    <3>2. res = InsertAt(levels, p, l)  BY <2>4
    <3> HIDE DEF res, n
    <3> QED  BY <3>1, <3>2, LevelJoined
  <2>9. \A x : Has(l.orders, x) <=> x = r
    <3>1. DOMAIN <<r>> = {1} /\ <<r>>[1] = r  OBVIOUS
    <3> QED  BY <2>2, <3>1 DEF Has
  <2>10. \A q, x : At(res, q, x) <=> At(levels, q, x) \/ (q = o.price /\ x = r)
    BY <2>2, <2>8a, <2>9 DEF At
  <2>11. ASSUME NEW now \in Nat, Timed(levels, now), now < o.seq PROVE Timed(res, o.seq)
    <3>1. r.seq = o.seq /\ o.seq \in Nat  BY DEF r, Sound
    <3>2. \A x \in Rest : x.seq <= now => x.seq <= o.seq  BY <2>11, <3>1 DEF Rest
    <3>3. \A k \in DOMAIN levels : Rising(levels[k].orders) /\ \A x : Has(levels[k].orders, x) => x.seq <= o.seq
      BY <1>2, <1>3, <2>11, <3>2 DEF Timed, Has
    <3>4. Rising(l.orders) /\ \A x : Has(l.orders, x) => x.seq <= o.seq
      <4>1. DOMAIN <<r>> = {1} /\ 1 \in Int /\ ~(1 < 1)  OBVIOUS
      <4> QED  BY <2>2, <2>9, <3>1, <4>1 DEF Rising
    <3> QED  BY <2>8a, <3>3, <3>4 DEF Timed
  <2> QED  BY <2>2, <2>3, <2>8, <2>10, <2>11 DEF res, r
<1> QED  BY <1>10, <1>11

\* The first order with an id leaves.
LEMMA OneRemoved ==
  ASSUME NEW s \in Seq(Rest), NEW id, HasId(s, id)
  PROVE  LET t == RemoveFirstMatch(s, LAMBDA r : r.id = id) IN
         /\ t \in Seq(Rest) /\ t # s
         /\ t # <<>> => s # <<>>
         /\ \A x : HasId(t, x) => HasId(s, x)
         /\ \A x : HasId(s, x) /\ x # id => HasId(t, x)
         /\ Single(s) => Single(t) /\ ~HasId(t, id)
         /\ \A x : Has(t, x) => Has(s, x)
         /\ \A x : Has(s, x) /\ x.id # id => Has(t, x)
         /\ Rising(s) => Rising(t)
<1> DEFINE n == Len(s)
           I == {k \in 1 .. n : s[k].id = id}
           i == IF I # {} THEN Min(I) ELSE 0
           t == RemoveFirstMatch(s, LAMBDA r : r.id = id)
<1>1. n \in Nat /\ DOMAIN s = 1 .. n /\ Len(s) = n  OBVIOUS
<1>2. \E k \in 1 .. n : s[k].id = id  BY <1>1 DEF HasId
<1>3. t = RemoveAt(s, i)  BY <1>2 DEF RemoveFirstMatch, SelectInSeq
<1>4. I \in SUBSET (1 .. n) /\ I # {}  BY <1>2
<1>5. \A k \in 1 .. n : k \in I <=> s[k].id = id  OBVIOUS
<1> HIDE DEF I, t
<1>6. i \in I  BY <1>1, <1>4, FirstPlace
<1>7. i \in 1 .. n /\ s[i].id = id  BY <1>4, <1>5, <1>6
<1> HIDE DEF i
<1>8. /\ t \in Seq(Rest) /\ Len(t) = n - 1
      /\ \A j \in 1 .. n - 1 : t[j] = IF j < i THEN s[j] ELSE s[j + 1]
  BY <1>3, <1>7, Removed
<1>9. DOMAIN t = 1 .. n - 1  BY <1>1, <1>8
<1> DEFINE old(j) == IF j < i THEN j ELSE j + 1
<1>10. \A j \in DOMAIN t : old(j) \in 1 .. n /\ old(j) # i /\ t[j] = s[old(j)]
  BY <1>1, <1>7, <1>8, <1>9
<1>11. \A k \in 1 .. n : k # i => \E j \in DOMAIN t : old(j) = k
  <2> TAKE k \in 1 .. n
  <2> HAVE k # i
  <2>1. CASE k < i
    <3>1. k \in DOMAIN t /\ old(k) = k  BY <1>1, <1>7, <1>9, <2>1
    <3> QED  BY <3>1
  <2>2. CASE k > i
    <3>1. k - 1 \in DOMAIN t /\ old(k - 1) = k  BY <1>1, <1>7, <1>9, <2>2
    <3> QED  BY <3>1
  <2> QED  BY <1>7, <2>1, <2>2
<1>12. \A j, k \in DOMAIN t : /\ old(j) = old(k) => j = k
                              /\ j < k => old(j) < old(k)
  BY <1>1, <1>7, <1>9
<1>13. t # s /\ (t # <<>> => s # <<>>)
  <2>2. Len(s) = n /\ Len(t) = n - 1  BY <1>1, <1>8
  <2> HIDE DEF n, old
  <2>0. n \in Nat /\ i \in 1 .. n  BY <1>1, <1>7
  <2>1. n \in Nat /\ n >= 1 /\ n - 1 # n  BY <2>0
  <2>3. Len(t) # Len(s) /\ Len(s) # 0  BY <2>1, <2>2
  <2> QED  BY <2>3
<1> HIDE DEF old, n
<1>14. \A x : HasId(t, x) => HasId(s, x)  BY <1>1, <1>10 DEF HasId
<1>15. \A x : HasId(s, x) /\ x # id => HasId(t, x)
  <2> SUFFICES ASSUME NEW x, x # id, NEW k \in DOMAIN s, s[k].id = x PROVE HasId(t, x)
    BY DEF HasId
  <2>1. PICK j \in DOMAIN t : old(j) = k  BY <1>1, <1>7, <1>11
  <2> QED  BY <1>10, <2>1 DEF HasId
<1>16. ASSUME Single(s) PROVE Single(t) /\ ~HasId(t, id)
  <2>1. Single(t)
    <3> SUFFICES ASSUME NEW j \in DOMAIN t, NEW k \in DOMAIN t, t[j].id = t[k].id PROVE j = k
      BY DEF Single
    <3>1. old(j) \in DOMAIN s /\ old(k) \in DOMAIN s /\ s[old(j)].id = s[old(k)].id  BY <1>1, <1>10
    <3>2. old(j) = old(k)  BY <1>16, <3>1 DEF Single
    <3> QED  BY <1>12, <3>2
  <2>2. ASSUME NEW j \in DOMAIN t, t[j].id = id PROVE FALSE
    <3>1. old(j) \in DOMAIN s /\ i \in DOMAIN s /\ old(j) # i /\ s[old(j)].id = s[i].id
      BY <1>1, <1>7, <1>10, <2>2
    <3> QED  BY <1>16, <3>1 DEF Single
  <2> QED  BY <2>1, <2>2 DEF HasId
<1>17. \A x : Has(t, x) => Has(s, x)  BY <1>1, <1>10 DEF Has
<1>18. \A x : Has(s, x) /\ x.id # id => Has(t, x)
  <2> SUFFICES ASSUME NEW k \in DOMAIN s, s[k].id # id PROVE Has(t, s[k])
    BY DEF Has
  <2>1. PICK j \in DOMAIN t : old(j) = k  BY <1>1, <1>7, <1>11
  <2> QED  BY <1>10, <2>1 DEF Has
<1>19. Rising(s) => Rising(t)
  <2> SUFFICES ASSUME Rising(s), NEW j \in DOMAIN t, NEW k \in DOMAIN t, j < k
               PROVE  t[j].seq < t[k].seq
    BY DEF Rising
  <2>1. old(j) \in DOMAIN s /\ old(k) \in DOMAIN s /\ old(j) < old(k)  BY <1>1, <1>10, <1>12
  <2> QED  BY <1>10, <2>1 DEF Rising
<1> QED  BY <1>8, <1>13, <1>14, <1>15, <1>16, <1>17, <1>18, <1>19 DEF t

\* A side without the first order of an id.
LEMMA WithoutResult ==
  ASSUME NEW levels \in Seq(Level), NEW id
  PROVE  LET res == without(levels, id) IN
         /\ res \in Seq(Level) /\ \A t : Ordered(t, levels) => Ordered(t, res)
         /\ \A x : Holds(res, x) => Holds(levels, x)
         /\ \A x : Holds(levels, x) /\ x # id => Holds(res, x)
         /\ ~Holds(levels, id) => res = levels
         /\ Holds(levels, id) => res # levels
         /\ Once(levels) => Once(res) /\ ~Holds(res, id)
         /\ \A q : Rests(res, q) => Rests(levels, q)
         /\ \A q, x : At(res, q, x) => At(levels, q, x)
         /\ \A q, x : At(levels, q, x) /\ x.id # id => At(res, q, x)
         /\ \A now : Timed(levels, now) => Timed(res, now)
<1> DEFINE n == Len(levels)
           res == without(levels, id)
           I == {k \in 1 .. n : HasId(levels[k].orders, id)}
           i == IF I # {} THEN Min(I) ELSE 0
           orders == RemoveFirstMatch(levels[i].orders, LAMBDA r : r.id = id)
<1>1. res = IF i = 0 THEN levels ELSE Changed(levels, i, orders)
  BY DEF without, SelectInSeq, HasId, Changed
<1>2. n \in Nat /\ DOMAIN levels = 1 .. n /\ \A k \in 1 .. n : levels[k] \in Level  OBVIOUS
<1>3. \A k \in 1 .. n : levels[k].orders \in Seq(Rest)  BY <1>2 DEF Level
<1>4. I \in SUBSET (1 .. n) /\ \A k \in 1 .. n : k \in I <=> HasId(levels[k].orders, id)  OBVIOUS
<1> HIDE DEF I, res
<1>5. (I = {} /\ i = 0) \/ (i \in I /\ \A j \in I : i <= j)  BY <1>2, <1>4, FirstPlace
<1>6. Holds(levels, id) <=> I # {}  BY <1>2, <1>4 DEF Holds
<1>7. CASE I = {}
  <2>1. i = 0 /\ ~Holds(levels, id)  BY <1>6, <1>7
  <2> HIDE DEF i, orders
  <2>2. res = levels  BY <1>1, <2>1
  <2> QED  BY <2>1, <2>2 DEF res
<1>8. CASE I # {}
  <2> HIDE DEF i
  <2>1. i \in 1 .. n /\ HasId(levels[i].orders, id) /\ i # 0
    <3> HIDE DEF orders
    <3>1. i \in I  BY <1>5, <1>8
    <3>2. i \in 1 .. n  BY <1>4, <3>1
    <3> QED  BY <1>4, <3>1, <3>2
  <2>2. /\ orders \in Seq(Rest) /\ orders # levels[i].orders
        /\ orders # <<>> => levels[i].orders # <<>>
        /\ \A x : HasId(orders, x) => HasId(levels[i].orders, x)
        /\ \A x : HasId(levels[i].orders, x) /\ x # id => HasId(orders, x)
        /\ Single(levels[i].orders) => Single(orders) /\ ~HasId(orders, id)
        /\ \A x : Has(orders, x) => Has(levels[i].orders, x)
        /\ \A x : Has(levels[i].orders, x) /\ x.id # id => Has(orders, x)
        /\ Rising(levels[i].orders) => Rising(orders)
    BY <1>3, <2>1, OneRemoved
  <2> HIDE DEF orders
  <2>3. res = Changed(levels, i, orders) /\ i \in DOMAIN levels  BY <1>1, <1>2, <2>1
  <2>4. /\ res \in Seq(Level) /\ DOMAIN res = DOMAIN levels
        /\ \A k \in DOMAIN levels : res[k].price = levels[k].price /\ (k # i => res[k] = levels[k])
        /\ res[i].orders = orders
        /\ \A t : Ordered(t, levels) => Ordered(t, res)
    BY <2>2, <2>3, LevelChanged
  <2>5. res # levels  BY <2>2, <2>4
  <2>6. \A k \in DOMAIN levels : \A x : HasId(res[k].orders, x) => HasId(levels[k].orders, x)
    BY <2>2, <2>4
  <2>7. \A x : Holds(res, x) => Holds(levels, x)  BY <2>4, <2>6 DEF Holds
  <2>8. \A x : Holds(levels, x) /\ x # id => Holds(res, x)
    <3>1. \A k \in DOMAIN levels : \A x : HasId(levels[k].orders, x) /\ x # id => HasId(res[k].orders, x)
      BY <2>2, <2>4
    <3> QED  BY <2>4, <3>1 DEF Holds
  <2>9. ASSUME Once(levels) PROVE Once(res) /\ ~Holds(res, id)
    <3>1. \A k \in DOMAIN res : Single(res[k].orders)  BY <2>2, <2>3, <2>4, <2>9 DEF Once
    <3>2. Once(res)  BY <2>4, <2>6, <2>9, <3>1 DEF Once
    <3>3. ASSUME NEW k \in DOMAIN res, HasId(res[k].orders, id) PROVE FALSE
      <4>1. k = i  BY <2>1, <2>3, <2>4, <2>6, <2>9, <3>3 DEF Once
      <4>2. ~HasId(orders, id)  BY <2>2, <2>3, <2>9 DEF Once
      <4> QED  BY <2>4, <3>3, <4>1, <4>2
    <3> QED  BY <3>2, <3>3 DEF Holds
  <2>10. \A q : Rests(res, q) => Rests(levels, q)  BY <2>2, <2>3, <2>4 DEF Rests
  <2>11. Holds(levels, id)  BY <1>6, <1>8
  <2>12. \A k \in DOMAIN levels : \A x :
           /\ Has(res[k].orders, x) => Has(levels[k].orders, x)
           /\ Has(levels[k].orders, x) /\ x.id # id => Has(res[k].orders, x)
    BY <2>2, <2>4
  <2>13. /\ \A q, x : At(res, q, x) => At(levels, q, x)
         /\ \A q, x : At(levels, q, x) /\ x.id # id => At(res, q, x)
    <3>1. ASSUME NEW q, NEW x, NEW k \in DOMAIN levels, res[k].price = q, Has(res[k].orders, x)
          PROVE  At(levels, q, x)
      <4>1. levels[k].price = q /\ Has(levels[k].orders, x)  BY <2>4, <2>12, <3>1
      <4> QED  BY <4>1 DEF At
    <3>2. ASSUME NEW q, NEW x, x.id # id, NEW k \in DOMAIN levels, levels[k].price = q,
                 Has(levels[k].orders, x)
          PROVE  At(res, q, x)
      <4>1. res[k].price = q /\ Has(res[k].orders, x) /\ k \in DOMAIN res  BY <2>4, <2>12, <3>2
      <4> QED  BY <4>1 DEF At
    <3> QED  BY <2>4, <3>1, <3>2 DEF At
  <2>14. \A now : Timed(levels, now) => Timed(res, now)
    BY <2>2, <2>3, <2>4, <2>12 DEF Timed
  <2> QED  BY <2>4, <2>5, <2>7, <2>8, <2>9, <2>10, <2>11, <2>13, <2>14 DEF res
<1> QED  BY <1>7, <1>8

-----------------------------------------------------------------------------
(* A book. *)

GoodBook(b) ==
  /\ b = [bids |-> b.bids, asks |-> b.asks, orders |-> b.orders]
  /\ b.bids \in Seq(Level) /\ b.asks \in Seq(Level)
  /\ Ordered("LIMIT_BUY", b.bids) /\ Ordered("LIMIT_SELL", b.asks)
  /\ \A p, q \in Nat : Rests(b.bids, p) /\ Rests(b.asks, q) => p < q

\* The lookup knows what rests.
KnownIds(b) ==
  /\ Once(b.bids) /\ Once(b.asks)
  /\ \A x : ~(Holds(b.bids, x) /\ Holds(b.asks, x))
  /\ \A x : x \in b.orders <=> Holds(b.bids, x) \/ Holds(b.asks, x)

AnOrder(o) ==
  /\ o.id \in Ids /\ o.qty \in Quantities /\ o.seq \in Nat
  /\ o.type \in Buys \cup Sells /\ (o.type \in Limits => o.price \in Prices)

SideOf(o)  == IF o.type \in Buys THEN "LIMIT_BUY" ELSE "LIMIT_SELL"
Against(o) == IF o.type \in Buys THEN "LIMIT_SELL" ELSE "LIMIT_BUY"

\* Matching may stop at the first level an order does not cross.
LEMMA OrdersStop ==
  ASSUME NEW o, AnOrder(o)
  PROVE  Stops(o, Against(o))
<1>0. o.type \in Buys \cup Sells /\ (o.type \in Limits => o.price \in Nat)
  BY BookAssumption DEF AnOrder
<1> SUFFICES ASSUME NEW p \in Prices, NEW q \in Prices, better(Against(o), p, q), ~crosses(o, p)
             PROVE  ~crosses(o, q)
  BY DEF Stops
<1>1. p \in Nat /\ q \in Nat  BY BookAssumption
<1>2. o.type \in Limits  BY DEF crosses
<1>3. CASE o.type = "LIMIT_BUY"
  <2>1. Against(o) = "LIMIT_SELL" /\ "LIMIT_SELL" \notin Buys  BY <1>3 DEF Against, Buys
  <2> QED  BY <1>1, <1>0, <1>1, <1>2, <1>3, <2>1 DEF crosses, better
<1>4. CASE o.type = "LIMIT_SELL"
  <2>1. Against(o) = "LIMIT_BUY" /\ "LIMIT_BUY" \in Buys  BY <1>4 DEF Against, Buys
  <2> QED  BY <1>1, <1>0, <1>1, <1>2, <1>4, <2>1 DEF crosses, better
<1> QED  BY <1>2, <1>3, <1>4 DEF Limits

\* What an order does to the side it rests on and the side it trades with.
LEMMA SidesResult ==
  ASSUME NEW mine \in Seq(Level), NEW other \in Seq(Level), NEW o, AnOrder(o),
         Ordered(SideOf(o), mine), Ordered(Against(o), other),
         \A p, q \in Nat : Rests(mine, p) /\ Rests(other, q) => better(Against(o), p, q)
  PROVE  LET m == match(o, other)
             rests == o.type \in Limits /\ m.left > 0
             mine2 == IF rests THEN insert(mine, o, m.left) ELSE mine
         IN  /\ m.left \in Nat /\ m.left <= o.qty
             /\ m.levels \in Seq(Level) /\ Ordered(Against(o), m.levels)
             /\ mine2 \in Seq(Level) /\ Ordered(SideOf(o), mine2)
             /\ \A p, q \in Nat : Rests(mine2, p) /\ Rests(m.levels, q) => better(Against(o), p, q)
             /\ (/\ Once(mine) /\ Once(other) /\ \A x : ~(Holds(mine, x) /\ Holds(other, x))
                 /\ ~Holds(mine, o.id) /\ ~Holds(other, o.id))
                => /\ Once(mine2) /\ Once(m.levels) /\ \A x : ~(Holds(mine2, x) /\ Holds(m.levels, x))
                   /\ \A x : Holds(mine2, x) \/ Holds(m.levels, x)
                             <=> \/ (Holds(mine, x) \/ Holds(other, x)) /\ x \notin m.gone
                                 \/ rests /\ x = o.id
<1> DEFINE m == match(o, other)
           rests == o.type \in Limits /\ m.left > 0
           mine2 == IF rests THEN insert(mine, o, m.left) ELSE mine
<1>1. o.qty \in Nat /\ o.type \in Buys \cup Sells /\ (o.type \in Limits => o.price \in Nat)
  BY BookAssumption DEF AnOrder
<1>2. Stops(o, Against(o))  BY OrdersStop
<1>3. MatchedTo(o, Against(o), other, Len(other), m)  BY <1>1, <1>2, MatchingResult
<1> HIDE DEF m
<1>4. /\ m.left \in Nat /\ m.left <= o.qty /\ m.levels \in Seq(Level) /\ Ordered(Against(o), m.levels)
      /\ FromUpto(other, Len(other), m.levels) /\ IdsMatched(other, Len(other), m)
      /\ m.left > 0 => \A k \in DOMAIN m.levels : ~crosses(o, m.levels[k].price)
  BY <1>3 DEF MatchedTo
<1>5. DOMAIN other = 1 .. Len(other)  OBVIOUS
<1>6. \A x : HoldsUpto(other, Len(other), x) <=> Holds(other, x)  BY <1>5 DEF HoldsUpto, Holds
<1>7. \A q : Rests(m.levels, q) => Rests(other, q)  BY <1>4, <1>5 DEF Rests, FromUpto
<1>8. /\ \A x : Holds(m.levels, x) => Holds(other, x)
      /\ \A x : Holds(other, x) => Holds(m.levels, x) \/ x \in m.gone
      /\ \A x : x \in m.gone => Holds(other, x)
      /\ Once(other) => Once(m.levels) /\ \A x : ~(Holds(m.levels, x) /\ x \in m.gone)
  BY <1>4, <1>6 DEF IdsMatched
<1>9. CASE ~rests
  <2>1. mine2 = mine  BY <1>9
  <2> HIDE DEF mine2, rests
  <2> QED  BY <1>4, <1>7, <1>8, <1>9, <2>1 DEF m, mine2, rests
<1>10. CASE rests
  <2>1. /\ Sound(o) /\ Ordered(o.type, mine) /\ m.left \in Nat \ {0} /\ m.left <= o.qty
        /\ o.type \in Limits /\ m.left > 0
    <3>1. o.type \in Limits /\ m.left > 0  BY <1>10
    <3>2. Sound(o)  BY <3>1 DEF Sound, AnOrder
    <3>3. Ordered(o.type, mine)  BY <3>1 DEF Ordered, better, SideOf, Limits, Buys
    <3> QED  BY <1>4, <3>1, <3>2, <3>3
  <2>2. mine2 = insert(mine, o, m.left)  BY <1>10
  <2> HIDE DEF mine2
  <2>3. /\ mine2 \in Seq(Level) /\ Ordered(o.type, mine2)
        /\ \A x : Holds(mine2, x) <=> Holds(mine, x) \/ x = o.id
        /\ Once(mine) /\ ~Holds(mine, o.id) => Once(mine2)
        /\ \A q : Rests(mine2, q) => Rests(mine, q) \/ q = o.price
    BY <2>1, <2>2, InsertResult
  <2>4. Ordered(SideOf(o), mine2)  BY <2>1, <2>3 DEF Ordered, better, SideOf, Limits, Buys
  <2>5. ASSUME NEW p \in Nat, NEW q \in Nat, Rests(mine2, p), Rests(m.levels, q)
        PROVE  better(Against(o), p, q)
    <3>1. CASE Rests(mine, p)  BY <1>7, <2>5, <3>1
    <3>2. CASE p = o.price
      <4>1. PICK k \in DOMAIN m.levels : m.levels[k].price = q  BY <2>5 DEF Rests
      <4>2. ~crosses(o, q)  BY <1>4, <2>1, <4>1
      <4>3. o.price \in Nat /\ o.type \in {"LIMIT_BUY", "LIMIT_SELL"}  BY <1>1, <2>1 DEF Limits
      <4>4. CASE o.type = "LIMIT_BUY"
        <5>1. Against(o) = "LIMIT_SELL" /\ "LIMIT_SELL" \notin Buys  BY <4>4 DEF Against, Buys
        <5> QED  BY <3>2, <4>2, <4>3, <4>4, <5>1 DEF crosses, better
      <4>5. CASE o.type = "LIMIT_SELL"
        <5>1. Against(o) = "LIMIT_BUY" /\ "LIMIT_BUY" \in Buys  BY <4>5 DEF Against, Buys
        <5> QED  BY <3>2, <4>2, <4>3, <4>5, <5>1 DEF crosses, better
      <4> QED  BY <4>3, <4>4, <4>5
    <3> QED  BY <2>3, <2>5, <3>1, <3>2
  <2>6. rests = TRUE  BY <1>10
  <2>7. (/\ Once(mine) /\ Once(other) /\ \A x : ~(Holds(mine, x) /\ Holds(other, x))
         /\ ~Holds(mine, o.id) /\ ~Holds(other, o.id))
        => /\ Once(mine2) /\ Once(m.levels) /\ \A x : ~(Holds(mine2, x) /\ Holds(m.levels, x))
           /\ \A x : Holds(mine2, x) \/ Holds(m.levels, x)
                     <=> \/ (Holds(mine, x) \/ Holds(other, x)) /\ x \notin m.gone
                         \/ rests /\ x = o.id
    <3> HIDE DEF rests
    <3> QED  BY <1>8, <2>3, <2>6
  <2> HIDE DEF rests
  <2> QED  BY <1>4, <2>3, <2>4, <2>5, <2>7 DEF m, mine2, rests
<1> QED  BY <1>9, <1>10

\* A submission keeps the book sound and the lookup right.
LEMMA SubmitResult ==
  ASSUME NEW b, GoodBook(b), NEW o, AnOrder(o)
  PROVE  /\ GoodBook(Submit(b, o).book)
         /\ Submit(b, o).book.orders \subseteq b.orders \cup {o.id}
         /\ KnownIds(b) /\ o.id \notin b.orders => KnownIds(Submit(b, o).book)
<1> DEFINE buys == o.type \in Buys
           other == IF buys THEN b.asks ELSE b.bids
           mine == IF buys THEN b.bids ELSE b.asks
           m == match(o, other)
           rests == o.type \in Limits /\ m.left > 0
           mine2 == IF rests THEN insert(mine, o, m.left) ELSE mine
           ids == (b.orders \ m.gone) \cup (IF rests THEN {o.id} ELSE {})
           nb == Submit(b, o).book
<1>1. nb = IF buys THEN [bids |-> mine2, asks |-> m.levels, orders |-> ids]
                   ELSE [bids |-> m.levels, asks |-> mine2, orders |-> ids]
  BY DEF Submit
<1>2. /\ mine \in Seq(Level) /\ other \in Seq(Level)
      /\ Ordered(SideOf(o), mine) /\ Ordered(Against(o), other)
      /\ \A p, q \in Nat : Rests(mine, p) /\ Rests(other, q) => better(Against(o), p, q)
  <2>1. CASE buys
    <3>1. SideOf(o) = "LIMIT_BUY" /\ Against(o) = "LIMIT_SELL" /\ "LIMIT_SELL" \notin Buys
      BY <2>1 DEF SideOf, Against, Buys
    <3> QED  BY <2>1, <3>1 DEF GoodBook, better
  <2>2. CASE ~buys
    <3>1. SideOf(o) = "LIMIT_SELL" /\ Against(o) = "LIMIT_BUY" /\ "LIMIT_BUY" \in Buys
      BY <2>2 DEF SideOf, Against, Buys
    <3> QED  BY <2>2, <3>1 DEF GoodBook, better
  <2> QED  BY <2>1, <2>2
<1> HIDE DEF other, mine
<1>3. /\ m.levels \in Seq(Level) /\ Ordered(Against(o), m.levels)
      /\ mine2 \in Seq(Level) /\ Ordered(SideOf(o), mine2)
      /\ \A p, q \in Nat : Rests(mine2, p) /\ Rests(m.levels, q) => better(Against(o), p, q)
      /\ (/\ Once(mine) /\ Once(other) /\ \A x : ~(Holds(mine, x) /\ Holds(other, x))
          /\ ~Holds(mine, o.id) /\ ~Holds(other, o.id))
         => /\ Once(mine2) /\ Once(m.levels) /\ \A x : ~(Holds(mine2, x) /\ Holds(m.levels, x))
            /\ \A x : Holds(mine2, x) \/ Holds(m.levels, x)
                      <=> \/ (Holds(mine, x) \/ Holds(other, x)) /\ x \notin m.gone
                          \/ rests /\ x = o.id
  BY <1>2, SidesResult
<1> HIDE DEF m, mine2, rests
<1>4. GoodBook(nb)
  <2>1. CASE buys
    <3>1. nb = [bids |-> mine2, asks |-> m.levels, orders |-> ids]  BY <1>1, <2>1
    <3>2. SideOf(o) = "LIMIT_BUY" /\ Against(o) = "LIMIT_SELL" /\ "LIMIT_SELL" \notin Buys
      BY <2>1 DEF SideOf, Against, Buys
    <3> HIDE DEF nb, ids
    <3>3. nb.bids = mine2 /\ nb.asks = m.levels /\ nb = [bids |-> nb.bids, asks |-> nb.asks, orders |-> nb.orders]
      BY <3>1
    <3> QED  BY <1>3, <3>2, <3>3 DEF GoodBook, better
  <2>2. CASE ~buys
    <3>1. nb = [bids |-> m.levels, asks |-> mine2, orders |-> ids]  BY <1>1, <2>2
    <3>2. SideOf(o) = "LIMIT_SELL" /\ Against(o) = "LIMIT_BUY" /\ "LIMIT_BUY" \in Buys
      BY <2>2 DEF SideOf, Against, Buys
    <3> HIDE DEF nb, ids
    <3>3. nb.bids = m.levels /\ nb.asks = mine2 /\ nb = [bids |-> nb.bids, asks |-> nb.asks, orders |-> nb.orders]
      BY <3>1
    <3> QED  BY <1>3, <3>2, <3>3 DEF GoodBook, better
  <2> QED  BY <2>1, <2>2
<1>5. nb.orders = ids  BY <1>1
<1>6. ids \subseteq b.orders \cup {o.id}  OBVIOUS
<1>7. ASSUME KnownIds(b), o.id \notin b.orders PROVE KnownIds(nb)
  <2>1. /\ Once(mine) /\ Once(other) /\ \A x : ~(Holds(mine, x) /\ Holds(other, x))
        /\ \A x : x \in b.orders <=> Holds(mine, x) \/ Holds(other, x)
    BY <1>7 DEF KnownIds, mine, other
  <2>2. \A x : x \in ids <=> (x \in b.orders /\ x \notin m.gone) \/ (rests /\ x = o.id)  OBVIOUS
  <2> HIDE DEF ids
  <2>3. /\ Once(mine2) /\ Once(m.levels) /\ \A x : ~(Holds(mine2, x) /\ Holds(m.levels, x))
        /\ \A x : x \in ids <=> Holds(mine2, x) \/ Holds(m.levels, x)
    BY <1>3, <1>7, <2>1, <2>2
  <2>4. CASE buys
    <3>1. nb.bids = mine2 /\ nb.asks = m.levels  BY <1>1, <2>4
    <3> HIDE DEF nb
    <3> QED  BY <1>5, <2>3, <3>1 DEF KnownIds
  <2>5. CASE ~buys
    <3>1. nb.bids = m.levels /\ nb.asks = mine2  BY <1>1, <2>5
    <3> HIDE DEF nb
    <3> QED  BY <1>5, <2>3, <3>1 DEF KnownIds
  <2> QED  BY <2>4, <2>5
<1> QED  BY <1>4, <1>5, <1>6, <1>7

\* So does a cancel.
LEMMA CancelResult ==
  ASSUME NEW b, GoodBook(b), NEW id
  PROVE  /\ GoodBook(Cancel(b, id).book)
         /\ Cancel(b, id).book.orders \subseteq b.orders
         /\ KnownIds(b) => KnownIds(Cancel(b, id).book)
<1>1. CASE id \notin b.orders
  <2>1. Cancel(b, id).book = b  BY <1>1 DEF Cancel
  <2> QED  BY <2>1
<1>2. CASE id \in b.orders
  <2> DEFINE nb == Cancel(b, id).book
             bids == without(b.bids, id)
             asks == without(b.asks, id)
             asks2 == IF bids = b.bids THEN asks ELSE b.asks
  <2>1. nb = [bids |-> bids, asks |-> asks2, orders |-> b.orders \ {id}]
    BY <1>2 DEF Cancel, cancelled
  <2>2. b.bids \in Seq(Level) /\ b.asks \in Seq(Level)  BY DEF GoodBook
  <2>3. /\ bids \in Seq(Level) /\ \A t : Ordered(t, b.bids) => Ordered(t, bids)
        /\ \A x : Holds(bids, x) => Holds(b.bids, x)
        /\ \A x : Holds(b.bids, x) /\ x # id => Holds(bids, x)
        /\ ~Holds(b.bids, id) => bids = b.bids
        /\ Holds(b.bids, id) => bids # b.bids
        /\ Once(b.bids) => Once(bids) /\ ~Holds(bids, id)
        /\ \A q : Rests(bids, q) => Rests(b.bids, q)
    BY <2>2, WithoutResult
  <2>4. /\ asks \in Seq(Level) /\ \A t : Ordered(t, b.asks) => Ordered(t, asks)
        /\ \A x : Holds(asks, x) => Holds(b.asks, x)
        /\ \A x : Holds(b.asks, x) /\ x # id => Holds(asks, x)
        /\ Once(b.asks) => Once(asks) /\ ~Holds(asks, id)
        /\ \A q : Rests(asks, q) => Rests(b.asks, q)
    BY <2>2, WithoutResult
  <2> HIDE DEF bids, asks, nb
  <2>5. /\ asks2 \in Seq(Level) /\ \A t : Ordered(t, b.asks) => Ordered(t, asks2)
        /\ \A x : Holds(asks2, x) => Holds(b.asks, x)
        /\ \A x : Holds(b.asks, x) /\ x # id => Holds(asks2, x)
        /\ Once(b.asks) => Once(asks2)
        /\ Once(b.asks) /\ ~Holds(b.bids, id) => ~Holds(asks2, id)
        /\ \A q : Rests(asks2, q) => Rests(b.asks, q)
    <3>1. CASE bids = b.bids
      <4>1. asks2 = asks  BY <3>1
      <4> HIDE DEF asks2
      <4> QED  BY <2>4, <4>1
    <3>2. CASE bids # b.bids
      <4>1. asks2 = b.asks  BY <3>2
      <4> HIDE DEF asks2
      <4> QED  BY <2>2, <2>3, <3>2, <4>1
    <3> QED  BY <3>1, <3>2
  <2> HIDE DEF asks2
  <2>6. /\ nb.bids = bids /\ nb.asks = asks2 /\ nb.orders = b.orders \ {id}
        /\ nb = [bids |-> nb.bids, asks |-> nb.asks, orders |-> nb.orders]
    BY <2>1
  <2>7. GoodBook(nb)  BY <2>3, <2>5, <2>6 DEF GoodBook
  <2>8. KnownIds(b) => KnownIds(nb)
    <3> SUFFICES ASSUME KnownIds(b) PROVE KnownIds(nb)  OBVIOUS
    <3>1. Once(bids) /\ Once(asks2) /\ \A x : ~(Holds(bids, x) /\ Holds(asks2, x))
      BY <2>3, <2>5 DEF KnownIds
    <3>2. ~Holds(bids, id)  BY <2>3 DEF KnownIds
    <3>3. ~Holds(asks2, id)
      <4>1. CASE Holds(b.bids, id)  BY <2>5, <4>1 DEF KnownIds
      <4>2. CASE ~Holds(b.bids, id)  BY <2>5, <4>2 DEF KnownIds
      <4> QED  BY <4>1, <4>2
    <3>4. \A x : x \in nb.orders <=> Holds(bids, x) \/ Holds(asks2, x)
      BY <2>3, <2>5, <2>6, <3>2, <3>3 DEF KnownIds
    <3> QED  BY <2>6, <3>1, <3>4 DEF KnownIds
  <2> QED  BY <2>6, <2>7, <2>8 DEF nb
<1> QED  BY <1>1, <1>2

\* What a caller can be told: the statuses of answers, and numbers.
Statuses == {"CANCELLED", "NOT_FOUND", "PENDING", "REJECTED", "PARTIAL", "FILLED"}
FillSet  == [status : Statuses, price : Nat, qty : Nat, left : Nat]

LEMMA FillResult ==
  ASSUME NEW b, GoodBook(b), NEW o, AnOrder(o)
  PROVE  Submit(b, o).fill \in FillSet
<1> DEFINE other == IF o.type \in Buys THEN b.asks ELSE b.bids
           m == match(o, other)
<1>1. other \in Seq(Level) /\ Ordered(Against(o), other)
  BY DEF GoodBook, Against
<1>2. o.qty \in Nat  BY BookAssumption DEF AnOrder
<1>3. MatchedTo(o, Against(o), other, Len(other), m)
  <2> HIDE DEF other
  <2> QED  BY <1>1, <1>2, OrdersStop, MatchingResult
<1>4. Submit(b, o).fill = fillOf(o, m.left, m.last)  BY DEF Submit
<1> HIDE DEF m
<1>5. m.left \in Nat /\ m.left <= o.qty /\ m.last \in Nat  BY <1>3 DEF MatchedTo
<1>6. fillOf(o, m.left, m.last) \in FillSet
  BY <1>2, <1>5 DEF fillOf, Fill, FillSet, Statuses
<1> QED  BY <1>4, <1>6

-----------------------------------------------------------------------------
(* The book under every sequence of calls. *)

\* While no id came again the lookup is right.
BookInv ==
  /\ GoodBook(book) /\ book.orders \subseteq submitted
  /\ reused \in BOOLEAN /\ (~reused => KnownIds(book))

\* An empty book is sound.
LEMMA BookInvAtInit == Init => BookInv
<1> SUFFICES ASSUME Init PROVE BookInv  OBVIOUS
<1>1. /\ book.bids = <<>> /\ book.asks = <<>> /\ book.orders = {}
      /\ book = [bids |-> book.bids, asks |-> book.asks, orders |-> book.orders]
  BY DEF Init, NewBook
<1>2. /\ <<>> \in Seq(Level) /\ \A t : Ordered(t, <<>>)
      /\ Once(<<>>) /\ \A x : ~Holds(<<>>, x) /\ ~Rests(<<>>, x)
  BY DEF Ordered, Once, Holds, Rests
<1>3. GoodBook(book)  BY <1>1, <1>2 DEF GoodBook
<1>4. KnownIds(book)  BY <1>1, <1>2 DEF KnownIds
<1>5. reused = FALSE  BY DEF Init
<1> QED  BY <1>1, <1>3, <1>4, <1>5 DEF BookInv

\* What is submitted is an order and no cancel.
LEMMA OrdersAreOrders ==
  ASSUME NEW o \in LimitOrder \cup MarketOrder
  PROVE  AnOrder(o) /\ o.type # "CANCEL"
<1>1. 1 .. MaxOrders \subseteq Nat  BY BookAssumption
<1>2. CASE o \in LimitOrder
  BY <1>1, <1>2 DEF LimitOrder, AnOrder, Limits, Buys, Sells
<1>3. CASE o \in MarketOrder
  BY <1>1, <1>3 DEF MarketOrder, AnOrder, Limits, Buys, Sells
<1> QED  BY <1>2, <1>3

\* One step each.
LEMMA SubmitOrderKeeps ==
  ASSUME BookInv, NEW o \in LimitOrder \cup MarketOrder, SubmitOrder(o)
  PROVE  BookInv'
<1>1. AnOrder(o) /\ o.type # "CANCEL"  BY OrdersAreOrders
<1>2. /\ book' = Submit(book, o).book /\ submitted' = submitted \cup {o.id}
      /\ reused' = (reused \/ o.id \in submitted)
  BY <1>1 DEF SubmitOrder, ProcessOrder
<1>3. /\ GoodBook(book') /\ book'.orders \subseteq book.orders \cup {o.id}
      /\ KnownIds(book) /\ o.id \notin book.orders => KnownIds(book')
  BY <1>1, <1>2, SubmitResult DEF BookInv
<1>4. reused' \in BOOLEAN /\ (~reused' => ~reused /\ o.id \notin submitted)
  BY <1>2, Zenon
<1>5. book'.orders \subseteq submitted'  BY <1>2, <1>3 DEF BookInv
<1>6. ~reused' => KnownIds(book')  BY <1>3, <1>4 DEF BookInv
<1>7. GoodBook(book)' /\ (KnownIds(book') => KnownIds(book)')
  BY <1>3 DEF GoodBook, KnownIds, Ordered, Once, Holds, Rests, HasId, Single
<1> QED  BY <1>4, <1>5, <1>6, <1>7 DEF BookInv

LEMMA CancelOrderKeeps ==
  ASSUME BookInv, NEW id, CancelOrder(id)
  PROVE  BookInv'
<1>2. book' = Cancel(book, id).book /\ submitted' = submitted /\ reused' = reused
  BY DEF CancelOrder, ProcessOrder
<1>3. /\ GoodBook(book') /\ book'.orders \subseteq book.orders
      /\ KnownIds(book) => KnownIds(book')
  BY <1>2, CancelResult DEF BookInv
<1>7. GoodBook(book)' /\ (KnownIds(book') => KnownIds(book)')
  BY <1>3 DEF GoodBook, KnownIds, Ordered, Once, Holds, Rests, HasId, Single
<1> QED  BY <1>2, <1>3, <1>7 DEF BookInv

LEMMA BookInvIsKept == BookInv /\ [Next]_vars => BookInv'
<1> SUFFICES ASSUME BookInv, [Next]_vars PROVE BookInv'  OBVIOUS
<1>1. ASSUME NEW o \in LimitOrder \cup MarketOrder, SubmitOrder(o) PROVE BookInv'
  BY <1>1, SubmitOrderKeeps
<1>2. ASSUME NEW id \in Ids, CancelOrder(id) PROVE BookInv'  BY <1>2, CancelOrderKeeps
<1>3. CASE UNCHANGED vars
  BY <1>3 DEF vars, BookInv, GoodBook, KnownIds, Ordered, Once, Holds, Rests, HasId, Single
<1> QED  BY <1>1, <1>2, <1>3 DEF Next

\* What the levels hold, as the resting orders.
LEMMA RestingOf ==
  ASSUME NEW levels \in Seq(Level), NEW side
  PROVE  /\ \A r \in OrdersOf(levels, side) :
              /\ r.side = side /\ r.id \in Ids /\ r.price \in Prices /\ r.left > 0
              /\ \E q \in Quantities : r.left <= q
              /\ Rests(levels, r.price) /\ Holds(levels, r.id)
         /\ \A x : Holds(levels, x) => \E r \in OrdersOf(levels, side) : r.id = x
<1> DEFINE rec(i, n) == [id |-> levels[i].orders[n].id, side |-> side, price |-> levels[i].price,
                         left |-> levels[i].orders[n].left, seq |-> levels[i].orders[n].seq]
<1>1. \A r : r \in OrdersOf(levels, side) <=>
               \E i \in DOMAIN levels : \E n \in DOMAIN levels[i].orders : r = rec(i, n)
  BY DEF OrdersOf
<1>2. \A i \in DOMAIN levels : levels[i].price \in Prices /\ levels[i].orders \in Seq(Rest)
  <2>1. \A i \in DOMAIN levels : levels[i] \in Level  OBVIOUS
  <2> QED  BY <2>1 DEF Level
<1>3. ASSUME NEW r \in OrdersOf(levels, side)
      PROVE  /\ r.side = side /\ r.id \in Ids /\ r.price \in Prices /\ r.left > 0
             /\ \E q \in Quantities : r.left <= q
             /\ Rests(levels, r.price) /\ Holds(levels, r.id)
  <2>0. PICK i \in DOMAIN levels : \E n \in DOMAIN levels[i].orders : r = rec(i, n)  BY <1>1
  <2>1. PICK n \in DOMAIN levels[i].orders : r = rec(i, n)  BY <2>0
  <2>2. levels[i].orders[n] \in Rest  BY <1>2
  <2>3. /\ r.side = side /\ r.id = levels[i].orders[n].id /\ r.price = levels[i].price
        /\ r.left = levels[i].orders[n].left
    BY <2>1
  <2>4. levels[i].orders # <<>>  OBVIOUS
  <2>5. Rests(levels, r.price) /\ Holds(levels, r.id)  BY <2>3, <2>4 DEF Rests, Holds, HasId
  <2>6. r.id \in Ids /\ r.left > 0 /\ \E q \in Quantities : r.left <= q  BY <2>2, <2>3 DEF Rest
  <2> QED  BY <1>2, <2>3, <2>5, <2>6
<1>4. ASSUME NEW x, NEW i \in DOMAIN levels, NEW n \in DOMAIN levels[i].orders,
             levels[i].orders[n].id = x
      PROVE  \E r \in OrdersOf(levels, side) : r.id = x
  <2>1. rec(i, n) \in OrdersOf(levels, side) /\ rec(i, n).id = x  BY <1>1, <1>4
  <2> QED  BY <2>1
<1> QED  BY <1>3, <1>4 DEF Holds, HasId

\* The invariant has the property.
LEMMA BookInvIsSound == BookInv => BookIsSound
<1> SUFFICES ASSUME BookInv PROVE BookIsSound  OBVIOUS
<1> DEFINE B == OrdersOf(book.bids, "buy")
           S == OrdersOf(book.asks, "sell")
<1>1. GoodBook(book) /\ book.bids \in Seq(Level) /\ book.asks \in Seq(Level)  BY DEF BookInv, GoodBook
<1>2. /\ \A r \in B : /\ r.side = "buy" /\ r.id \in Ids /\ r.price \in Prices /\ r.left > 0
                      /\ \E q \in Quantities : r.left <= q
                      /\ Rests(book.bids, r.price) /\ Holds(book.bids, r.id)
      /\ \A x : Holds(book.bids, x) => \E r \in B : r.id = x
  BY <1>1, RestingOf
<1>3. /\ \A r \in S : /\ r.side = "sell" /\ r.id \in Ids /\ r.price \in Prices /\ r.left > 0
                      /\ \E q \in Quantities : r.left <= q
                      /\ Rests(book.asks, r.price) /\ Holds(book.asks, r.id)
      /\ \A x : Holds(book.asks, x) => \E r \in S : r.id = x
  BY <1>1, RestingOf
<1>4. Resting = B \cup S  BY DEF Resting
<1> HIDE DEF B, S
<1>5. \A r \in Resting : r.id \in Ids /\ r.price \in Prices /\ r.left > 0 /\ \E q \in Quantities : r.left <= q
  BY <1>2, <1>3, <1>4
<1>6. /\ \A i, k \in DOMAIN book.bids : i < k => book.bids[i].price > book.bids[k].price
      /\ \A i, k \in DOMAIN book.asks : i < k => book.asks[i].price < book.asks[k].price
  BY <1>1 DEF GoodBook, Ordered, better, Buys
<1>7. \A r, s \in Resting : r.side = "buy" /\ s.side = "sell" => r.price < s.price
  <2> SUFFICES ASSUME NEW r \in Resting, NEW s \in Resting, r.side = "buy", s.side = "sell"
               PROVE  r.price < s.price
    OBVIOUS
  <2>1. r \in B /\ s \in S  BY <1>2, <1>3, <1>4
  <2>2. r.price \in Nat /\ s.price \in Nat  BY <1>5, BookAssumption
  <2> QED  BY <1>1, <1>2, <1>3, <2>1, <2>2 DEF GoodBook
<1>8. ~reused => book.orders = {r.id : r \in Resting}
  <2> SUFFICES ASSUME KnownIds(book) PROVE book.orders = {r.id : r \in Resting}  BY DEF BookInv
  <2>1. \A x : x \in book.orders <=> \E r \in Resting : r.id = x
    BY <1>2, <1>3, <1>4 DEF KnownIds
  <2> QED  BY <2>1
<1> QED  BY <1>5, <1>6, <1>7, <1>8 DEF BookIsSound, BookInv

\* The book is sound, whatever is submitted and cancelled in whatever order
\* (order_book.go:106-186).
THEOREM BookAlwaysSound == Spec => []BookIsSound
BY BookInvAtInit, BookInvIsKept, BookInvIsSound, PTL DEF Spec

-----------------------------------------------------------------------------
(* The bot's book beside it. *)

Agrees == accepted = TRUE /\ own = [bids |-> book.bids, asks |-> book.asks]

BotInv == BookInv /\ (alone /\ ~reused => Agrees)

\* Both books are empty.
LEMMA BotInvAtInit == BotInit => BotInv
<1> SUFFICES ASSUME BotInit PROVE BotInv  OBVIOUS
<1>1. BookInv  BY BookInvAtInit DEF BotInit
<1>2. own = [bids |-> book.bids, asks |-> book.asks] /\ accepted = TRUE
  BY DEF BotInit, Init, NewBook
<1> QED  BY <1>1, <1>2 DEF BotInv, Agrees

\* Bot and engine match the order on the same levels.
LEMMA BotSubmitKeeps ==
  ASSUME BotInv, NEW o \in LimitOrder, BotSubmit(o)
  PROVE  BotInv'
<1>0. /\ SubmitOrder(o) /\ own' = AddOrder(o).own /\ accepted' = ValidateFill(AddOrder(o).fill, fill')
      /\ alone' = alone
  BY DEF BotSubmit
<1>1. AnOrder(o) /\ o.type # "CANCEL"  BY OrdersAreOrders
<1>2. /\ book' = Submit(book, o).book /\ fill' = Submit(book, o).fill
      /\ reused' = (reused \/ o.id \in submitted)
  BY <1>0, <1>1 DEF SubmitOrder, ProcessOrder
<1>3. BookInv'  BY <1>0, SubmitOrderKeeps DEF BotInv
<1>4. ASSUME Agrees PROVE AddOrder(o).fill = Submit(book, o).fill
                          /\ AddOrder(o).own = [bids |-> Submit(book, o).book.bids, asks |-> Submit(book, o).book.asks]
  <2>1. own.bids = book.bids /\ own.asks = book.asks  BY <1>4 DEF Agrees
  <2> DEFINE m == match(o, IF o.type \in Buys THEN book.asks ELSE book.bids)
             mine == IF o.type \in Buys THEN book.bids ELSE book.asks
             rests == o.type \in Limits /\ m.left > 0
             mine2 == IF rests THEN insert(mine, o, m.left) ELSE mine
  <2>2. /\ AddOrder(o).fill = fillOf(o, m.left, m.last)
        /\ AddOrder(o).own = IF o.type \in Buys THEN [bids |-> mine2, asks |-> m.levels]
                                                 ELSE [bids |-> m.levels, asks |-> mine2]
    BY <2>1 DEF AddOrder, toRest
  <2>3. /\ Submit(book, o).fill = fillOf(o, m.left, m.last)
        /\ Submit(book, o).book.bids = IF o.type \in Buys THEN mine2 ELSE m.levels
        /\ Submit(book, o).book.asks = IF o.type \in Buys THEN m.levels ELSE mine2
    BY DEF Submit
  <2> HIDE DEF m, mine, rests, mine2
  <2> QED  BY <2>2, <2>3
<1>5. Submit(book, o).fill.qty \in Int
  <2> DEFINE other == IF o.type \in Buys THEN book.asks ELSE book.bids
             m == match(o, other)
  <2>1. o.qty \in Nat  BY <1>1, BookAssumption DEF AnOrder
  <2>2. m.left \in Nat
    <3>1. GoodBook(book)  BY DEF BotInv, BookInv
    <3>2. other \in Seq(Level) /\ Ordered(Against(o), other)
      <4>1. CASE o.type \in Buys  BY <3>1, <4>1 DEF GoodBook, Against
      <4>2. CASE o.type \notin Buys  BY <3>1, <4>2 DEF GoodBook, Against
      <4> QED  BY <4>1, <4>2
    <3> HIDE DEF other
    <3>3. Stops(o, Against(o))  BY <1>1, OrdersStop
    <3> QED  BY <2>1, <3>2, <3>3, MatchingResult DEF MatchedTo
  <2>3. Submit(book, o).fill = fillOf(o, m.left, m.last)  BY DEF Submit
  <2> HIDE DEF m, other
  <2>4. fillOf(o, m.left, m.last).qty \in Int  BY <2>1, <2>2 DEF fillOf, Fill
  <2> QED  BY <2>3, <2>4
<1>6. ASSUME alone', ~reused' PROVE Agrees'
  <2>1. Agrees  BY <1>0, <1>2, <1>6 DEF BotInv
  <2>2. AddOrder(o).fill = fill' /\ own' = [bids |-> book'.bids, asks |-> book'.asks]
    BY <1>0, <1>2, <1>4, <2>1
  <2>3. ValidateFill(fill', fill')  BY <1>2, <1>5 DEF ValidateFill
  <2>4. accepted' = TRUE  BY <1>0, <2>2, <2>3
  <2> QED  BY <2>2, <2>4 DEF Agrees
<1> QED  BY <1>3, <1>6 DEF BotInv

\* What the lookup does not know is in no level.
LEMMA BotCancelKeeps ==
  ASSUME BotInv, NEW side \in Limits, BotCancel(side)
  PROVE  BotInv'
<1> DEFINE id == quoted[side]
<1>0. /\ CancelOrder(id) /\ own' = removed(id)
      /\ accepted' = (fill'.status \in {"CANCELLED", "NOT_FOUND", "ALREADY_FILLED"})
      /\ alone' = alone
  BY DEF BotCancel
<1> HIDE DEF id
<1>1. BookInv'  BY <1>0, CancelOrderKeeps DEF BotInv
<1>2. book' = Cancel(book, id).book /\ fill' = Cancel(book, id).fill /\ reused' = reused
  BY <1>0 DEF CancelOrder, ProcessOrder
<1>3. fill'.status \in {"CANCELLED", "NOT_FOUND"}  BY <1>2 DEF Cancel, Fill
<1>4. accepted' = TRUE  BY <1>0, <1>3
<1>5. ASSUME alone, ~reused PROVE own' = [bids |-> book'.bids, asks |-> book'.asks]
  <2>1. own.bids = book.bids /\ own.asks = book.asks /\ KnownIds(book)  BY <1>5 DEF BotInv, BookInv, Agrees
  <2> DEFINE bids == without(book.bids, id)
             asks == without(book.asks, id)
  <2>2. own' = [bids |-> bids, asks |-> IF bids = book.bids THEN asks ELSE book.asks]
    BY <1>0, <2>1 DEF removed
  <2>3. CASE id \in book.orders
    <3>1. book' = [bids |-> bids, asks |-> IF bids = book.bids THEN asks ELSE book.asks,
                   orders |-> book.orders \ {id}]
      BY <1>2, <2>3 DEF Cancel, cancelled
    <3> HIDE DEF bids, asks
    <3> QED  BY <2>2, <3>1
  <2>4. CASE id \notin book.orders
    <3>1. book' = book  BY <1>2, <2>4 DEF Cancel
    <3>2. ~Holds(book.bids, id) /\ ~Holds(book.asks, id)  BY <2>1, <2>4 DEF KnownIds
    <3>3. book.bids \in Seq(Level) /\ book.asks \in Seq(Level)  BY DEF BotInv, BookInv, GoodBook
    <3>4. bids = book.bids /\ asks = book.asks  BY <3>2, <3>3, WithoutResult
    <3> QED  BY <2>2, <3>1, <3>4
  <2> QED  BY <2>3, <2>4
<1> QED  BY <1>0, <1>1, <1>2, <1>4, <1>5 DEF BotInv, Agrees

\* What others send goes past the bot.
LEMMA OthersOrderKeeps == BotInv /\ OthersOrder => BotInv'
<1> SUFFICES ASSUME BotInv, OthersOrder PROVE BotInv'  OBVIOUS
<1>1. BookInv'  BY BookInvIsKept DEF BotInv, OthersOrder
<1>2. alone' = FALSE  BY DEF OthersOrder
<1> QED  BY <1>1, <1>2 DEF BotInv

LEMMA BotInvIsKept == BotInv /\ [BotNext]_botVars => BotInv'
<1> SUFFICES ASSUME BotInv, [BotNext]_botVars PROVE BotInv'  OBVIOUS
<1>1. ASSUME NEW o \in LimitOrder, BotSubmit(o) PROVE BotInv'  BY <1>1, BotSubmitKeeps
<1>2. ASSUME NEW side \in Limits, BotCancel(side) PROVE BotInv'  BY <1>2, BotCancelKeeps
<1>3. CASE UNCHANGED botVars
  <2>1. BookInv'
    <3>1. UNCHANGED vars  BY <1>3 DEF botVars
    <3> QED  BY <3>1, BookInvIsKept DEF BotInv
  <2>2. UNCHANGED <<book, reused, own, accepted, alone>>  BY <1>3 DEF botVars, vars
  <2> QED  BY <2>1, <2>2 DEF BotInv, Agrees
<1> QED  BY <1>1, <1>2, <1>3, OthersOrderKeeps DEF BotNext, BotsOrder

\* A market maker alone with a right engine never faults it, and its book
\* stays the engine's (shadow_book.go:43-183, market_maker.go:32-76).
THEOREM AloneTheBotIsAlwaysRight == BotSpec => []AloneTheBotIsRight
<1>1. BotInv => AloneTheBotIsRight  BY DEF BotInv, Agrees, AloneTheBotIsRight
<1> QED  BY <1>1, BotInvAtInit, BotInvIsKept, PTL DEF BotSpec

-----------------------------------------------------------------------------
(* Price and time.  The abstract book says of each resting order an        *)
(* incoming one crosses what it gives, from the sum of those before it;    *)
(* the loops come to the same, order by order in their places.             *)

\* An order that rests on a side at a price, as the abstract book sees it,
\* and those of a level's first n orders, of the first n levels.
rec(side, p, r) == [id |-> r.id, side |-> side, price |-> p, left |-> r.left, seq |-> r.seq]
Recs(side, p, orders, n) == {rec(side, p, orders[k]) : k \in 1 .. n}
LevelRecs(levels, side, i) == Recs(side, levels[i].price, levels[i].orders, Len(levels[i].orders))
RecsUpto(levels, side, n)  == UNION {LevelRecs(levels, side, i) : i \in 1 .. n}

\* Of the orders C that one of quantity qty crosses: those before r, what is
\* in the first ones, and what each gives.
Ahead(C, r) == {s \in C : Reference!Before(s, r)}
lefts(C)    == [r \in C |-> r.left]
given(C, q) == [r \in C |-> Reference!Taken(r, C, q)]

\* Sums over them: `in` what is there and `out` what is given.
Ledger(l) ==
  /\ l.in[{}] = 0 /\ l.out[{}] = 0 /\ l.qty \in Nat
  /\ \A A \in SUBSET l.all : l.in[A] \in Nat
  /\ \A A \in SUBSET l.all : \A x \in l.all \ A :
       l.in[A \cup {x}] = x.left + l.in[A] /\ l.out[A \cup {x}] = l.gives[x] + l.out[A]
  /\ \A A, B \in SUBSET l.all : A \subseteq B => l.in[A] <= l.in[B]
  /\ \A A, B \in SUBSET l.all :
       A \cap B = {} /\ (\A x \in B : l.gives[x] = 0) => l.out[A \cup B] = l.out[A]
  /\ \A r \in l.all :
       /\ r.left \in Nat \ {0}
       /\ l.gives[r] = IF l.in[Ahead(l.all, r)] >= l.qty THEN 0
                       ELSE IF r.left <= l.qty - l.in[Ahead(l.all, r)] THEN r.left
                       ELSE l.qty - l.in[Ahead(l.all, r)]

LEMMA SameSum == ASSUME NEW f, NEW S PROVE Reference!SumFunctionOnSet(f, S) = SumFunctionOnSet(f, S)
BY DEF Reference!SumFunctionOnSet, SumFunctionOnSet, Reference!FoldFunctionOnSet, FoldFunctionOnSet,
  Reference!MapThenFoldSet, MapThenFoldSet

\* The least and the greatest of two are those of the library here as well.
LEMMA SameMinMax ==
  ASSUME NEW a \in Int, NEW b \in Int
  PROVE  /\ Reference!Max({a, b}) = IF a >= b THEN a ELSE b
         /\ Reference!Min({a, b}) = IF a <= b THEN a ELSE b
<1>1. Reference!Max({a, b}) = Max({a, b}) /\ Reference!Min({a, b}) = Min({a, b})
  BY DEF Reference!Max, Max, Reference!Min, Min
<1> QED  BY <1>1, MaxMinOfTwo

LedgerOf(l, C, q) ==
  /\ Ledger(l) /\ l.all = C /\ l.qty = q /\ l.gives = given(C, q)
  /\ l.out[C] = Reference!SumFunctionOnSet(given(C, q), C)

LEMMA LedgerExists ==
  ASSUME NEW C, IsFiniteSet(C), \A r \in C : r.left \in Nat \ {0}, NEW q \in Nat
  PROVE  \E l : LedgerOf(l, C, q)
<1> DEFINE f == lefts(C)
           t == given(C, q)
           in == [A \in SUBSET C |-> SumFunctionOnSet(f, A)]
           out == [A \in SUBSET C |-> SumFunctionOnSet(t, A)]
           l == [all |-> C, qty |-> q, gives |-> t, in |-> in, out |-> out]
<1>1. \A r \in C : f[r] = r.left /\ f[r] \in Nat  BY DEF lefts
<1> HIDE DEF f
<1>2. \A A \in SUBSET C : IsFiniteSet(A)  BY FS_Subset
<1>3. ASSUME NEW A \in SUBSET C PROVE SumFunctionOnSet(f, A) \in Nat
  BY <1>1, <1>2, SumIsNat
<1>4. ASSUME NEW r \in C
      PROVE  t[r] = IF SumFunctionOnSet(f, Ahead(C, r)) >= q THEN 0
                    ELSE IF r.left <= q - SumFunctionOnSet(f, Ahead(C, r)) THEN r.left
                    ELSE q - SumFunctionOnSet(f, Ahead(C, r))
  <2> DEFINE a == SumFunctionOnSet(f, Ahead(C, r))
             b == Reference!Max({0, q - a})
  <2>1. a \in Nat  BY <1>3 DEF Ahead
  <2>2. Reference!Taken(r, C, q) = Reference!Min({r.left, b})
    BY SameSum DEF Reference!Taken, Ahead, f, lefts
  <2>3. t[r] = Reference!Taken(r, C, q)  BY DEF given
  <2> HIDE DEF a, t
  <2>4. b = IF 0 >= q - a THEN 0 ELSE q - a
    <3>1. q - a \in Int /\ 0 \in Int  BY <2>1
    <3> QED  BY <3>1, SameMinMax
  <2>5. b \in Int /\ r.left \in Int  BY <2>1, <2>4
  <2> HIDE DEF b
  <2>6. Reference!Min({r.left, b}) = IF r.left <= b THEN r.left ELSE b  BY <2>5, SameMinMax
  <2>7. t[r] = IF a >= q THEN 0 ELSE IF r.left <= q - a THEN r.left ELSE q - a
    BY <2>1, <2>2, <2>3, <2>4, <2>6
  <2> QED  BY <2>7 DEF a
<1>5. ASSUME NEW r \in C PROVE t[r] \in Nat
  <2>1. SumFunctionOnSet(f, Ahead(C, r)) \in Nat  BY <1>3 DEF Ahead
  <2> HIDE DEF t
  <2> QED  BY <1>4, <2>1
<1> HIDE DEF t
<1>6. SumFunctionOnSet(f, {}) = 0 /\ SumFunctionOnSet(t, {}) = 0
  BY SumOfZeros, FS_EmptySet
<1>7. ASSUME NEW A \in SUBSET C, NEW x \in C \ A
      PROVE  /\ SumFunctionOnSet(f, A \cup {x}) = x.left + SumFunctionOnSet(f, A)
             /\ SumFunctionOnSet(t, A \cup {x}) = t[x] + SumFunctionOnSet(t, A)
  <2>1. \A y \in A \cup {x} : f[y] \in Int /\ t[y] \in Int  BY <1>1, <1>5
  <2>2. IsFiniteSet(A) /\ x \notin A  BY <1>2
  <2>3. SumFunctionOnSet(f, A \cup {x}) = f[x] + SumFunctionOnSet(f, A)  BY <2>1, <2>2, SumAdds
  <2>4. SumFunctionOnSet(t, A \cup {x}) = t[x] + SumFunctionOnSet(t, A)  BY <2>1, <2>2, SumAdds
  <2> QED  BY <1>1, <2>3, <2>4
<1>8. ASSUME NEW A \in SUBSET C, NEW B \in SUBSET C, A \subseteq B
      PROVE  SumFunctionOnSet(f, A) <= SumFunctionOnSet(f, B)
  <2>1. A \cup (B \ A) = B /\ A \cap (B \ A) = {} /\ B \ A \in SUBSET C  BY <1>8
  <2>2. \A y \in A \cup (B \ A) : f[y] \in Int  BY <1>1
  <2>3. SumFunctionOnSet(f, A \cup (B \ A)) = SumFunctionOnSet(f, A) + SumFunctionOnSet(f, B \ A)
    BY <1>2, <2>1, <2>2, SumOfParts
  <2> DEFINE fA == SumFunctionOnSet(f, A)
             fR == SumFunctionOnSet(f, B \ A)
             fB == SumFunctionOnSet(f, B)
  <2>4. fA \in Nat /\ fR \in Nat  BY <1>3, <2>1
  <2>5. fB = fA + fR  BY <2>1, <2>3
  <2> HIDE DEF fA, fR, fB
  <2>6. fA <= fB  BY <2>4, <2>5
  <2> QED  BY <2>6 DEF fA, fB
<1>9. ASSUME NEW A \in SUBSET C, NEW B \in SUBSET C, A \cap B = {}, \A x \in B : t[x] = 0
      PROVE  SumFunctionOnSet(t, A \cup B) = SumFunctionOnSet(t, A)
  <2>1. \A y \in A \cup B : t[y] \in Int  BY <1>5
  <2>2. SumFunctionOnSet(t, A \cup B) = SumFunctionOnSet(t, A) + SumFunctionOnSet(t, B)
    BY <1>2, <1>9, <2>1, SumOfParts
  <2>3. SumFunctionOnSet(t, B) = 0  BY <1>2, <1>9, SumOfZeros
  <2>4. SumFunctionOnSet(t, A) \in Nat  BY <1>2, <1>5, SumIsNat
  <2> QED  BY <2>2, <2>3, <2>4
<1>10. /\ l.all = C /\ l.qty = q /\ l.gives = t /\ l.in = in /\ l.out = out
  OBVIOUS
<1> HIDE DEF l
<1>11. /\ \A A \in SUBSET C : in[A] = SumFunctionOnSet(f, A) /\ out[A] = SumFunctionOnSet(t, A)
       /\ {} \in SUBSET C /\ C \in SUBSET C
  OBVIOUS
<1> HIDE DEF in, out
<1>12. in[{}] = 0 /\ out[{}] = 0  BY <1>6, <1>11
<1>13. \A A \in SUBSET C : in[A] \in Nat  BY <1>3, <1>11
<1>14. \A A \in SUBSET C : \A x \in C \ A :
          in[A \cup {x}] = x.left + in[A] /\ out[A \cup {x}] = t[x] + out[A]
  <2> TAKE A \in SUBSET C
  <2> TAKE x \in C \ A
  <2>1. A \cup {x} \in SUBSET C  OBVIOUS
  <2> QED  BY <1>7, <1>11, <2>1
<1>15. \A A, B \in SUBSET C : A \subseteq B => in[A] <= in[B]  BY <1>8, <1>11
<1>16. \A A, B \in SUBSET C : A \cap B = {} /\ (\A x \in B : t[x] = 0) => out[A \cup B] = out[A]
  <2> TAKE A, B \in SUBSET C
  <2> HAVE A \cap B = {} /\ (\A x \in B : t[x] = 0)
  <2>1. A \cup B \in SUBSET C  OBVIOUS
  <2> QED  BY <1>9, <1>11, <2>1
<1>17. \A r \in C : t[r] = IF in[Ahead(C, r)] >= q THEN 0
                           ELSE IF r.left <= q - in[Ahead(C, r)] THEN r.left
                           ELSE q - in[Ahead(C, r)]
  <2> TAKE r \in C
  <2>1. Ahead(C, r) \in SUBSET C  BY DEF Ahead
  <2> QED  BY <1>4, <1>11, <2>1
<1>18. Ledger(l)
  <2>1. l.in[{}] = 0 /\ l.out[{}] = 0 /\ l.qty \in Nat  BY <1>10, <1>12
  <2>2. \A A \in SUBSET l.all : l.in[A] \in Nat  BY <1>10, <1>13
  <2>3. \A A \in SUBSET l.all : \A x \in l.all \ A :
          l.in[A \cup {x}] = x.left + l.in[A] /\ l.out[A \cup {x}] = l.gives[x] + l.out[A]
    BY <1>10, <1>14
  <2>4. \A A, B \in SUBSET l.all : A \subseteq B => l.in[A] <= l.in[B]  BY <1>10, <1>15
  <2>5. \A A, B \in SUBSET l.all :
          A \cap B = {} /\ (\A x \in B : l.gives[x] = 0) => l.out[A \cup B] = l.out[A]
    BY <1>10, <1>16
  <2>6. \A r \in l.all : r.left \in Nat \ {0}  BY <1>10
  <2>7. \A r \in l.all :
          l.gives[r] = IF l.in[Ahead(l.all, r)] >= l.qty THEN 0
                       ELSE IF r.left <= l.qty - l.in[Ahead(l.all, r)] THEN r.left
                       ELSE l.qty - l.in[Ahead(l.all, r)]
    BY <1>10, <1>17
  <2> QED  BY <2>1, <2>2, <2>3, <2>4, <2>5, <2>6, <2>7 DEF Ledger
<1>19. l.out[C] = Reference!SumFunctionOnSet(t, C)  BY <1>10, <1>11, SameSum
<1> QED  BY <1>10, <1>18, <1>19 DEF LedgerOf, t

\* Who gave last of A, what A keeps, and A having been fed what it can take
\* of the order with `left` left over.
Latest(l, A, w) == w \in A /\ l.gives[w] > 0 /\ \A s \in A : l.gives[s] > 0 => ~Reference!Before(w, s)
Kept(l, A) == {[r EXCEPT !.left = @ - l.gives[r]] : r \in {s \in A : l.gives[s] < s.left}}
Fed(l, A, left) ==
  /\ A \in SUBSET l.all
  /\ left = IF l.in[A] >= l.qty THEN 0 ELSE l.qty - l.in[A]
  /\ l.out[A] = l.qty - left
  /\ left < l.qty => \E w \in A : Latest(l, A, w)

LEMMA FedNothing == ASSUME NEW l, Ledger(l) PROVE Fed(l, {}, l.qty)
BY DEF Fed, Ledger

\* One more, the next by price and time.
NextTo(l, A, left, x, m) ==
  /\ Fed(l, A, left) /\ x \in l.all \ A
  /\ Ahead(l.all, x) = A /\ \A s \in A \cup {x} : ~Reference!Before(x, s)
  /\ m = IF left <= x.left THEN left ELSE x.left

LEMMA FedOneMore ==
  ASSUME NEW l, Ledger(l), NEW A, NEW left, NEW x, NEW m, NextTo(l, A, left, x, m)
  PROVE  /\ Fed(l, A \cup {x}, left - m) /\ l.gives[x] = m
         /\ Kept(l, {x}) = IF m = x.left THEN {} ELSE {[x EXCEPT !.left = x.left - m]}
<1>0. /\ Fed(l, A, left) /\ x \in l.all \ A
      /\ Ahead(l.all, x) = A /\ \A s \in A : ~Reference!Before(x, s)
      /\ ~Reference!Before(x, x)
      /\ m = IF left <= x.left THEN left ELSE x.left
  BY DEF NextTo
<1>1. /\ l.qty \in Nat /\ l.in[A] \in Nat /\ x.left \in Nat /\ x.left > 0
      /\ l.in[A \cup {x}] = x.left + l.in[A] /\ l.out[A \cup {x}] = l.gives[x] + l.out[A]
      /\ l.gives[x] = IF l.in[A] >= l.qty THEN 0
                      ELSE IF x.left <= l.qty - l.in[A] THEN x.left
                      ELSE l.qty - l.in[A]
  <2>1. A \in SUBSET l.all /\ x \in l.all \ A  BY <1>0 DEF Fed
  <2>2. l.qty \in Nat /\ l.in[A] \in Nat /\ x.left \in Nat \ {0}  BY <1>0, <2>1 DEF Ledger
  <2>3. l.in[A \cup {x}] = x.left + l.in[A] /\ l.out[A \cup {x}] = l.gives[x] + l.out[A]
    BY <1>0, <2>1 DEF Ledger
  <2>4. l.gives[x] = IF l.in[A] >= l.qty THEN 0
                     ELSE IF x.left <= l.qty - l.in[A] THEN x.left
                     ELSE l.qty - l.in[A]
    BY <1>0, <2>1 DEF Ledger
  <2> QED  BY <2>2, <2>3, <2>4
<1>2. /\ left = IF l.in[A] >= l.qty THEN 0 ELSE l.qty - l.in[A]
      /\ l.out[A] = l.qty - left /\ A \cup {x} \in SUBSET l.all
  BY <1>0 DEF Fed
<1>3. l.gives[x] = m /\ m \in Nat /\ left \in Nat /\ m <= left /\ m <= x.left  BY <1>0, <1>1, <1>2
<1>4. left - m = IF l.in[A \cup {x}] >= l.qty THEN 0 ELSE l.qty - l.in[A \cup {x}]
  BY <1>0, <1>1, <1>2
<1>5. l.out[A \cup {x}] = l.qty - (left - m)  BY <1>1, <1>2, <1>3
<1>6. left - m < l.qty => \E w \in A \cup {x} : Latest(l, A \cup {x}, w)
  <2>1. CASE m > 0
    <3>1. Latest(l, A \cup {x}, x)  BY <1>0, <1>3, <2>1 DEF Latest
    <3> QED  BY <3>1
  <2>2. CASE m = 0
    <3>0. left - m = left  BY <1>3, <2>2
    <3>1. ASSUME left < l.qty PROVE \E w \in A \cup {x} : Latest(l, A \cup {x}, w)
      <4>1. PICK w \in A : Latest(l, A, w)  BY <1>0, <3>1 DEF Fed
      <4>2. l.gives[x] = 0  BY <1>3, <2>2
      <4>3. Latest(l, A \cup {x}, w)  BY <4>1, <4>2 DEF Latest
      <4> QED  BY <4>3
    <3> QED  BY <3>0, <3>1
  <2>3. m > 0 \/ m = 0
    <3>1. m \in Nat  BY <1>3
    <3> QED  BY <3>1
  <2> QED  BY <2>1, <2>2, <2>3, Zenon
<1>7. Kept(l, {x}) = IF m = x.left THEN {} ELSE {[x EXCEPT !.left = x.left - m]}
  <2>1. CASE m = x.left
    <3>1. {s \in {x} : l.gives[s] < s.left} = {}  BY <1>1, <1>3, <2>1
    <3> QED  BY <2>1, <3>1 DEF Kept
  <2>2. CASE m # x.left
    <3>1. {s \in {x} : l.gives[s] < s.left} = {x}  BY <1>1, <1>3, <2>2
    <3> QED  BY <1>3, <2>2, <3>1 DEF Kept
  <2> QED  BY <2>1, <2>2
<1> QED  BY <1>2, <1>3, <1>4, <1>5, <1>6, <1>7 DEF Fed

\* Many more, when nothing is left for them.
LEMMA FedNoMore ==
  ASSUME NEW l, Ledger(l), NEW A, Fed(l, A, 0), NEW X \in SUBSET l.all, A \cap X = {},
         \A x \in X : A \subseteq Ahead(l.all, x),
         \A x \in X : x = [x EXCEPT !.left = x.left]
  PROVE  /\ Fed(l, A \cup X, 0) /\ Kept(l, X) = X
         /\ \A w : Latest(l, A \cup X, w) <=> Latest(l, A, w)
<1>1. A \in SUBSET l.all /\ A \cup X \in SUBSET l.all /\ l.qty \in Nat  BY DEF Fed, Ledger
<1>2. l.in[A] \in Nat /\ l.in[A] >= l.qty /\ l.out[A] = l.qty - 0
  <2>1. l.in[A] \in Nat  BY <1>1 DEF Ledger
  <2> QED  BY <1>1, <2>1 DEF Fed
<1>3. ASSUME NEW x \in X PROVE l.gives[x] = 0 /\ x.left \in Nat /\ x.left > 0
  <2>1. Ahead(l.all, x) \in SUBSET l.all /\ x \in l.all  BY DEF Ahead
  <2>2. l.in[A] <= l.in[Ahead(l.all, x)] /\ l.in[Ahead(l.all, x)] \in Nat  BY <1>1, <2>1 DEF Ledger
  <2>3. l.in[Ahead(l.all, x)] >= l.qty  BY <1>1, <1>2, <2>2
  <2> QED  BY <2>1, <2>3 DEF Ledger
<1>4. l.in[A \cup X] >= l.qty
  <2>1. l.in[A] <= l.in[A \cup X] /\ l.in[A \cup X] \in Nat  BY <1>1 DEF Ledger
  <2> QED  BY <1>1, <1>2, <2>1
<1>5. l.out[A \cup X] = l.out[A]  BY <1>1, <1>3 DEF Ledger
<1>6. \A w : Latest(l, A \cup X, w) <=> Latest(l, A, w)  BY <1>3 DEF Latest
<1>7. Kept(l, X) = X
  <2>1. {s \in X : l.gives[s] < s.left} = X  BY <1>3
  <2>2. \A x \in X : [x EXCEPT !.left = @ - l.gives[x]] = x  
    <3> TAKE x \in X
    <3>1. x.left - l.gives[x] = x.left  BY <1>3
    <3> QED  BY <3>1
  <2> QED  BY <2>1, <2>2 DEF Kept
<1>8. 0 < l.qty => \E w \in A \cup X : Latest(l, A \cup X, w)  BY <1>6 DEF Fed
<1> QED  BY <1>1, <1>2, <1>4, <1>5, <1>6, <1>7, <1>8 DEF Fed

LEMMA KeptParts == ASSUME NEW l, NEW A, NEW B PROVE Kept(l, A \cup B) = Kept(l, A) \cup Kept(l, B)
BY DEF Kept

-----------------------------------------------------------------------------
(* The two loops feed the orders in their places. *)

\* A level's orders, as they are seen.
LEMMA RecsAre ==
  ASSUME NEW side, NEW p, NEW orders \in Seq(Rest)
  PROVE  /\ \A y : y \in Recs(side, p, orders, Len(orders)) <=> \E x : Has(orders, x) /\ y = rec(side, p, x)
         /\ Recs(side, p, orders, 0) = {}
         /\ \A n \in 0 .. Len(orders) - 1 :
              Recs(side, p, orders, n + 1) = Recs(side, p, orders, n) \cup {rec(side, p, orders[n + 1])}
<1>1. DOMAIN orders = 1 .. Len(orders) /\ Len(orders) \in Nat  OBVIOUS
<1>2. \A y : y \in Recs(side, p, orders, Len(orders)) <=> \E x : Has(orders, x) /\ y = rec(side, p, x)
  BY <1>1 DEF Recs, Has
<1>3. 1 .. 0 = {}  OBVIOUS
<1>4. Recs(side, p, orders, 0) = {}  BY <1>3 DEF Recs
<1>5. ASSUME NEW n \in 0 .. Len(orders) - 1
      PROVE  Recs(side, p, orders, n + 1) = Recs(side, p, orders, n) \cup {rec(side, p, orders[n + 1])}
  <2>1. 1 .. n + 1 = 1 .. n \cup {n + 1}  BY <1>1
  <2> QED  BY <2>1 DEF Recs
<1> QED  BY <1>2, <1>4, <1>5

\* A level whose orders are the next after A.
Queued(l, A, side, p, orders) ==
  \A n \in 1 .. Len(orders) :
    /\ rec(side, p, orders[n]) \in l.all
    /\ Ahead(l.all, rec(side, p, orders[n])) = A \cup Recs(side, p, orders, n - 1)
    /\ \A s \in A \cup Recs(side, p, orders, n) : ~Reference!Before(rec(side, p, orders[n]), s)

\* After n rounds of the inner loop.
LevelFed(l, A, side, p, orders, n, acc) ==
  /\ acc.left \in Nat /\ Fed(l, A \cup Recs(side, p, orders, n), acc.left)
  /\ acc.kept \in Seq(Rest) /\ Rising(acc.kept)
  /\ \A x : Has(acc.kept, x) => \E j \in 1 .. n : x.seq = orders[j].seq
  /\ Recs(side, p, acc.kept, Len(acc.kept)) = Kept(l, Recs(side, p, orders, n))

LEMMA RoundFeeds ==
  ASSUME NEW l, Ledger(l), NEW A, NEW side, NEW p, NEW orders \in Seq(Rest), Rising(orders),
         Queued(l, A, side, p, orders),
         NEW n \in 0 .. Len(orders) - 1, NEW acc, LevelFed(l, A, side, p, orders, n, acc)
  PROVE  LevelFed(l, A, side, p, orders, n + 1, takeFrom(acc, orders[n + 1]))
<1> DEFINE r == orders[n + 1]
           x == rec(side, p, r)
           m == Min({acc.left, r.left})
           k == [r EXCEPT !.left = @ - m]
           B == A \cup Recs(side, p, orders, n)
           t == takeFrom(acc, r)
<1>1. /\ n \in Nat /\ n + 1 \in 1 .. Len(orders) /\ Len(orders) \in Nat /\ DOMAIN orders = 1 .. Len(orders)
      /\ (n + 1) - 1 = n
  OBVIOUS
<1>2. r \in Rest /\ r.left \in Nat /\ r.left > 0 /\ acc.left \in Nat
      /\ r = [id |-> r.id, left |-> r.left, seq |-> r.seq]
  <2>1. r \in Rest  BY <1>1
  <2> HIDE DEF r
  <2> QED  BY <2>1 DEF Rest, LevelFed
<1>3. m = IF acc.left <= r.left THEN acc.left ELSE r.left
  <2>1. acc.left \in Int /\ r.left \in Int  BY <1>2
  <2> HIDE DEF r
  <2> QED  BY <2>1, MaxMinOfTwo
<1>4. t = [left |-> acc.left - m,
           gone |-> IF m = r.left THEN acc.gone \cup {r.id} ELSE acc.gone,
           kept |-> IF m = r.left THEN acc.kept ELSE Append(acc.kept, k)]
  BY DEF takeFrom
<1>5. m # r.left => /\ k \in Rest /\ k.seq = r.seq
                    /\ rec(side, p, k) = [x EXCEPT !.left = x.left - m]
  <2>1. PICK q \in Quantities : r.left <= q  BY <1>2 DEF Rest
  <2>2. q \in Nat  BY BookAssumption
  <2>3. r.id \in Ids /\ r.seq \in Nat  BY <1>2 DEF Rest
  <2>4. x = [id |-> r.id, side |-> side, price |-> p, left |-> r.left, seq |-> r.seq]  BY DEF rec
  <2> HIDE DEF r, m, x
  <2>5. k = [id |-> r.id, left |-> r.left - m, seq |-> r.seq]  BY <1>2
  <2>6. m # r.left => r.left - m \in Nat \ {0} /\ r.left - m <= q  BY <1>2, <1>3, <2>1, <2>2
  <2>7. rec(side, p, k) = [x EXCEPT !.left = x.left - m]  BY <2>4, <2>5 DEF rec
  <2>8. k.seq = r.seq  BY <2>5
  <2>9. m # r.left => k \in Rest  BY <2>1, <2>3, <2>5, <2>6 DEF Rest
  <2> QED  BY <2>7, <2>8, <2>9
<1>6. /\ x \in l.all /\ Ahead(l.all, x) = B
      /\ \A s \in A \cup Recs(side, p, orders, n + 1) : ~Reference!Before(x, s)
  BY <1>1 DEF Queued
<1>7. Recs(side, p, orders, n + 1) = Recs(side, p, orders, n) \cup {x}
  <2>1. \A j \in 0 .. Len(orders) - 1 :
          Recs(side, p, orders, j + 1) = Recs(side, p, orders, j) \cup {rec(side, p, orders[j + 1])}
    BY RecsAre
  <2> QED  BY <2>1
<1>8. x.left = r.left  BY DEF rec
<1>9. /\ Fed(l, B, acc.left) /\ acc.kept \in Seq(Rest) /\ Rising(acc.kept)
      /\ \A y : Has(acc.kept, y) => \E j \in 1 .. n : y.seq = orders[j].seq
      /\ Recs(side, p, acc.kept, Len(acc.kept)) = Kept(l, Recs(side, p, orders, n))
  BY DEF LevelFed
<1>10. A \cup Recs(side, p, orders, n + 1) = B \cup {x}  BY <1>7
<1> HIDE DEF B, x, m, k, t
<1>11. x \notin B /\ ~Reference!Before(x, x) /\ \A s \in B : ~Reference!Before(x, s)
  <2>1. ~Reference!Before(x, x) /\ \A s \in B : ~Reference!Before(x, s)  BY <1>6, <1>10
  <2> QED  BY <1>6, <2>1 DEF Ahead
<1>12. /\ Fed(l, B \cup {x}, acc.left - m)
       /\ Kept(l, {x}) = IF m = x.left THEN {} ELSE {[x EXCEPT !.left = x.left - m]}
  <2>1. m = IF acc.left <= x.left THEN acc.left ELSE x.left  BY <1>3, <1>8
  <2>2. NextTo(l, B, acc.left, x, m)  BY <1>6, <1>9, <1>11, <2>1 DEF NextTo
  <2> HIDE DEF r
  <2> QED  BY <2>2, FedOneMore
<1>13. Kept(l, Recs(side, p, orders, n + 1)) = Kept(l, Recs(side, p, orders, n)) \cup Kept(l, {x})
  BY <1>7, KeptParts
<1>14. acc.left - m \in Nat  BY <1>2, <1>3
<1>15. \A j \in 1 .. n : j \in 1 .. n + 1 /\ orders[j].seq < r.seq  BY <1>1 DEF Rising
<1>16. n + 1 \in 1 .. n + 1  BY <1>1
<1>17. CASE m = r.left
  <2>1. t.left = acc.left - m /\ t.kept = acc.kept  BY <1>4, <1>17
  <2>2. Kept(l, Recs(side, p, orders, n + 1)) = Kept(l, Recs(side, p, orders, n))
    BY <1>8, <1>12, <1>13, <1>17
  <2>3. LevelFed(l, A, side, p, orders, n + 1, t)
    BY <1>9, <1>10, <1>12, <1>14, <1>15, <2>1, <2>2 DEF LevelFed
  <2> QED  BY <2>3 DEF t
<1>18. CASE m # r.left
  <2>1. t.left = acc.left - m /\ t.kept = Append(acc.kept, k)  BY <1>4, <1>18
  <2>2. k \in Rest /\ k.seq = r.seq /\ rec(side, p, k) = [x EXCEPT !.left = x.left - m]  BY <1>5, <1>18
  <2>3. t.kept \in Seq(Rest)  BY <1>9, <2>1, <2>2
  <2> HIDE DEF r
  <2>4. /\ \A y : Has(t.kept, y) <=> Has(acc.kept, y) \/ y = k
        /\ (Rising(acc.kept) /\ \A y : Has(acc.kept, y) => y.seq < k.seq) => Rising(t.kept)
    BY <1>9, <2>1, <2>2, OrderAppended
  <2>5. \A y : Has(acc.kept, y) => y.seq < k.seq  BY <1>9, <1>15, <2>2
  <2>6. \A y : Has(t.kept, y) => \E j \in 1 .. n + 1 : y.seq = orders[j].seq
    BY <1>9, <1>15, <1>16, <2>2, <2>4 DEF r
  <2>7. Recs(side, p, t.kept, Len(t.kept)) = Recs(side, p, acc.kept, Len(acc.kept)) \cup {rec(side, p, k)}
    BY <1>9, <2>3, <2>4, RecsAre
  <2>8. Recs(side, p, t.kept, Len(t.kept)) = Kept(l, Recs(side, p, orders, n + 1))
    <3>1. Kept(l, {x}) = {rec(side, p, k)}  BY <1>8, <1>12, <1>18, <2>2
    <3> QED  BY <1>9, <1>13, <2>7, <3>1
  <2>9. LevelFed(l, A, side, p, orders, n + 1, t)
    BY <1>9, <1>10, <1>12, <1>14, <2>1, <2>3, <2>4, <2>5, <2>6, <2>8 DEF LevelFed
  <2> QED  BY <2>9 DEF t, r
<1> QED  BY <1>17, <1>18

\* The whole inner loop.
LEMMA LevelIsFed ==
  ASSUME NEW l, Ledger(l), NEW A, NEW side, NEW p, NEW orders \in Seq(Rest), Rising(orders),
         Queued(l, A, side, p, orders), NEW start \in Nat, NEW gone, Fed(l, A, start)
  PROVE  LevelFed(l, A, side, p, orders, Len(orders),
                  FoldLeft(takeFrom, [left |-> start, gone |-> gone, kept |-> <<>>], orders))
<1> DEFINE base == [left |-> start, gone |-> gone, kept |-> <<>>]
<1>1. PICK h : Rounds(Inner, base, orders, h) /\ FoldLeft(takeFrom, base, orders) = h[Len(orders)]
  BY TakeInOrder
<1>2. Len(orders) \in Nat  OBVIOUS
<1> DEFINE T == {n \in Nat : n <= Len(orders) => LevelFed(l, A, side, p, orders, n, h[n])}
<1>3. 0 \in T
  <2>1. h[0] = base /\ base.left = start /\ base.kept = <<>>  BY <1>1 DEF Rounds
  <2>2. A \cup Recs(side, p, orders, 0) = A /\ Recs(side, p, orders, 0) = {}  BY RecsAre
  <2>3. /\ <<>> \in Seq(Rest) /\ Rising(<<>>) /\ Len(<<>>) = 0 /\ \A x : ~Has(<<>>, x)
        /\ Recs(side, p, <<>>, 0) = {} /\ Kept(l, {}) = {}
    BY DEF Rising, Has, Recs, Kept
  <2> HIDE DEF base
  <2>4. LevelFed(l, A, side, p, orders, 0, base)  BY <2>1, <2>2, <2>3 DEF LevelFed
  <2> QED  BY <2>1, <2>4
<1>4. ASSUME NEW n \in Nat, n \in T PROVE n + 1 \in T
  <2> SUFFICES ASSUME n + 1 <= Len(orders) PROVE LevelFed(l, A, side, p, orders, n + 1, h[n + 1])
    OBVIOUS
  <2>1. n \in 0 .. Len(orders) - 1 /\ LevelFed(l, A, side, p, orders, n, h[n])  BY <1>2, <1>4
  <2>2. h[n + 1] = takeFrom(h[n], orders[n + 1])  BY <1>1, <2>1 DEF Rounds, round, Inner
  <2> HIDE DEF T
  <2> QED  BY <2>1, <2>2, RoundFeeds
<1> HIDE DEF T
<1>5. Len(orders) \in T  BY <1>2, <1>3, <1>4, Induct
<1> QED  BY <1>1, <1>2, <1>5 DEF T

-----------------------------------------------------------------------------
(* The places of the orders of a side. *)

\* The side whose levels stand as those of type t.
Side(t) == IF t = "LIMIT_SELL" THEN "sell" ELSE "buy"

Crossed(o, levels, side, n) == {r \in RecsUpto(levels, side, n) : crosses(o, r.price)}
Beyond(o, levels, side, n)  == RecsUpto(levels, side, n) \ Crossed(o, levels, side, n)

LEMMA UptoAre ==
  ASSUME NEW levels \in Seq(Level), NEW side, NEW n \in 0 .. Len(levels)
  PROVE  \A y : y \in RecsUpto(levels, side, n) <=>
           \E i \in 1 .. n : \E k \in DOMAIN levels[i].orders :
             y = rec(side, levels[i].price, levels[i].orders[k])
<1>1. \A i \in 1 .. n : DOMAIN levels[i].orders = 1 .. Len(levels[i].orders)
  <2>1. \A i \in 1 .. n : levels[i] \in Level  OBVIOUS
  <2> QED  BY <2>1 DEF Level
<1> QED  BY <1>1 DEF RecsUpto, LevelRecs, Recs

OneSeen(o, levels, side, n) ==
  /\ RecsUpto(levels, side, n + 1) = RecsUpto(levels, side, n) \cup LevelRecs(levels, side, n + 1)
  /\ crosses(o, levels[n + 1].price) =>
       /\ Crossed(o, levels, side, n + 1) = Crossed(o, levels, side, n) \cup LevelRecs(levels, side, n + 1)
       /\ Beyond(o, levels, side, n + 1) = Beyond(o, levels, side, n)
  /\ ~crosses(o, levels[n + 1].price) =>
       /\ Crossed(o, levels, side, n + 1) = Crossed(o, levels, side, n)
       /\ Beyond(o, levels, side, n + 1) = Beyond(o, levels, side, n) \cup LevelRecs(levels, side, n + 1)

LEMMA OneMoreLevel ==
  ASSUME NEW levels \in Seq(Level), NEW side, NEW o, NEW n \in 0 .. Len(levels) - 1
  PROVE  OneSeen(o, levels, side, n)
<1> DEFINE p == levels[n + 1].price
           X == LevelRecs(levels, side, n + 1)
           A == Crossed(o, levels, side, n)
           B == Crossed(o, levels, side, n + 1)
           U == RecsUpto(levels, side, n)
           V == RecsUpto(levels, side, n + 1)
<1>1. 1 .. n + 1 = 1 .. n \cup {n + 1}  OBVIOUS
<1>2. V = U \cup X  BY <1>1 DEF RecsUpto
<1>3. \A x \in X : x.price = p  BY DEF LevelRecs, Recs, rec
<1>4. A = {r \in U : crosses(o, r.price)} /\ B = {r \in V : crosses(o, r.price)}  BY DEF Crossed
<1> HIDE DEF X, A, B, U, V, p
<1>5. crosses(o, p) => B = A \cup X /\ V \ B = U \ A  BY <1>2, <1>3, <1>4
<1>6. ~crosses(o, p) => B = A /\ V \ B = (U \ A) \cup X  BY <1>2, <1>3, <1>4
<1> QED  BY <1>2, <1>5, <1>6 DEF OneSeen, Beyond, X, A, B, U, V, p

\* Price and time are the places in the levels.
LEMMA BeforeIsPlace ==
  ASSUME NEW levels \in Seq(Level), NEW t \in Limits, Ordered(t, levels),
         NEW now, Timed(levels, now),
         NEW i \in DOMAIN levels, NEW k \in DOMAIN levels[i].orders,
         NEW j \in DOMAIN levels, NEW m \in DOMAIN levels[j].orders
  PROVE  Reference!Before(rec(Side(t), levels[i].price, levels[i].orders[k]),
                          rec(Side(t), levels[j].price, levels[j].orders[m]))
         <=> i < j \/ (i = j /\ k < m)
<1> DEFINE side == Side(t)
           p == levels[i].price
           q == levels[j].price
           a == levels[i].orders[k]
           b == levels[j].orders[m]
           x == rec(side, p, a)
           y == rec(side, q, b)
<1>1. levels[i] \in Level /\ levels[j] \in Level /\ i \in Int /\ j \in Int  OBVIOUS
<1>2. p \in Nat /\ q \in Nat  BY <1>1, BookAssumption DEF Level
<1>3. levels[i].orders \in Seq(Rest) /\ levels[j].orders \in Seq(Rest)  BY <1>1 DEF Level
<1>4. a.seq \in Nat /\ b.seq \in Nat /\ k \in Int /\ m \in Int
  <2>1. a \in Rest /\ b \in Rest /\ k \in Int /\ m \in Int  BY <1>3
  <2> HIDE DEF a, b
  <2> QED  BY <2>1 DEF Rest
<1>5. /\ i < j => better(t, p, q)
      /\ j < i => better(t, q, p)
      /\ i = j => p = q /\ (k < m => a.seq < b.seq) /\ (m < k => b.seq < a.seq) /\ (k = m => a = b)
  <2>1. Rising(levels[i].orders) /\ Rising(levels[j].orders)  BY DEF Timed
  <2> QED  BY <2>1 DEF Ordered, Rising
<1>6. /\ x.side = side /\ y.side = side /\ x.price = p /\ y.price = q
      /\ x.seq = a.seq /\ y.seq = b.seq
  BY DEF rec
<1>7. (t = "LIMIT_SELL" /\ side = "sell") \/ (t = "LIMIT_BUY" /\ side = "buy")
  BY DEF Limits, Side
<1> HIDE DEF p, q, a, b, x, y, side
<1>8. better(t, p, q) <=> IF side = "sell" THEN p < q ELSE p > q
  BY <1>7 DEF better, Buys
<1>9. better(t, q, p) <=> IF side = "sell" THEN q < p ELSE q > p
  BY <1>7 DEF better, Buys
<1>10. Reference!Before(x, y) <=> better(t, p, q) \/ (p = q /\ a.seq < b.seq)
  BY <1>2, <1>6, <1>8 DEF Reference!Before
<1>11. better(t, q, p) => p # q /\ ~better(t, p, q)  BY <1>2, <1>8, <1>9
<1>12. p = q => ~better(t, p, q)  BY <1>2, <1>8
<1>13. Reference!Before(x, y) <=> i < j \/ (i = j /\ k < m)
  <2>1. CASE i < j  BY <1>5, <1>10, <2>1
  <2>2. CASE j < i
    <3>1. ~(i < j) /\ i # j  BY <1>1, <2>2
    <3> QED  BY <1>5, <1>10, <1>11, <2>2, <3>1
  <2>3. CASE i = j
    <3>1. ~(i < j)  BY <1>1, <2>3
    <3>2. a.seq < b.seq <=> k < m  BY <1>4, <1>5, <2>3
    <3> QED  BY <1>5, <1>10, <1>12, <2>3, <3>1, <3>2
  <2> QED  BY <1>1, <2>1, <2>2, <2>3
<1> QED  BY <1>13 DEF x, y, p, q, a, b, side

\* The next level crossed comes after those seen, its orders one by one.
LevelIsNext(l, A, X, side, p, orders) ==
  /\ Queued(l, A, side, p, orders)
  /\ X \in SUBSET l.all /\ A \in SUBSET l.all /\ A \cap X = {}
  /\ \A x \in X : A \subseteq Ahead(l.all, x)
  /\ \A w \in A : \A x \in X : Reference!Before(w, x)

LEMMA NextLevel ==
  ASSUME NEW levels \in Seq(Level), NEW t \in Limits, Ordered(t, levels),
         NEW now, Timed(levels, now), NEW o, NEW l,
         l.all = Crossed(o, levels, Side(t), Len(levels)),
         NEW n \in 0 .. Len(levels) - 1, crosses(o, levels[n + 1].price),
         NEW A, A = Crossed(o, levels, Side(t), n), NEW X, X = LevelRecs(levels, Side(t), n + 1)
  PROVE  LevelIsNext(l, A, X, Side(t), levels[n + 1].price, levels[n + 1].orders)
<1> DEFINE side == Side(t)
           p == levels[n + 1].price
           orders == levels[n + 1].orders
           x(m) == rec(side, p, orders[m])
<1>1. /\ n \in 0 .. Len(levels) /\ Len(levels) \in 0 .. Len(levels) /\ n \in Nat
      /\ DOMAIN levels = 1 .. Len(levels) /\ n + 1 \in DOMAIN levels /\ Len(levels) \in Nat
      /\ 1 .. n \subseteq DOMAIN levels /\ \A i \in 1 .. n : i < n + 1 /\ ~(n + 1 < i) /\ i # n + 1
      /\ \A i \in DOMAIN levels : i < n + 1 => i \in 1 .. n
      /\ ~(n + 1 < n + 1)
  OBVIOUS
<1>2. DOMAIN orders = 1 .. Len(orders) /\ Len(orders) \in Nat
  <2>1. levels[n + 1] \in Level  BY <1>1
  <2>2. orders \in Seq(Rest)  BY <2>1 DEF Level
  <2> HIDE DEF orders
  <2> QED  BY <2>2
<1>3. /\ \A y : y \in A <=> /\ crosses(o, y.price)
                            /\ \E i \in 1 .. n : \E k \in DOMAIN levels[i].orders :
                                 y = rec(side, levels[i].price, levels[i].orders[k])
      /\ \A y : y \in l.all <=> /\ crosses(o, y.price)
                                /\ \E i \in DOMAIN levels : \E k \in DOMAIN levels[i].orders :
                                     y = rec(side, levels[i].price, levels[i].orders[k])
  <2>1. \A y : y \in RecsUpto(levels, side, n) <=>
          \E i \in 1 .. n : \E k \in DOMAIN levels[i].orders :
            y = rec(side, levels[i].price, levels[i].orders[k])
    BY <1>1, UptoAre
  <2>2. \A y : y \in RecsUpto(levels, side, Len(levels)) <=>
          \E i \in 1 .. Len(levels) : \E k \in DOMAIN levels[i].orders :
            y = rec(side, levels[i].price, levels[i].orders[k])
    BY <1>1, UptoAre
  <2> QED  BY <1>1, <2>1, <2>2 DEF Crossed
<1>4. ASSUME NEW w \in A, NEW m \in DOMAIN orders
      PROVE  Reference!Before(w, x(m)) /\ ~Reference!Before(x(m), w)
  <2>1. PICK i \in 1 .. n : \E k \in DOMAIN levels[i].orders :
               w = rec(side, levels[i].price, levels[i].orders[k])
    BY <1>3
  <2>2. PICK k \in DOMAIN levels[i].orders : w = rec(side, levels[i].price, levels[i].orders[k])
    BY <2>1
  <2>3. i \in DOMAIN levels /\ i < n + 1 /\ ~(n + 1 < i) /\ i # n + 1  BY <1>1
  <2>4. Reference!Before(w, x(m)) <=> i < n + 1 \/ (i = n + 1 /\ k < m)
    BY <1>1, <2>2, <2>3, BeforeIsPlace
  <2>5. Reference!Before(x(m), w) <=> n + 1 < i \/ (n + 1 = i /\ m < k)
    BY <1>1, <2>2, <2>3, BeforeIsPlace
  <2> QED  BY <2>3, <2>4, <2>5
<1>5. ASSUME NEW k \in DOMAIN orders, NEW m \in DOMAIN orders
      PROVE  Reference!Before(x(k), x(m)) <=> k < m
  <2>1. Reference!Before(x(k), x(m)) <=> n + 1 < n + 1 \/ (n + 1 = n + 1 /\ k < m)
    BY <1>1, BeforeIsPlace
  <2> QED  BY <1>1, <2>1
<1>6. \A m \in DOMAIN orders : x(m) \in l.all
  <2> TAKE m \in DOMAIN orders
  <2>1. x(m).price = p  BY DEF rec
  <2> QED  BY <1>1, <1>3, <2>1
<1>7. ASSUME NEW s \in l.all, NEW m \in DOMAIN orders, Reference!Before(s, x(m))
      PROVE  s \in A \/ \E k \in DOMAIN orders : k < m /\ s = x(k)
  <2>1. PICK i \in DOMAIN levels : \E k \in DOMAIN levels[i].orders :
               s = rec(side, levels[i].price, levels[i].orders[k])
    BY <1>3
  <2>2. PICK k \in DOMAIN levels[i].orders : s = rec(side, levels[i].price, levels[i].orders[k])
    BY <2>1
  <2>3. Reference!Before(s, x(m)) <=> i < n + 1 \/ (i = n + 1 /\ k < m)
    BY <1>1, <2>2, BeforeIsPlace
  <2>4. CASE i < n + 1
    <3>1. i \in 1 .. n  BY <1>1, <2>4
    <3>2. crosses(o, s.price)  BY <1>3
    <3> QED  BY <1>3, <2>2, <3>1, <3>2
  <2>5. CASE i = n + 1 /\ k < m  BY <2>2, <2>5
  <2> QED  BY <1>7, <2>3, <2>4, <2>5
<1>8. A \in SUBSET l.all  BY <1>1, <1>3
<1>9. \A y : y \in X <=> \E m \in DOMAIN orders : y = x(m)  BY <1>2 DEF LevelRecs, Recs
<1>10. \A m \in DOMAIN orders : \A y : y \in Recs(side, p, orders, m - 1) <=> \E k \in DOMAIN orders : k < m /\ y = x(k)
  <2> TAKE m \in DOMAIN orders
  <2>1. \A k : k \in 1 .. m - 1 <=> k \in DOMAIN orders /\ k < m  BY <1>2
  <2> HIDE DEF orders
  <2> QED  BY <2>1 DEF Recs
<1>11. \A m \in DOMAIN orders : \A y \in Recs(side, p, orders, m) : \E k \in DOMAIN orders : k <= m /\ y = x(k)
  <2> TAKE m \in DOMAIN orders
  <2>1. \A k \in 1 .. m : k \in DOMAIN orders /\ k <= m  BY <1>2
  <2> HIDE DEF orders
  <2> QED  BY <2>1 DEF Recs
<1> HIDE DEF x
<1>12. ASSUME NEW m \in DOMAIN orders
       PROVE  /\ x(m) \in l.all
              /\ Ahead(l.all, x(m)) = A \cup Recs(side, p, orders, m - 1)
              /\ \A s \in A \cup Recs(side, p, orders, m) : ~Reference!Before(x(m), s)
  <2>1. \A s : s \in Ahead(l.all, x(m)) <=> s \in l.all /\ Reference!Before(s, x(m))  BY DEF Ahead
  <2>2. Ahead(l.all, x(m)) = A \cup Recs(side, p, orders, m - 1)
    BY <1>4, <1>5, <1>6, <1>7, <1>8, <1>10, <2>1
  <2>3. ASSUME NEW s \in A \cup Recs(side, p, orders, m) PROVE ~Reference!Before(x(m), s)
    <3>1. CASE s \in A  BY <1>4, <3>1
    <3>2. CASE s \in Recs(side, p, orders, m)
      <4>1. PICK k \in DOMAIN orders : k <= m /\ s = x(k)  BY <1>11, <3>2
      <4>2. ~(m < k)  BY <1>2, <4>1
      <4> QED  BY <1>5, <4>1, <4>2
    <3> QED  BY <3>1, <3>2
  <2> QED  BY <1>6, <2>2, <2>3
<1>13. Queued(l, A, side, p, orders)  BY <1>2, <1>12 DEF Queued, x
<1>14. X \in SUBSET l.all /\ \A w \in A : \A y \in X : Reference!Before(w, y) /\ ~Reference!Before(y, w)
  BY <1>4, <1>6, <1>9
<1>15. A \cap X = {} /\ \A y \in X : A \subseteq Ahead(l.all, y)  BY <1>8, <1>14 DEF Ahead
<1> QED  BY <1>8, <1>13, <1>14, <1>15 DEF LevelIsNext

-----------------------------------------------------------------------------
(* The outer loop. *)

LEMMA RecsAppended ==
  ASSUME NEW s \in Seq(Level), NEW l \in Level, NEW side
  PROVE  /\ RecsUpto(Append(s, l), side, Len(Append(s, l)))
              = RecsUpto(s, side, Len(s)) \cup Recs(side, l.price, l.orders, Len(l.orders))
         /\ \A now : /\ Timed(s, now) /\ Rising(l.orders)
                     /\ \A x : Has(l.orders, x) => x.seq <= now
                     => Timed(Append(s, l), now)
<1> DEFINE a == Append(s, l)
           n == Len(s) + 1
<1>1. /\ Len(a) = n /\ 1 .. n = 1 .. Len(s) \cup {n} /\ a[n] = l
      /\ \A i \in 1 .. Len(s) : a[i] = s[i]
      /\ DOMAIN a = 1 .. n /\ DOMAIN s = 1 .. Len(s)
  OBVIOUS
<1> HIDE DEF a, n
<1>2. RecsUpto(a, side, Len(a)) = RecsUpto(s, side, Len(s)) \cup Recs(side, l.price, l.orders, Len(l.orders))
  BY <1>1 DEF RecsUpto, LevelRecs
<1>3. ASSUME NEW now, Timed(s, now), Rising(l.orders), \A x : Has(l.orders, x) => x.seq <= now
      PROVE  Timed(a, now)
  BY <1>1, <1>3 DEF Timed
<1> QED  BY <1>2, <1>3 DEF a

\* Who traded last is of the last level that gave.
LEMMA LastIsOfLevel ==
  ASSUME NEW l, Ledger(l), NEW A \in SUBSET l.all, NEW X \in SUBSET l.all, A \cap X = {},
         \A w \in A : \A x \in X : Reference!Before(w, x),
         NEW before \in Nat \ {0}, NEW after \in Nat, Fed(l, A, before), Fed(l, A \cup X, after)
  PROVE  /\ after < before => \A w : Latest(l, A \cup X, w) => w \in X
         /\ ~(after < before) => X = {}
<1>1. l.qty \in Nat /\ l.in[A] \in Nat /\ l.in[A \cup X] \in Nat
  <2>1. A \cup X \in SUBSET l.all  OBVIOUS
  <2> QED  BY <2>1 DEF Ledger
<1>2. /\ before = IF l.in[A] >= l.qty THEN 0 ELSE l.qty - l.in[A]
      /\ after = IF l.in[A \cup X] >= l.qty THEN 0 ELSE l.qty - l.in[A \cup X]
      /\ l.out[A] = l.qty - before /\ l.out[A \cup X] = l.qty - after
  BY DEF Fed
<1>3. \A x \in l.all : l.gives[x] # 0 => l.gives[x] > 0
  <2> TAKE x \in l.all
  <2>1. Ahead(l.all, x) \in SUBSET l.all  BY DEF Ahead
  <2>2. l.in[Ahead(l.all, x)] \in Nat  BY <2>1 DEF Ledger
  <2> QED  BY <1>1, <2>2 DEF Ledger
<1>4. ASSUME after < before, NEW w, Latest(l, A \cup X, w) PROVE w \in X
  <2>1. l.out[A \cup X] # l.out[A]  BY <1>1, <1>2, <1>4
  <2>2. PICK x \in X : l.gives[x] # 0  BY <2>1 DEF Ledger
  <2>3. l.gives[x] > 0  BY <1>3, <2>2
  <2>4. ~Reference!Before(w, x) /\ w \in A \cup X  BY <1>4, <2>3 DEF Latest
  <2> QED  BY <2>4
<1>5. ASSUME ~(after < before), NEW x \in X PROVE FALSE
  <2>1. x \in l.all \ A /\ A \cup {x} \in SUBSET l.all /\ A \cup X \in SUBSET l.all
        /\ A \cup {x} \subseteq A \cup X
    OBVIOUS
  <2>2. x.left \in Nat \ {0} /\ l.in[A \cup {x}] = x.left + l.in[A]  BY <2>1 DEF Ledger
  <2>3. l.in[A \cup {x}] <= l.in[A \cup X]  BY <2>1 DEF Ledger
  <2> QED  BY <1>1, <1>2, <1>5, <2>2, <2>3
<1> QED  BY <1>4, <1>5

\* After n rounds.
SideFed(o, l, levels, side, now, n, acc) ==
  LET C == Crossed(o, levels, side, n) IN
  /\ Fed(l, C, acc.left)
  /\ RecsUpto(acc.levels, side, Len(acc.levels)) = Kept(l, C) \cup Beyond(o, levels, side, n)
  /\ Timed(acc.levels, now)
  /\ acc.left < l.qty => \A w : Latest(l, C, w) => w.price = acc.last

LEMMA RoundOfSide ==
  ASSUME NEW levels \in Seq(Level), NEW t \in Limits, Ordered(t, levels),
         NEW now \in Nat, Timed(levels, now), NEW o, o.qty \in Nat, Stops(o, t), NEW l, Ledger(l),
         l.qty = o.qty, l.all = Crossed(o, levels, Side(t), Len(levels)),
         NEW n \in 0 .. Len(levels) - 1, NEW acc, MatchedTo(o, t, levels, n, acc),
         SideFed(o, l, levels, Side(t), now, n, acc)
  PROVE  SideFed(o, l, levels, Side(t), now, n + 1, matchLevel(o, acc, levels[n + 1]))
<1> DEFINE side == Side(t)
           lvl == levels[n + 1]
           p == lvl.price
           orders == lvl.orders
           A == Crossed(o, levels, side, n)
           X == LevelRecs(levels, side, n + 1)
           B == Crossed(o, levels, side, n + 1)
           res == matchLevel(o, acc, lvl)
           old == RecsUpto(acc.levels, side, Len(acc.levels))
           rest == Beyond(o, levels, side, n)
           rest2 == Beyond(o, levels, side, n + 1)
<1>1. /\ n \in Nat /\ n + 1 \in DOMAIN levels /\ 1 .. n \subseteq DOMAIN levels
      /\ \A i \in 1 .. n : i < n + 1
      /\ \A i \in DOMAIN levels : levels[i] \in Level
  OBVIOUS
<1>2. /\ lvl \in Level /\ orders \in Seq(Rest) /\ p \in Prices
      /\ lvl = [price |-> p, orders |-> orders]
  <2>1. lvl \in Level  BY <1>1
  <2> HIDE DEF lvl
  <2> QED  BY <2>1 DEF Level
<1>0. X = Recs(side, p, orders, Len(orders))  BY DEF LevelRecs
<1>3. /\ acc.left \in Nat /\ acc.levels \in Seq(Level)
      /\ acc.done /\ acc.left > 0 => \E i \in 1 .. n : ~crosses(o, levels[i].price)
      /\ acc = [done |-> acc.done, left |-> acc.left, gone |-> acc.gone, last |-> acc.last,
                levels |-> acc.levels]
  BY DEF MatchedTo
<1>4. /\ Fed(l, A, acc.left) /\ old = Kept(l, A) \cup rest /\ Timed(acc.levels, now)
      /\ acc.left < l.qty => \A w : Latest(l, A, w) => w.price = acc.last
  BY DEF SideFed
<1>5. Rising(orders) /\ \A x : Has(orders, x) => x.seq <= now  BY <1>1 DEF Timed
<1>6. /\ crosses(o, p) => B = A \cup X /\ rest2 = rest
      /\ ~crosses(o, p) => B = A /\ rest2 = rest \cup X
  <2>1. OneSeen(o, levels, side, n)  BY OneMoreLevel
  <2> QED  BY <2>1 DEF OneSeen
<1>7. ASSUME crosses(o, p)
      PROVE  /\ Queued(l, A, side, p, orders)
             /\ X \in SUBSET l.all /\ A \in SUBSET l.all /\ A \cap X = {}
             /\ \A x \in X : A \subseteq Ahead(l.all, x)
             /\ \A w \in A : \A x \in X : Reference!Before(w, x)
  <2>1. LevelIsNext(l, A, X, side, p, orders)  BY <1>7, NextLevel
  <2> HIDE DEF A, X, p, orders
  <2> QED  BY <2>1 DEF LevelIsNext
<1>8. \A x \in X : x.price = p /\ x = [x EXCEPT !.left = x.left]
  <2>1. \A r : rec(side, p, r).price = p /\ rec(side, p, r) = [rec(side, p, r) EXCEPT !.left = rec(side, p, r).left]
    BY DEF rec
  <2> QED  BY <2>1 DEF LevelRecs, Recs
<1> SUFFICES /\ Fed(l, B, res.left)
             /\ RecsUpto(res.levels, side, Len(res.levels)) = Kept(l, B) \cup rest2
             /\ Timed(res.levels, now)
             /\ res.left < l.qty => \A w : Latest(l, B, w) => w.price = res.last
  BY DEF SideFed
<1> HIDE DEF A, B, X, rest, rest2, old
<1>9. CASE acc.done \/ acc.left = 0 \/ ~crosses(o, p)
  <2>1. res = [acc EXCEPT !.done = TRUE, !.levels = Append(@, lvl)]  BY <1>9 DEF matchLevel
  <2> HIDE DEF res
  <2>2. res.left = acc.left /\ res.last = acc.last /\ res.levels = Append(acc.levels, lvl)
    <3> HIDE DEF lvl
    <3> QED  BY <1>3, <2>1
  <2>3. RecsUpto(res.levels, side, Len(res.levels)) = old \cup X /\ Timed(res.levels, now)
    <3>1. RecsUpto(Append(acc.levels, lvl), side, Len(Append(acc.levels, lvl))) = old \cup X
      <4> HIDE DEF lvl
      <4> QED  BY <1>0, <1>2, <1>3, RecsAppended DEF old
    <3>2. Timed(Append(acc.levels, lvl), now)
      <4> HIDE DEF lvl
      <4> QED  BY <1>2, <1>3, <1>4, <1>5, RecsAppended
    <3> QED  BY <2>2, <3>1, <3>2
  <2>4. CASE ~crosses(o, p)  BY <1>4, <1>6, <2>2, <2>3, <2>4
  <2>5. CASE crosses(o, p)
    <3>1. acc.left = 0
      <4> SUFFICES ASSUME acc.done, acc.left > 0 PROVE FALSE  BY <1>3, <1>9, <2>5
      <4>1. PICK i \in 1 .. n : ~crosses(o, levels[i].price)  BY <1>3
      <4>2. levels[i] \in Level /\ better(t, levels[i].price, p)  BY <1>1 DEF Ordered
      <4>3. levels[i].price \in Prices  BY <4>2 DEF Level
      <4> HIDE DEF lvl
      <4> QED  BY <1>2, <2>5, <4>1, <4>2, <4>3 DEF Stops
    <3>2. /\ Fed(l, A \cup X, 0) /\ Kept(l, X) = X
          /\ \A w : Latest(l, A \cup X, w) <=> Latest(l, A, w)
      <4> HIDE DEF p
      <4> QED  BY <1>4, <1>7, <1>8, <2>5, <3>1, FedNoMore
    <3>3. Kept(l, A \cup X) = Kept(l, A) \cup X  BY <3>2, KeptParts
    <3> QED  BY <1>4, <1>6, <2>2, <2>3, <2>5, <3>1, <3>2, <3>3
  <2> QED  BY <2>4, <2>5
<1>10. CASE ~(acc.done \/ acc.left = 0 \/ ~crosses(o, p))
  <2> DEFINE in == FoldLeft(takeFrom, [left |-> acc.left, gone |-> acc.gone, kept |-> <<>>], orders)
             k == [lvl EXCEPT !.orders = in.kept]
             new == IF in.kept = <<>> THEN acc.levels ELSE Append(acc.levels, k)
             last == IF in.left < acc.left THEN p ELSE acc.last
  <2>0. crosses(o, p) /\ acc.left \in Nat \ {0}  BY <1>3, <1>10
  <2>1. res = [done |-> FALSE, left |-> in.left, gone |-> in.gone, last |-> last, levels |-> new]
    BY <1>10 DEF matchLevel
  <2>2. res.left = in.left /\ res.last = last /\ res.levels = new
    <3> HIDE DEF res, in, new, last
    <3> QED  BY <2>1
  <2>3. LevelFed(l, A, side, p, orders, Len(orders), in)
    <3> HIDE DEF p, orders
    <3> QED  BY <1>2, <1>3, <1>4, <1>5, <1>7, <2>0, LevelIsFed
  <2> HIDE DEF res, in
  <2>4. /\ in.left \in Nat /\ Fed(l, A \cup X, in.left)
        /\ in.kept \in Seq(Rest) /\ Rising(in.kept)
        /\ \A x : Has(in.kept, x) => \E j \in 1 .. Len(orders) : x.seq = orders[j].seq
        /\ Recs(side, p, in.kept, Len(in.kept)) = Kept(l, X)
    BY <2>3 DEF LevelFed, X, LevelRecs
  <2>5. \A x : Has(in.kept, x) => x.seq <= now
    <3>1. \A j \in 1 .. Len(orders) : Has(orders, orders[j])
      <4> HIDE DEF orders
      <4> QED  BY <1>2 DEF Has
    <3> QED  BY <1>5, <2>4, <3>1
  <2>6. k \in Level /\ k.price = p /\ k.orders = in.kept
    <3>1. k = [price |-> p, orders |-> in.kept]
      <4> HIDE DEF lvl
      <4> QED  BY <1>2 DEF p
    <3> HIDE DEF k, p
    <3> QED  BY <1>2, <2>4, <3>1 DEF Level
  <2> HIDE DEF k
  <2>7. RecsUpto(new, side, Len(new)) = old \cup Kept(l, X) /\ Timed(new, now)
    <3>1. CASE in.kept = <<>>
      <4>1. new = acc.levels  BY <3>1
      <4>2. Recs(side, p, <<>>, Len(<<>>)) = {}
        <5>1. 1 .. Len(<<>>) = {}  OBVIOUS
        <5> QED  BY <5>1 DEF Recs
      <4>3. Kept(l, X) = {}  BY <2>4, <3>1, <4>2
      <4> QED  BY <1>4, <4>1, <4>3 DEF old
    <3>2. CASE in.kept # <<>>
      <4>1. new = Append(acc.levels, k)  BY <3>2
      <4>2. RecsUpto(Append(acc.levels, k), side, Len(Append(acc.levels, k)))
              = old \cup Recs(side, k.price, k.orders, Len(k.orders))
        BY <1>3, <2>6, RecsAppended DEF old
      <4>3. Timed(Append(acc.levels, k), now)
        BY <1>3, <1>4, <2>4, <2>5, <2>6, RecsAppended
      <4> HIDE DEF new
      <4> QED  BY <2>4, <2>6, <4>1, <4>2, <4>3
    <3> QED  BY <3>1, <3>2
  <2> HIDE DEF new
  <2>8. Kept(l, B) \cup rest2 = old \cup Kept(l, X)
    <3>1. Kept(l, A \cup X) = Kept(l, A) \cup Kept(l, X)  BY KeptParts
    <3> QED  BY <1>4, <1>6, <2>0, <3>1
  <2>9. B = A \cup X  BY <1>6, <2>0
  <2>10. /\ in.left < acc.left => \A w : Latest(l, A \cup X, w) => w \in X
         /\ ~(in.left < acc.left) => X = {}
    <3>1. /\ A \in SUBSET l.all /\ X \in SUBSET l.all /\ A \cap X = {}
          /\ \A w \in A : \A x \in X : Reference!Before(w, x)
      BY <1>7, <2>0
    <3> HIDE DEF p
    <3> QED  BY <1>4, <2>0, <2>4, <3>1, LastIsOfLevel
  <2>11. in.left < l.qty => \A w : Latest(l, A \cup X, w) => w.price = last
    <3>1. CASE in.left < acc.left  BY <1>8, <2>10, <3>1
    <3>2. CASE ~(in.left < acc.left)
      <4>1. A \cup X = A /\ last = acc.last  BY <2>10, <3>2
      <4>2. in.left = acc.left
        <5>1. /\ acc.left = IF l.in[A] >= l.qty THEN 0 ELSE l.qty - l.in[A]
              /\ in.left = IF l.in[A] >= l.qty THEN 0 ELSE l.qty - l.in[A]
          BY <1>4, <2>4, <4>1 DEF Fed
        <5> QED  BY <5>1
      <4> HIDE DEF last
      <4> QED  BY <1>4, <4>1, <4>2
    <3> QED  BY <3>1, <3>2
  <2> HIDE DEF last
  <2> QED  BY <2>2, <2>4, <2>7, <2>8, <2>9, <2>11
<1> QED  BY <1>9, <1>10

\* The whole side.
LEMMA SideIsFed ==
  ASSUME NEW levels \in Seq(Level), NEW t \in Limits, Ordered(t, levels),
         NEW now \in Nat, Timed(levels, now), NEW o, o.qty \in Nat, Stops(o, t), NEW l, Ledger(l),
         l.qty = o.qty, l.all = Crossed(o, levels, Side(t), Len(levels))
  PROVE  SideFed(o, l, levels, Side(t), now, Len(levels), match(o, levels))
<1>1. PICK h : /\ Rounds(Outer(o), atStart(o), levels, h) /\ match(o, levels) = h[Len(levels)]
               /\ \A n \in 0 .. Len(levels) : MatchedTo(o, t, levels, n, h[n])
  BY MatchingRounds
<1>2. Len(levels) \in Nat  OBVIOUS
<1> DEFINE T == {n \in Nat : n <= Len(levels) => SideFed(o, l, levels, Side(t), now, n, h[n])}
<1>3. 0 \in T
  <2>1. h[0].left = l.qty /\ h[0].levels = <<>>  BY <1>1 DEF Rounds, atStart
  <2>2. \A s : RecsUpto(s, Side(t), 0) = {}
    <3>1. 1 .. 0 = {}  OBVIOUS
    <3> QED  BY <3>1 DEF RecsUpto
  <2>3. Crossed(o, levels, Side(t), 0) = {} /\ Beyond(o, levels, Side(t), 0) = {}
    BY <2>2 DEF Crossed, Beyond
  <2>4. Kept(l, {}) = {} /\ Timed(<<>>, now) /\ Len(<<>>) = 0  BY DEF Kept, Timed
  <2>5. Fed(l, {}, l.qty)  BY FedNothing
  <2>6. ~(l.qty < l.qty)  
    <3>1. l.qty \in Nat  OBVIOUS
    <3> QED  BY <3>1
  <2>7. RecsUpto(h[0].levels, Side(t), Len(h[0].levels)) = Kept(l, {}) \cup {}
    BY <2>1, <2>2, <2>4
  <2>8. Timed(h[0].levels, now)  BY <2>1, <2>4
  <2>9. SideFed(o, l, levels, Side(t), now, 0, h[0])
    BY <2>1, <2>3, <2>5, <2>6, <2>7, <2>8 DEF SideFed
  <2> QED  BY <2>9
<1>4. ASSUME NEW n \in Nat, n \in T PROVE n + 1 \in T
  <2> SUFFICES ASSUME n + 1 <= Len(levels) PROVE SideFed(o, l, levels, Side(t), now, n + 1, h[n + 1])
    OBVIOUS
  <2>1. /\ n \in 0 .. Len(levels) - 1 /\ n \in 0 .. Len(levels)
        /\ SideFed(o, l, levels, Side(t), now, n, h[n])
    BY <1>2, <1>4
  <2>2. h[n + 1] = matchLevel(o, h[n], levels[n + 1])  BY <1>1, <2>1 DEF Rounds, round, Outer
  <2>3. MatchedTo(o, t, levels, n, h[n])  BY <1>1, <2>1
  <2> HIDE DEF T
  <2> QED  BY <2>1, <2>2, <2>3, RoundOfSide
<1> HIDE DEF T
<1>5. Len(levels) \in T  BY <1>2, <1>3, <1>4, Induct
<1> QED  BY <1>1, <1>2, <1>5 DEF T

-----------------------------------------------------------------------------
(* A side as the abstract book sees it. *)

LEMMA OrdersAre ==
  ASSUME NEW levels \in Seq(Level), NEW side
  PROVE  /\ RecsUpto(levels, side, Len(levels)) = OrdersOf(levels, side)
         /\ \A y : y \in OrdersOf(levels, side) <=> \E q, x : At(levels, q, x) /\ y = rec(side, q, x)
<1>1. DOMAIN levels = 1 .. Len(levels) /\ Len(levels) \in 0 .. Len(levels)  OBVIOUS
<1>2. \A y : y \in RecsUpto(levels, side, Len(levels)) <=>
        \E i \in DOMAIN levels : \E k \in DOMAIN levels[i].orders :
          y = rec(side, levels[i].price, levels[i].orders[k])
  BY <1>1, UptoAre
<1>3. \A y : y \in OrdersOf(levels, side) <=>
        \E i \in DOMAIN levels : \E k \in DOMAIN levels[i].orders :
          y = rec(side, levels[i].price, levels[i].orders[k])
  BY DEF OrdersOf, rec
<1>4. ASSUME NEW y, NEW i \in DOMAIN levels, NEW k \in DOMAIN levels[i].orders,
             y = rec(side, levels[i].price, levels[i].orders[k])
      PROVE  \E q, x : At(levels, q, x) /\ y = rec(side, q, x)
  <2>1. At(levels, levels[i].price, levels[i].orders[k])  BY DEF At, Has
  <2> QED  BY <1>4, <2>1
<1>5. ASSUME NEW y, NEW q, NEW x, At(levels, q, x), y = rec(side, q, x)
      PROVE  \E i \in DOMAIN levels : \E k \in DOMAIN levels[i].orders :
               y = rec(side, levels[i].price, levels[i].orders[k])
  BY <1>5 DEF At, Has
<1>6. RecsUpto(levels, side, Len(levels)) = OrdersOf(levels, side)  BY <1>2, <1>3
<1>7. \A y : y \in OrdersOf(levels, side) <=> \E q, x : At(levels, q, x) /\ y = rec(side, q, x)
  BY <1>3, <1>4, <1>5
<1> QED  BY <1>6, <1>7

LEMMA FiniteOrders ==
  ASSUME NEW levels \in Seq(Level), NEW side
  PROVE  IsFiniteSet(OrdersOf(levels, side))
<1>1. Len(levels) \in Nat /\ \A i \in DOMAIN levels : levels[i] \in Level  OBVIOUS
<1>2. ASSUME NEW i \in DOMAIN levels PROVE IsFiniteSet(LevelRecs(levels, side, i))
  <2> DEFINE p == levels[i].price
             orders == levels[i].orders
             T == {n \in Nat : n <= Len(orders) => IsFiniteSet(Recs(side, p, orders, n))}
  <2>1. orders \in Seq(Rest) /\ Len(orders) \in Nat
    <3>1. orders \in Seq(Rest)  BY <1>1 DEF Level
    <3> HIDE DEF orders
    <3> QED  BY <3>1
  <2> HIDE DEF orders, p
  <2>2. /\ Recs(side, p, orders, 0) = {}
        /\ \A n \in 0 .. Len(orders) - 1 :
             Recs(side, p, orders, n + 1) = Recs(side, p, orders, n) \cup {rec(side, p, orders[n + 1])}
    BY <2>1, RecsAre
  <2>3. 0 \in T  BY <2>2, FS_EmptySet
  <2>4. ASSUME NEW n \in Nat, n \in T PROVE n + 1 \in T
    <3> SUFFICES ASSUME n + 1 <= Len(orders) PROVE IsFiniteSet(Recs(side, p, orders, n + 1))  OBVIOUS
    <3>1. n \in 0 .. Len(orders) - 1 /\ IsFiniteSet(Recs(side, p, orders, n))  BY <2>1, <2>4
    <3>2. IsFiniteSet(Recs(side, p, orders, n) \cup {rec(side, p, orders[n + 1])})
      BY <3>1, FS_AddElement
    <3> QED  BY <2>2, <3>1, <3>2
  <2> HIDE DEF T
  <2>5. Len(orders) \in T  BY <2>1, <2>3, <2>4, Induct
  <2> QED  BY <2>1, <2>5 DEF T, LevelRecs, p, orders
<1> DEFINE T == {n \in Nat : n <= Len(levels) => IsFiniteSet(RecsUpto(levels, side, n))}
<1>3. 0 \in T
  <2>1. 1 .. 0 = {}  OBVIOUS
  <2>2. RecsUpto(levels, side, 0) = {}  BY <2>1 DEF RecsUpto
  <2> QED  BY <2>2, FS_EmptySet
<1>4. ASSUME NEW n \in Nat, n \in T PROVE n + 1 \in T
  <2> SUFFICES ASSUME n + 1 <= Len(levels) PROVE IsFiniteSet(RecsUpto(levels, side, n + 1))  OBVIOUS
  <2>1. /\ n + 1 \in DOMAIN levels /\ IsFiniteSet(RecsUpto(levels, side, n))
        /\ 1 .. n + 1 = 1 .. n \cup {n + 1}
    BY <1>1, <1>4
  <2>2. RecsUpto(levels, side, n + 1) = RecsUpto(levels, side, n) \cup LevelRecs(levels, side, n + 1)
    BY <2>1 DEF RecsUpto
  <2>3. IsFiniteSet(LevelRecs(levels, side, n + 1))  BY <1>2, <2>1
  <2>4. IsFiniteSet(RecsUpto(levels, side, n) \cup LevelRecs(levels, side, n + 1))
    BY <2>1, <2>3, FS_Union
  <2> QED  BY <2>2, <2>4
<1> HIDE DEF T
<1>5. Len(levels) \in T  BY <1>1, <1>3, <1>4, Induct
<1> QED  BY <1>1, <1>5, OrdersAre DEF T

LEMMA LeftsAreOwed ==
  ASSUME NEW levels \in Seq(Level), NEW side
  PROVE  \A r \in OrdersOf(levels, side) : r.left \in Nat \ {0} /\ r.side = side
<1>1. ASSUME NEW i \in DOMAIN levels, NEW k \in DOMAIN levels[i].orders
      PROVE  levels[i].orders[k] \in Rest
  <2>1. levels[i] \in Level  OBVIOUS
  <2>2. levels[i].orders \in Seq(Rest)  BY <2>1 DEF Level
  <2> QED  BY <2>2
<1>2. \A q, x : At(levels, q, x) => x \in Rest  BY <1>1 DEF At, Has
<1>3. \A q : \A x \in Rest : rec(side, q, x).left \in Nat \ {0} /\ rec(side, q, x).side = side
  <2>1. \A x \in Rest : x.left \in Nat \ {0}  BY BookAssumption DEF Rest
  <2> QED  BY <2>1 DEF rec
<1> QED  BY <1>2, <1>3, OrdersAre

-----------------------------------------------------------------------------
(* Each call is one of the abstract book's. *)

\* What the loops make of the other side, as the abstract book says it.
Traded(o, C, others, m, side) ==
  /\ m.left \in Nat /\ m.left <= o.qty
  /\ Reference!SumFunctionOnSet(given(C, o.qty), C) = o.qty - m.left
  /\ OrdersOf(m.levels, side) =
       (others \ C) \cup {[r EXCEPT !.left = @ - given(C, o.qty)[r]] : r \in {s \in C : given(C, o.qty)[s] < s.left}}
  /\ m.left < o.qty =>
       m.last = (CHOOSE r \in C : /\ given(C, o.qty)[r] > 0
                                  /\ \A s \in C : given(C, o.qty)[s] > 0 => ~Reference!Before(r, s)).price

LEMMA MatchTrades ==
  ASSUME NEW other \in Seq(Level), NEW o, AnOrder(o), Ordered(Against(o), other),
         NEW now \in Nat, Timed(other, now), NEW side, side = Side(Against(o)),
         NEW C, C = {r \in OrdersOf(other, side) : crosses(o, r.price)},
         NEW m, m = match(o, other)
  PROVE  /\ Traded(o, C, OrdersOf(other, side), m, side)
         /\ m.levels \in Seq(Level) /\ Timed(m.levels, now)
<1> DEFINE t == Against(o)
           R == OrdersOf(other, side)
           g == given(C, o.qty)
           good(r) == g[r] > 0 /\ \A s \in C : g[s] > 0 => ~Reference!Before(r, s)
<1>1. o.qty \in Nat /\ t \in Limits /\ Stops(o, t)
  <2>1. o.qty \in Nat  BY BookAssumption DEF AnOrder
  <2>2. t \in Limits  BY DEF Against, Limits
  <2> QED  BY <2>1, <2>2, OrdersStop
<1>2. RecsUpto(other, side, Len(other)) = R /\ C = Crossed(o, other, side, Len(other))
  BY OrdersAre DEF Crossed
<1>3. IsFiniteSet(C) /\ C \in SUBSET R /\ \A r \in C : r.left \in Nat \ {0}
  <2>1. IsFiniteSet(R) /\ C \in SUBSET R  BY FiniteOrders
  <2>2. \A r \in R : r.left \in Nat \ {0}  BY LeftsAreOwed
  <2> HIDE DEF R
  <2> QED  BY <2>1, <2>2, FS_Subset
<1> HIDE DEF R
<1>4. PICK l : /\ Ledger(l) /\ l.all = C /\ l.qty = o.qty /\ l.gives = given(C, o.qty)
               /\ l.out[C] = Reference!SumFunctionOnSet(given(C, o.qty), C)
  <2>1. \E l : LedgerOf(l, C, o.qty)  BY <1>1, <1>3, LedgerExists
  <2> QED  BY <2>1 DEF LedgerOf
<1>5. SideFed(o, l, other, side, now, Len(other), m)
  <2>1. Ordered(t, other) /\ l.all = Crossed(o, other, Side(t), Len(other)) /\ side = Side(t)
    BY <1>2, <1>4
  <2> HIDE DEF t
  <2> QED  BY <1>1, <1>4, <2>1, SideIsFed
<1>6. MatchedTo(o, t, other, Len(other), m)
  <2> HIDE DEF t
  <2>1. Ordered(t, other)  BY DEF t
  <2> QED  BY <1>1, <2>1, MatchingResult
<1>7. m.left \in Nat /\ m.left <= o.qty /\ m.levels \in Seq(Level)  BY <1>6 DEF MatchedTo
<1>8. /\ Fed(l, C, m.left) /\ RecsUpto(m.levels, side, Len(m.levels)) = Kept(l, C) \cup (R \ C)
      /\ Timed(m.levels, now)
      /\ m.left < o.qty => \A w : Latest(l, C, w) => w.price = m.last
  BY <1>2, <1>4, <1>5 DEF SideFed, Beyond
<1>9. Reference!SumFunctionOnSet(given(C, o.qty), C) = o.qty - m.left
  BY <1>4, <1>8 DEF Fed
<1>10. OrdersOf(m.levels, side) = (R \ C) \cup {[r EXCEPT !.left = @ - g[r]] : r \in {s \in C : g[s] < s.left}}
  <2>1. OrdersOf(m.levels, side) = RecsUpto(m.levels, side, Len(m.levels))  BY <1>7, OrdersAre
  <2>2. Kept(l, C) = {[r EXCEPT !.left = @ - g[r]] : r \in {s \in C : g[s] < s.left}}
    BY <1>4 DEF Kept
  <2> QED  BY <1>8, <2>1, <2>2
<1>11. ASSUME m.left < o.qty PROVE m.last = (CHOOSE r \in C : good(r)).price
  <2>1. \A w : Latest(l, C, w) <=> w \in C /\ good(w)  BY <1>4 DEF Latest
  <2>2. \E w \in C : Latest(l, C, w)  BY <1>4, <1>8, <1>11 DEF Fed
  <2> HIDE DEF good
  <2>3. \E w \in C : good(w)  BY <2>1, <2>2
  <2>4. (CHOOSE r \in C : good(r)) \in C /\ good(CHOOSE r \in C : good(r))  BY <2>3
  <2>5. Latest(l, C, CHOOSE r \in C : good(r))  BY <2>1, <2>4
  <2> QED  BY <1>8, <1>11, <2>5
<1> HIDE DEF g
<1>12. Traded(o, C, R, m, side)
  BY <1>7, <1>9, <1>10, <1>11 DEF Traded, g
<1> QED  BY <1>7, <1>8, <1>12 DEF R

\* Resting, and cancelling.
RestsIn(levels, mine, o, left, side, now) ==
  /\ OrdersOf(levels, side) =
       OrdersOf(mine, side)
       \cup {[id |-> o.id, side |-> side, price |-> o.price, left |-> left, seq |-> now + 1]}
  /\ Timed(levels, now + 1)

LEMMA InsertRests ==
  ASSUME NEW mine \in Seq(Level), NEW o, Sound(o), Ordered(o.type, mine), NEW side,
         NEW left \in Nat \ {0}, left <= o.qty, NEW now \in Nat, Timed(mine, now), o.seq = now + 1
  PROVE  RestsIn(insert(mine, o, left), mine, o, left, side, now)
<1> DEFINE res == insert(mine, o, left)
           r == [id |-> o.id, left |-> left, seq |-> o.seq]
           y == [id |-> o.id, side |-> side, price |-> o.price, left |-> left, seq |-> now + 1]
<1>1. /\ res \in Seq(Level)
      /\ \A q, x : At(res, q, x) <=> At(mine, q, x) \/ (q = o.price /\ x = r)
      /\ \A n \in Nat : Timed(mine, n) /\ n < o.seq => Timed(res, o.seq)
  BY InsertResult
<1>2. rec(side, o.price, r) = y  BY DEF rec
<1> HIDE DEF res, r, y
<1>3. OrdersOf(res, side) = OrdersOf(mine, side) \cup {y}
  <2>1. \A z : z \in OrdersOf(res, side) <=> \E q, x : At(res, q, x) /\ z = rec(side, q, x)
    BY <1>1, OrdersAre
  <2>2. \A z : z \in OrdersOf(mine, side) <=> \E q, x : At(mine, q, x) /\ z = rec(side, q, x)
    BY OrdersAre
  <2> QED  BY <1>1, <1>2, <2>1, <2>2
<1>4. Timed(res, now + 1)
  <2>1. now < o.seq  OBVIOUS
  <2> QED  BY <1>1, <2>1
<1> QED  BY <1>3, <1>4 DEF RestsIn, res, y

LEMMA StillTimed == ASSUME NEW levels \in Seq(Level), NEW now \in Nat, Timed(levels, now)
                    PROVE  Timed(levels, now + 1)
<1>1. ASSUME NEW i \in DOMAIN levels, NEW x, Has(levels[i].orders, x) PROVE x.seq <= now + 1
  <2>1. levels[i] \in Level /\ x.seq <= now  BY <1>1 DEF Timed
  <2>2. levels[i].orders \in Seq(Rest)  BY <2>1 DEF Level
  <2>3. x \in Rest  BY <1>1, <2>2 DEF Has
  <2>4. x.seq \in Nat  BY <2>3 DEF Rest
  <2> QED  BY <2>1, <2>4
<1> QED  BY <1>1 DEF Timed

LEMMA WithoutOrder ==
  ASSUME NEW levels \in Seq(Level), NEW id, NEW side, Once(levels)
  PROVE  /\ OrdersOf(without(levels, id), side) = {r \in OrdersOf(levels, side) : r.id # id}
         /\ \A now : Timed(levels, now) => Timed(without(levels, id), now)
<1> DEFINE res == without(levels, id)
<1>1. /\ res \in Seq(Level) /\ ~Holds(res, id)
      /\ \A q, x : At(res, q, x) => At(levels, q, x)
      /\ \A q, x : At(levels, q, x) /\ x.id # id => At(res, q, x)
      /\ \A now : Timed(levels, now) => Timed(res, now)
  BY WithoutResult
<1> HIDE DEF res
<1>2. \A q, x : At(res, q, x) => x.id # id  BY <1>1 DEF At, Has, Holds, HasId
<1>3. \A z : z \in OrdersOf(res, side) <=> \E q, x : At(res, q, x) /\ z = rec(side, q, x)
  BY <1>1, OrdersAre
<1>4. \A z : z \in OrdersOf(levels, side) <=> \E q, x : At(levels, q, x) /\ z = rec(side, q, x)
  BY OrdersAre
<1>5. \A q, x : rec(side, q, x).id = x.id  BY DEF rec
<1>6. OrdersOf(res, side) = {r \in OrdersOf(levels, side) : r.id # id}
  BY <1>1, <1>2, <1>3, <1>4, <1>5
<1> QED  BY <1>1, <1>6 DEF res

\* The orders of a book, and what one that comes in makes of them.
BookOrders(b) == OrdersOf(b.bids, "buy") \cup OrdersOf(b.asks, "sell")
sideOf(o)     == IF o.type \in Buys THEN "buy" ELSE "sell"

Submitted(b, o, now, C, m, nb) ==
  /\ C = {r \in BookOrders(b) :
            /\ r.side # sideOf(o)
            /\ o.type \in Limits => IF sideOf(o) = "buy" THEN r.price <= o.price ELSE r.price >= o.price}
  /\ m.left \in Nat /\ m.left <= o.qty
  /\ Reference!SumFunctionOnSet(given(C, o.qty), C) = o.qty - m.left
  /\ m.left < o.qty =>
       m.last = (CHOOSE r \in C : /\ given(C, o.qty)[r] > 0
                                  /\ \A s \in C : given(C, o.qty)[s] > 0 => ~Reference!Before(r, s)).price
  /\ BookOrders(nb) =
       (BookOrders(b) \ C)
       \cup {[r EXCEPT !.left = @ - given(C, o.qty)[r]] : r \in {s \in C : given(C, o.qty)[s] < s.left}}
       \cup (IF o.type \in Limits /\ m.left > 0
             THEN {[id |-> o.id, side |-> sideOf(o), price |-> o.price, left |-> m.left, seq |-> now + 1]}
             ELSE {})

LEMMA SubmitIsOne ==
  ASSUME NEW b, GoodBook(b), NEW now \in Nat, Timed(b.bids, now), Timed(b.asks, now),
         NEW o, AnOrder(o), o.seq = now + 1
  PROVE  /\ \E C, m : /\ Submitted(b, o, now, C, m, Submit(b, o).book)
                      /\ Submit(b, o).fill = fillOf(o, m.left, m.last)
         /\ Timed(Submit(b, o).book.bids, now + 1) /\ Timed(Submit(b, o).book.asks, now + 1)
<1> DEFINE buys == o.type \in Buys
           other == IF buys THEN b.asks ELSE b.bids
           mine == IF buys THEN b.bids ELSE b.asks
           m == match(o, other)
           rests == o.type \in Limits /\ m.left > 0
           mine2 == IF rests THEN insert(mine, o, m.left) ELSE mine
           nb == Submit(b, o).book
           side == sideOf(o)
           against == Side(Against(o))
           C == {r \in OrdersOf(other, against) : crosses(o, r.price)}
           after == {[r EXCEPT !.left = @ - given(C, o.qty)[r]] : r \in {s \in C : given(C, o.qty)[s] < s.left}}
           rest == IF rests
                   THEN {[id |-> o.id, side |-> side, price |-> o.price, left |-> m.left, seq |-> now + 1]}
                   ELSE {}
<1>1. /\ nb.bids = (IF buys THEN mine2 ELSE m.levels) /\ nb.asks = (IF buys THEN m.levels ELSE mine2)
      /\ Submit(b, o).fill = fillOf(o, m.left, m.last)
  BY DEF Submit
<1>2. /\ mine \in Seq(Level) /\ other \in Seq(Level)
      /\ Ordered(SideOf(o), mine) /\ Ordered(Against(o), other)
      /\ Timed(mine, now) /\ Timed(other, now)
  <2>1. CASE buys  BY <2>1 DEF GoodBook, SideOf, Against
  <2>2. CASE ~buys  BY <2>2 DEF GoodBook, SideOf, Against
  <2> QED  BY <2>1, <2>2
<1>3. /\ buys => side = "buy" /\ against = "sell"
      /\ ~buys => side = "sell" /\ against = "buy"
  BY DEF sideOf, Side, Against
<1>4. BookOrders(b) = OrdersOf(mine, side) \cup OrdersOf(other, against)
  BY <1>3 DEF BookOrders
<1> HIDE DEF nb
<1>5. BookOrders(nb) = OrdersOf(mine2, side) \cup OrdersOf(m.levels, against)
  <2> HIDE DEF mine2, m, side, against
  <2> QED  BY <1>1, <1>3 DEF BookOrders
<1> HIDE DEF mine, other
<1>6. /\ Traded(o, C, OrdersOf(other, against), m, against)
      /\ m.levels \in Seq(Level) /\ Timed(m.levels, now)
  <2> HIDE DEF m, C, against
  <2>1. m = match(o, other) /\ against = Side(Against(o))  BY DEF m, against
  <2>2. C = {r \in OrdersOf(other, against) : crosses(o, r.price)}  BY DEF C
  <2> QED  BY <1>2, <2>1, <2>2, MatchTrades
<1> HIDE DEF m, side, against
<1>7. m.left \in Nat /\ m.left <= o.qty  BY <1>6 DEF Traded
<1>8. OrdersOf(mine2, side) = OrdersOf(mine, side) \cup rest /\ Timed(mine2, now + 1)
  <2>1. CASE rests
    <3>1. o.type \in Limits /\ m.left \in Nat \ {0}  BY <1>7, <2>1
    <3>2. Sound(o) /\ Ordered(o.type, mine)
      <4>1. Sound(o)  BY <3>1 DEF Sound, AnOrder
      <4>2. Ordered(o.type, mine)  BY <1>2, <3>1 DEF Ordered, better, SideOf, Limits, Buys
      <4> QED  BY <4>1, <4>2
    <3>3. mine2 = insert(mine, o, m.left)
          /\ rest = {[id |-> o.id, side |-> side, price |-> o.price, left |-> m.left, seq |-> now + 1]}
      BY <2>1
    <3> HIDE DEF mine2, rest
    <3>4. RestsIn(mine2, mine, o, m.left, side, now)
      BY <1>2, <1>7, <3>1, <3>2, <3>3, InsertRests
    <3> QED  BY <3>3, <3>4 DEF RestsIn
  <2>2. CASE ~rests
    <3>1. mine2 = mine /\ rest = {}  BY <2>2
    <3> HIDE DEF mine2, rest
    <3> QED  BY <1>2, <3>1, StillTimed
  <2> QED  BY <2>1, <2>2
<1> HIDE DEF mine2
<1>9. Timed(m.levels, now + 1)  BY <1>6, StillTimed
<1>10. Timed(nb.bids, now + 1) /\ Timed(nb.asks, now + 1)  BY <1>1, <1>8, <1>9 DEF nb
<1>11. /\ \A r \in OrdersOf(mine, side) : r.side = side
       /\ \A r \in OrdersOf(other, against) : r.side = against
  BY <1>2, LeftsAreOwed
<1>12. C = {r \in BookOrders(b) :
              /\ r.side # side
              /\ o.type \in Limits => IF side = "buy" THEN r.price <= o.price ELSE r.price >= o.price}
  <2>1. o.type \in Buys \cup Sells  BY DEF AnOrder
  <2>2. \A p : crosses(o, p) <=> (o.type \in Limits => IF side = "buy" THEN p <= o.price ELSE p >= o.price)
    <3>1. CASE buys
      <4>1. o.type \in {"LIMIT_BUY", "MARKET_BUY"}  BY <3>1 DEF Buys
      <4> QED  BY <1>3, <3>1, <4>1 DEF crosses, Limits
    <3>2. CASE ~buys
      <4>1. o.type \in {"LIMIT_SELL", "MARKET_SELL"}  BY <2>1, <3>2 DEF Sells
      <4> QED  BY <1>3, <3>2, <4>1 DEF crosses, Limits
    <3> QED  BY <3>1, <3>2
  <2>3. side # against  BY <1>3
  <2> HIDE DEF buys
  <2> QED  BY <1>4, <1>11, <2>2, <2>3
<1>13. OrdersOf(m.levels, against) = (OrdersOf(other, against) \ C) \cup after  BY <1>6 DEF Traded
<1>14. BookOrders(nb) = (BookOrders(b) \ C) \cup after \cup rest
  <2>1. OrdersOf(mine, side) \cap C = {}
    <3>1. side # against  BY <1>3
    <3> QED  BY <1>11, <3>1
  <2> HIDE DEF C, after, rest
  <2> QED  BY <1>4, <1>5, <1>8, <1>13, <2>1
<1>15. Submitted(b, o, now, C, m, nb)
  <2>1. /\ m.left \in Nat /\ m.left <= o.qty
        /\ Reference!SumFunctionOnSet(given(C, o.qty), C) = o.qty - m.left
        /\ m.left < o.qty =>
             m.last = (CHOOSE r \in C : /\ given(C, o.qty)[r] > 0
                                        /\ \A s \in C : given(C, o.qty)[s] > 0 => ~Reference!Before(r, s)).price
    <3> HIDE DEF C
    <3> QED  BY <1>6 DEF Traded
  <2> HIDE DEF C
  <2> QED  BY <1>12, <1>14, <2>1 DEF Submitted, side
<1> HIDE DEF C
<1> QED  BY <1>1, <1>10, <1>15 DEF nb

\* While no id came again a cancel takes the order away, or there is none.
LEMMA CancelIsOne ==
  ASSUME NEW b, GoodBook(b), KnownIds(b), NEW id
  PROVE  LET hit == {r \in BookOrders(b) : r.id = id} IN
         /\ BookOrders(Cancel(b, id).book) = BookOrders(b) \ hit
         /\ Cancel(b, id).fill = Fill(IF hit = {} THEN "NOT_FOUND" ELSE "CANCELLED", 0, 0, 0)
<1> DEFINE hit == {r \in BookOrders(b) : r.id = id}
           B == OrdersOf(b.bids, "buy")
           S == OrdersOf(b.asks, "sell")
<1>0. b.bids \in Seq(Level) /\ b.asks \in Seq(Level)  BY DEF GoodBook
<1>1. /\ \A x : Holds(b.bids, x) <=> \E r \in B : r.id = x
      /\ \A x : Holds(b.asks, x) <=> \E r \in S : r.id = x
  <2>1. \A x : Holds(b.bids, x) => \E r \in B : r.id = x  BY <1>0, RestingOf
  <2>2. \A r \in B : Holds(b.bids, r.id)  BY <1>0, RestingOf
  <2>3. \A x : Holds(b.asks, x) => \E r \in S : r.id = x  BY <1>0, RestingOf
  <2>4. \A r \in S : Holds(b.asks, r.id)  BY <1>0, RestingOf
  <2> HIDE DEF B, S
  <2> QED  BY <2>1, <2>2, <2>3, <2>4
<1>2. BookOrders(b) = B \cup S  BY DEF BookOrders
<1>3. id \in b.orders <=> hit # {}
  <2> HIDE DEF B, S
  <2>1. id \in b.orders <=> Holds(b.bids, id) \/ Holds(b.asks, id)  BY DEF KnownIds
  <2> QED  BY <1>1, <1>2, <2>1
<1>4. CASE id \notin b.orders
  <2>1. Cancel(b, id).book = b /\ Cancel(b, id).fill = Fill("NOT_FOUND", 0, 0, 0)
    BY <1>4 DEF Cancel
  <2>2. hit = {}  BY <1>3, <1>4
  <2> HIDE DEF hit
  <2> QED  BY <2>1, <2>2 DEF hit
<1>5. CASE id \in b.orders
  <2> DEFINE bids == without(b.bids, id)
             asks == without(b.asks, id)
             asks2 == IF bids = b.bids THEN asks ELSE b.asks
             nb == Cancel(b, id).book
  <2>1. nb.bids = bids /\ nb.asks = asks2 /\ Cancel(b, id).fill = Fill("CANCELLED", 0, 0, 0)
    BY <1>5 DEF Cancel, cancelled
  <2>2. Once(b.bids) /\ Once(b.asks) /\ ~(Holds(b.bids, id) /\ Holds(b.asks, id))  BY DEF KnownIds
  <2>3. OrdersOf(bids, "buy") = {r \in B : r.id # id}  BY <1>0, <2>2, WithoutOrder
  <2>4. OrdersOf(asks, "sell") = {r \in S : r.id # id}  BY <1>0, <2>2, WithoutOrder
  <2>5. Holds(b.bids, id) => bids # b.bids  BY <1>0, WithoutResult
  <2>6. ~Holds(b.bids, id) => bids = b.bids  BY <1>0, WithoutResult
  <2> HIDE DEF bids, asks, nb, B, S
  <2>7. OrdersOf(asks2, "sell") = {r \in S : r.id # id}
    <3>1. CASE Holds(b.bids, id)
      <4>1. asks2 = b.asks /\ ~Holds(b.asks, id)  BY <2>2, <2>5, <3>1
      <4>2. \A r \in S : r.id # id  BY <1>1, <4>1
      <4>3. {r \in S : r.id # id} = S  BY <4>2
      <4> QED  BY <4>1, <4>3 DEF S
    <3>2. CASE ~Holds(b.bids, id)
      <4>1. asks2 = asks  BY <2>6, <3>2
      <4> QED  BY <2>4, <4>1
    <3> QED  BY <3>1, <3>2
  <2> HIDE DEF asks2
  <2>8. BookOrders(nb) = BookOrders(b) \ hit
    <3>1. BookOrders(nb) = {r \in B : r.id # id} \cup {r \in S : r.id # id}
      BY <2>1, <2>3, <2>7 DEF BookOrders
    <3> QED  BY <1>2, <3>1
  <2>9. hit # {}  BY <1>3, <1>5
  <2> HIDE DEF hit
  <2> QED  BY <2>1, <2>8, <2>9 DEF hit, nb
<1> QED  BY <1>4, <1>5

LEMMA CancelTimed ==
  ASSUME NEW b, GoodBook(b), NEW id, NEW now, Timed(b.bids, now), Timed(b.asks, now)
  PROVE  Timed(Cancel(b, id).book.bids, now) /\ Timed(Cancel(b, id).book.asks, now)
<1>1. b.bids \in Seq(Level) /\ b.asks \in Seq(Level)  BY DEF GoodBook
<1>2. Timed(without(b.bids, id), now) /\ Timed(without(b.asks, id), now)  BY <1>1, WithoutResult
<1>3. CASE id \notin b.orders  BY <1>3 DEF Cancel
<1>4. CASE id \in b.orders
  <2> DEFINE nb == Cancel(b, id).book
  <2>1. /\ nb.bids = without(b.bids, id)
        /\ nb.asks = without(b.asks, id) \/ nb.asks = b.asks
    BY <1>4 DEF Cancel, cancelled
  <2> HIDE DEF nb
  <2>2. Timed(nb.bids, now) /\ Timed(nb.asks, now)  BY <1>2, <2>1
  <2> QED  BY <2>2 DEF nb
<1> QED  BY <1>3, <1>4

-----------------------------------------------------------------------------
(* The refinement. *)

\* The numbers of the orders tell when they came.
TimeInv == BookInv /\ arrivals \in Nat /\ Timed(book.bids, arrivals) /\ Timed(book.asks, arrivals)

LEMMA TimeInvAtInit == Init => TimeInv /\ Reference!Init
<1> SUFFICES ASSUME Init PROVE TimeInv /\ Reference!Init  OBVIOUS
<1>1. /\ book.bids = <<>> /\ book.asks = <<>> /\ arrivals = 0
      /\ fill = [status |-> "none", price |-> 0, qty |-> 0, left |-> 0]
  BY DEF Init, NewBook, Fill
<1>2. \A now : Timed(<<>>, now)  BY DEF Timed
<1>3. \A side : OrdersOf(<<>>, side) = {}  BY DEF OrdersOf
<1>4. TimeInv  BY <1>1, <1>2, BookInvAtInit DEF TimeInv
<1>5. Reference!Init  BY <1>1, <1>3 DEF Reference!Init, Reference!NoFill, Resting
<1> QED  BY <1>4, <1>5

LEMMA RestingAre == Resting = BookOrders(book) /\ Resting' = BookOrders(book')
BY DEF Resting, BookOrders, OrdersOf

LEMMA SubmitIsReferences ==
  ASSUME TimeInv, Prices # {}, NEW o \in LimitOrder \cup MarketOrder, SubmitOrder(o)
  PROVE  Reference!Next /\ TimeInv'
<1>1. AnOrder(o) /\ o.type # "CANCEL"  BY OrdersAreOrders
<1>2. /\ book' = Submit(book, o).book /\ fill' = Submit(book, o).fill
      /\ arrivals' = arrivals + 1 /\ o.seq = arrivals + 1
  BY <1>1 DEF SubmitOrder, ProcessOrder
<1>3. /\ GoodBook(book) /\ arrivals \in Nat
      /\ Timed(book.bids, arrivals) /\ Timed(book.asks, arrivals)
  BY DEF TimeInv, BookInv
<1>4. /\ \E C, m : /\ Submitted(book, o, arrivals, C, m, Submit(book, o).book)
                   /\ Submit(book, o).fill = fillOf(o, m.left, m.last)
      /\ Timed(Submit(book, o).book.bids, arrivals + 1) /\ Timed(Submit(book, o).book.asks, arrivals + 1)
  BY <1>1, <1>2, <1>3, SubmitIsOne
<1>5. TimeInv'
  <2>1. BookInv'  BY SubmitOrderKeeps DEF TimeInv
  <2>2. Timed(book'.bids, arrivals') /\ Timed(book'.asks, arrivals')  BY <1>2, <1>4
  <2>3. Timed(book.bids, arrivals)' /\ Timed(book.asks, arrivals)'
    BY <2>2 DEF Timed, Rising, Has
  <2> QED  BY <1>2, <1>3, <2>1, <2>3 DEF TimeInv
<1>6. PICK C, m : /\ Submitted(book, o, arrivals, C, m, book')
                  /\ fill' = fillOf(o, m.left, m.last)
  BY <1>2, <1>4
<1> DEFINE side == sideOf(o)
           limit == o.type \in Limits
<1>7. PICK price \in Prices : limit => price = o.price  BY <1>1 DEF AnOrder
<1>8. o.qty \in Nat \ {0} /\ o.qty \in Quantities /\ o.id \in Ids
  BY <1>1, BookAssumption DEF AnOrder
<1> DEFINE g == given(C, o.qty)
           good(r) == g[r] > 0 /\ \A s \in C : g[s] > 0 => ~Reference!Before(r, s)
           after == {[r EXCEPT !.left = @ - g[r]] : r \in {s \in C : g[s] < s.left}}
           rest == IF limit /\ m.left > 0
                   THEN {[id |-> o.id, side |-> side, price |-> o.price, left |-> m.left,
                          seq |-> arrivals + 1]}
                   ELSE {}
<1>9. /\ C = {r \in BookOrders(book) :
                /\ r.side # side
                /\ limit => IF side = "buy" THEN r.price <= o.price ELSE r.price >= o.price}
      /\ m.left \in Nat /\ m.left <= o.qty
      /\ Reference!SumFunctionOnSet(g, C) = o.qty - m.left
      /\ m.left < o.qty => m.last = (CHOOSE r \in C : good(r)).price
      /\ BookOrders(book') = (BookOrders(book) \ C) \cup after \cup rest
  BY <1>6 DEF Submitted
<1>10. Reference!Crossing(side, limit, price) = C
  <2> HIDE DEF side
  <2>1. Resting = BookOrders(book)  BY RestingAre
  <2> QED  BY <1>7, <1>9, <2>1 DEF Reference!Crossing
<1> DEFINE traded == Reference!SumFunctionOnSet(g, C)
           left == o.qty - traded
           rest2 == IF limit /\ left > 0
                    THEN {[id |-> o.id, side |-> side, price |-> price, left |-> left,
                           seq |-> arrivals + 1]}
                    ELSE {}
           last == CHOOSE r \in C : good(r)
<1> HIDE DEF good, g, after
<1>11. traded = o.qty - m.left /\ left = m.left  BY <1>8, <1>9
<1>12. Resting' = (Resting \ C) \cup after \cup rest2
  <2>1. rest2 = rest
    <3> HIDE DEF limit, traded, left, side
    <3> QED  BY <1>7, <1>11
  <2> HIDE DEF rest2, rest
  <2> QED  BY <1>9, <2>1, RestingAre
<1> HIDE DEF traded, left, last
<1>13. fill' = IF traded = 0
               THEN [status |-> IF limit THEN "PENDING" ELSE "REJECTED", price |-> 0,
                     qty |-> 0, left |-> IF limit THEN o.qty ELSE 0]
               ELSE [status |-> IF left > 0 THEN "PARTIAL" ELSE "FILLED",
                     price |-> last.price, qty |-> traded, left |-> left]
  <2>1. CASE m.left = o.qty
    <3>1. traded = 0  BY <1>8, <1>11, <2>1
    <3>2. fill' = IF limit THEN Fill("PENDING", 0, 0, o.qty) ELSE Fill("REJECTED", 0, 0, 0)
      <4>1. fill' = fillOf(o, m.left, m.last)  BY <1>6
      <4>2. fillOf(o, m.left, m.last) = IF limit THEN Fill("PENDING", 0, 0, o.qty)
                                        ELSE Fill("REJECTED", 0, 0, 0)
        BY <1>8, <2>1 DEF fillOf
      <4> QED  BY <4>1, <4>2
    <3> QED  BY <3>1, <3>2 DEF Fill
  <2>2. CASE m.left # o.qty
    <3>1. m.left < o.qty /\ traded # 0  BY <1>8, <1>9, <1>11, <2>2
    <3>2. fill' = IF m.left > 0 THEN Fill("PARTIAL", m.last, o.qty - m.left, m.left)
                  ELSE Fill("FILLED", m.last, o.qty, 0)
      BY <1>6, <1>9, <2>2, <3>1 DEF fillOf
    <3>3. m.last = last.price  BY <1>9, <3>1 DEF last
    <3>4. ~(m.left > 0) => m.left = 0 /\ o.qty - m.left = o.qty  BY <1>8, <1>9
    <3> QED  BY <1>11, <3>1, <3>2, <3>3, <3>4 DEF Fill
  <2> QED  BY <2>1, <2>2
<1>14. Reference!Submit(o.id, side, limit, price, o.qty)
  <2>1. /\ g = [r \in C |-> Reference!Taken(r, C, o.qty)]  BY DEF g, given
  <2> QED
    BY <1>2, <1>10, <1>12, <1>13, <2>1
    DEF Reference!Submit, traded, left, last, good, after
<1>15. side \in Reference!Sides /\ limit \in BOOLEAN  BY DEF Reference!Sides, sideOf
<1>16. Reference!Next
  <2> HIDE DEF side, limit
  <2> QED  BY <1>7, <1>8, <1>14, <1>15 DEF Reference!Next
<1> QED  BY <1>5, <1>16

LEMMA CancelIsReferences ==
  ASSUME TimeInv, NEW id \in Ids, CancelOrder(id)
  PROVE  (reused' \/ Reference!Next) /\ TimeInv'
<1>1. /\ book' = Cancel(book, id).book /\ fill' = Cancel(book, id).fill
      /\ arrivals' = arrivals /\ reused' = reused
  BY DEF CancelOrder, ProcessOrder
<1>2. /\ GoodBook(book) /\ arrivals \in Nat /\ reused \in BOOLEAN /\ (~reused => KnownIds(book))
      /\ Timed(book.bids, arrivals) /\ Timed(book.asks, arrivals)
  BY DEF TimeInv, BookInv
<1>3. TimeInv'
  <2>1. BookInv'  BY CancelOrderKeeps DEF TimeInv
  <2>2. Timed(book'.bids, arrivals') /\ Timed(book'.asks, arrivals')
    BY <1>1, <1>2, CancelTimed
  <2>3. Timed(book.bids, arrivals)' /\ Timed(book.asks, arrivals)'
    BY <2>2 DEF Timed, Rising, Has
  <2> QED  BY <1>1, <1>2, <2>1, <2>3 DEF TimeInv
<1>4. ASSUME ~reused PROVE Reference!Next
  <2> DEFINE hit == {r \in Resting : r.id = id}
  <2>1. /\ Resting' = Resting \ hit
        /\ fill' = Fill(IF hit = {} THEN "NOT_FOUND" ELSE "CANCELLED", 0, 0, 0)
    BY <1>1, <1>2, <1>4, CancelIsOne, RestingAre
  <2>2. fill' = [Reference!NoFill EXCEPT !.status = IF hit = {} THEN "NOT_FOUND" ELSE "CANCELLED"]
    <3> HIDE DEF hit
    <3> QED  BY <2>1 DEF Fill, Reference!NoFill
  <2>3. Reference!Cancel(id)  BY <1>1, <2>1, <2>2 DEF Reference!Cancel
  <2> QED  BY <2>3 DEF Reference!Next
<1>5. reused' \/ Reference!Next
  <2>1. reused' = reused  BY <1>1
  <2> QED  BY <1>4, <2>1, Zenon
<1> QED  BY <1>3, <1>5

LEMMA TimeStep ==
  ASSUME Prices # {}
  PROVE  TimeInv /\ [Next]_vars
           => TimeInv' /\ [reused' \/ Reference!Next]_<<Resting, arrivals, fill>>
<1> SUFFICES ASSUME TimeInv, [Next]_vars
             PROVE  TimeInv' /\ [reused' \/ Reference!Next]_<<Resting, arrivals, fill>>
  OBVIOUS
<1>1. ASSUME NEW o \in LimitOrder \cup MarketOrder, SubmitOrder(o)
      PROVE  TimeInv' /\ Reference!Next
  BY <1>1, SubmitIsReferences
<1>2. ASSUME NEW id \in Ids, CancelOrder(id) PROVE TimeInv' /\ (reused' \/ Reference!Next)
  BY <1>2, CancelIsReferences
<1>3. CASE UNCHANGED vars
  <2>1. UNCHANGED <<book, arrivals, fill>>  BY <1>3 DEF vars
  <2>2. BookInv'  BY BookInvIsKept DEF TimeInv
  <2>3. TimeInv'  BY <2>1, <2>2 DEF TimeInv, Timed, Rising, Has
  <2>4. UNCHANGED <<Resting, arrivals, fill>>  BY <2>1, RestingAre
  <2> QED  BY <2>3, <2>4
<1> QED  BY <1>1, <1>2, <1>3 DEF Next

\* The levels, the loops over them and the emptied levels implement price-time
\* priority for every order book: whoever crosses more of an order's price, or
\* came first at it, trades first, until nothing of the order is left
\* (order_book.go:106-186).
THEOREM LoopsArePriceTime == ASSUME Prices # {} PROVE Spec => PriceTime
<1>1. TimeInv /\ [Next]_vars
        => TimeInv' /\ [reused' \/ Reference!Next]_<<Resting, arrivals, fill>>
  BY TimeStep
<1>2. Init => TimeInv /\ Reference!Init  BY TimeInvAtInit
<1> QED  BY <1>1, <1>2, PTL DEF Spec, PriceTime
=============================================================================
