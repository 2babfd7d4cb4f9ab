------------------------------- MODULE Ranking -------------------------------
(***************************************************************************)
(* How the leaderboard turns metrics into a ranked table and the table     *)
(* into ticker events: scorer/scorer.go of the leaderboard API, its twin   *)
(* in submission-api/handlers/leaderboard.go, the orchestrator's final     *)
(* score and commentary/generator.go.  Rates, scores and norms are exact   *)
(* fractions, a score in hundredths of a point; the code's are floats.     *)
(***************************************************************************)
EXTENDS Integers, FiniteSets, Sequences, SequencesExt

CONSTANTS
  Ranked,        \* contestants
  TPSs, P99s,    \* the values measured
  MaxRate,       \* a correctness rate is rate / MaxRate
  HighTPS        \* "10,000 orders/sec"

ASSUME RankingAssumption ==
  /\ IsFiniteSet(Ranked) /\ TPSs \subseteq Nat /\ P99s \subseteq Nat
  /\ MaxRate \in Nat \ {0} /\ HighTPS \in Nat

VARIABLES
  row,       \* what Redis holds for each contestant; NoRow: nothing
  table,     \* the table of the last cycle, first place first
  prevRank, prevScore,   \* Generator: the last known ones; 0: not seen
  ticker,    \* the events of the last cycle
  told       \* history: the rank known to one who is told where each
             \* contestant came in and then reads the events alone

rankingVars == <<row, table, prevRank, prevScore, ticker, told>>

Rows  == [tps : TPSs, p99 : P99s, rate : 0 .. MaxRate]
NoRow == [tps |-> 0, p99 |-> 0, rate |-> -1]

-----------------------------------------------------------------------------
(* Scores. *)

\* (v - lo) / (hi - lo); a field without a spread counts as all at the top.
norm(v, lo, hi) ==
  IF hi = lo THEN [num |-> 1, den |-> 1] ELSE [num |-> v - lo, den |-> hi - lo]

clamp(v, lo, hi) == IF v < lo THEN lo ELSE IF v > hi THEN hi ELSE v

\* num / den to the nearest integer, halves up.
round2(num, den) == (2 * num + den) \div (2 * den)

\* Mutated form of latencyCredit: slow is good.
latencyAsIs(np) == np.num

\* The numerator of 1 - np.
latencyCredit(np) == np.den - np.num

\* What the extremes of a field are taken of.
tpsIn(field) == {x.tps : x \in field}
p99In(field) == {x.p99 : x \in field}

\* score = 0.40*norm(tps) + 0.40*(1-norm(p99)) + 0.20*correctness
computeCompositeScore(r, field) ==
  LET nt == norm(r.tps, Min(tpsIn(field)), Max(tpsIn(field)))
      np == norm(r.p99, Min(p99In(field)), Max(p99In(field)))
  IN clamp(round2(4000 * nt.num * np.den * MaxRate
                    + 4000 * latencyCredit(np) * nt.den * MaxRate
                    + 2000 * r.rate * nt.den * np.den,
                  nt.den * np.den * MaxRate), 0, 10000)

\* Scores are percentages, in hundredths.
Points == 0 .. 10000

\* The entries of a cycle, not yet in order.
Scored(rows) ==
  LET ids == {c \in Ranked : rows[c] # NoRow}
      field == {rows[c] : c \in ids}
  IN [c \in ids |-> [id |-> c, row |-> rows[c], score |-> computeCompositeScore(rows[c], field)]]

\* The less function of sort.SliceStable.
Before(a, b) ==
  \/ a.score > b.score
  \/ a.score = b.score /\ a.row.rate > b.row.rate
  \/ a.score = b.score /\ a.row.rate = b.row.rate /\ a.row.p99 < b.row.p99

\* Mutated form of nextRank: ranks without gaps.
denseRank(i, rank) == rank + 1

\* rank = i + 1 in the loop over the entries, from 0.
nextRank(i, rank) == i

WithRanks(s) ==
  LET rank[i \in 1 .. Len(s)] ==
        IF i = 1 THEN 1
        ELSE IF s[i - 1].score # s[i].score THEN nextRank(i, rank[i - 1]) ELSE rank[i - 1]
  IN [i \in 1 .. Len(s) |-> [id |-> s[i].id, row |-> s[i].row, score |-> s[i].score, rank |-> rank[i]]]

\* Compute: the entries come in the order of a map, so entries that tie in
\* everything may end up in either order.
Tables(rows) ==
  LET e == Scored(rows) IN
  {WithRanks([i \in DOMAIN order |-> e[order[i]]]) :
     order \in {o \in SetToSeqs(DOMAIN e) :
                  \A i, j \in DOMAIN o : i < j => ~Before(e[o[j]], e[o[i]])}}

-----------------------------------------------------------------------------
(* The ticker. *)

\* Mutated form of Moved: a drop by one place is left out.
MovedFar(e, prev) == prev # 0 /\ (e.rank < prev \/ e.rank > prev + 1)

Moved(e, prev) == prev # 0 /\ e.rank # prev

\* The events about one entry, and the callout for a close race.
EventsOf(e) ==
  LET prev == prevRank[e.id] IN
    (IF prev = 0 /\ e.score > 0 THEN {[kind |-> "new", id |-> e.id, rank |-> e.rank]} ELSE {})
    \cup (IF Moved(e, prev)
          THEN {[kind |-> IF e.rank < prev - 2 THEN "climbs" ELSE IF e.rank < prev THEN "up" ELSE "drops",
                 id |-> e.id, rank |-> e.rank]} ELSE {})
    \cup (IF e.row.tps >= HighTPS /\ prevScore[e.id] < e.score
          THEN {[kind |-> "10k", id |-> e.id, rank |-> 0]} ELSE {})

AllEvents(t) == UNION {EventsOf(e) : e \in Range(t)}

CloseRace(t) == Len(t) >= 3 /\ t[1].score - t[3].score < 500 /\ t[1].score > 0

entryOf(t, c) == CHOOSE e \in Range(t) : e.id = c
onBoard(t) == {e.id : e \in Range(t)}

\* Generator.Diff
Diff(t) ==
  /\ ticker' = AllEvents(t) \cup (IF CloseRace(t) THEN {[kind |-> "close", id |-> t[1].id, rank |-> 0]} ELSE {})
  /\ prevRank' = [c \in Ranked |-> IF c \in onBoard(t) THEN entryOf(t, c).rank ELSE prevRank[c]]
  /\ prevScore' = [c \in Ranked |-> IF c \in onBoard(t) THEN entryOf(t, c).score ELSE prevScore[c]]
  /\ told' = [c \in Ranked |->
       LET said == {ev.rank : ev \in {x \in ticker' : x.id = c /\ x.rank # 0}}
       IN IF told[c] = 0 /\ c \in onBoard(t) THEN entryOf(t, c).rank
          ELSE IF said = {} THEN told[c] ELSE Max(said)]

-----------------------------------------------------------------------------
RankingInit ==
  /\ row = [c \in Ranked |-> NoRow] /\ table = <<>> /\ ticker = {}
  /\ prevRank = [c \in Ranked |-> 0] /\ prevScore = [c \in Ranked |-> 0]
  /\ told = [c \in Ranked |-> 0]

\* One scoring cycle over the rows found in Redis.
Cycle(rows) ==
  /\ row' = rows /\ table' \in Tables(rows) /\ Diff(table')

\* Bound: one contestant's row changes from cycle to cycle.
RankingNext == \E c \in Ranked, r \in Rows \cup {NoRow} : Cycle([row EXCEPT ![c] = r])

RankingSpec == RankingInit /\ [][RankingNext]_rankingVars

-----------------------------------------------------------------------------
(* Properties *)

\* A rank counts those with more points, so that equal scores share it and
\* it does not depend on the order a tie was sorted in; a contestant at least
\* as good as another in throughput, latency and correctness is not ranked
\* below it; and among equal scores correctness and then p99 decide the place
\* in the table.  They do not decide the rank, though the document says that
\* ties break on them, and nobody is left out for having few valid orders
\* (scorer.go:149-193, README.md:341-343).
RanksFollowScores ==
  /\ \A i \in DOMAIN table :
       /\ table[i].rank = 1 + Cardinality({j \in DOMAIN table : table[j].score > table[i].score})
       /\ table[i].score \in Points
  /\ \A a, b \in Range(table) :
       a.row.tps >= b.row.tps /\ a.row.p99 <= b.row.p99 /\ a.row.rate >= b.row.rate => a.rank <= b.rank
  /\ \A i, j \in DOMAIN table : i < j => ~Before(table[j], table[i])

\* When only one contestant's numbers change and none of them for the worse,
\* it does not lose a rank, although the normalisation then moves everybody's
\* score (scorer.go:169-193).
ImprovementNeverHurts ==
  [][\A c \in onBoard(table) \cap onBoard(table') :
       LET a == entryOf(table, c)
           b == entryOf(table', c) IN
       /\ \A d \in Ranked \ {c} : row'[d] = row[d]
       /\ b.row.tps >= a.row.tps /\ b.row.p99 <= a.row.p99 /\ b.row.rate >= a.row.rate
       => b.rank <= a.rank]_table

\* The ticker tells every change of rank, to the right rank, also when a
\* contestant left the board in between: one who knows where each came in
\* and reads the events alone knows everyone's last rank
\* (generator.go:36-56).
TickerTellsTheBoard ==
  \A c \in Ranked :
    /\ told[c] = prevRank[c]
    /\ c \in onBoard(table) => told[c] = entryOf(table, c).rank
=============================================================================
