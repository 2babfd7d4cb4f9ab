---------------------------- MODULE CircuitBreaker ----------------------------
(***************************************************************************)
(* The breaker the bots of a test share (client/circuit_breaker.go).  A    *)
(* bot asks Allow, then sends the requests of its round one by one, gets   *)
(* an answer to each and records the outcome; between these the others go  *)
(* on, so a request may be sent, and an outcome recorded, long after the   *)
(* breaker has changed its state.  Time is two facts: the cooldown since   *)
(* the last trip is over, the window is older than ten seconds.            *)
(***************************************************************************)
EXTENDS Naturals, FiniteSets, Functions

CONSTANTS
  Bot,
  MinTraffic,      \* 20
  HalfOpenNeeded,  \* 3
  Round,           \* requests of a bot's round at most: 1 for a taker or a
                   \* whale, 2 for a spammer, 4 for a market maker
  MaxTotal,        \* bound: requests let into one window
  MaxOutages       \* bound: times the engine goes down

ASSUME BreakerAssumption ==
  /\ MinTraffic \in Nat \ {0} /\ HalfOpenNeeded \in Nat \ {0} /\ Round \in Nat \ {0}
  /\ MaxTotal \in Nat /\ MaxOutages \in Nat

VARIABLES
  state,       \* Closed, Open or HalfOpen
  total, failures, halfOpenOK,
  cooled,      \* time.Since(openedAt) >= openCooldown
  stale,       \* time.Since(windowStart) > 10 s
  bot,         \* each bot: idle, sent, or with an outcome to record
  left,        \* the requests its round has left after this one
  healthy,     \* does the engine answer?
  outages,
  good, bad    \* history: outcomes recorded since the breaker closed or the
               \* window began

breakerVars == <<state, total, failures, halfOpenOK, cooled, stale, bot, left, healthy, outages, good, bad>>
environment == <<healthy, outages>>
breaker     == <<state, total, failures, halfOpenOK>>
bots        == <<bot, left>>
history     == <<good, bad>>

BreakerInit ==
  /\ state = "Closed" /\ total = 0 /\ failures = 0 /\ halfOpenOK = 0
  /\ cooled = FALSE /\ stale = FALSE
  /\ bot = [b \in Bot |-> "idle"] /\ left = [b \in Bot |-> 0]
  /\ healthy = TRUE /\ outages = 0 /\ good = 0 /\ bad = 0

-----------------------------------------------------------------------------
\* The outcomes still to come of the rounds that have begun.
Outstanding == Cardinality({b \in Bot : bot[b] # "idle"}) + FoldFunction(+, 0, left)

\* Mutated form of probing: every request that is let through starts the
\* count of successes again.
probingAgain == state # "Closed"

\* Does this request open the probing?
probing == state = "Open"

\* Allow, and what a bot makes of it: it sends, or waits for its next turn.
Allow(b) ==
  /\ bot[b] = "idle" /\ (total + Outstanding < MaxTotal \/ stale)
  /\ IF state = "Open" /\ ~cooled
     THEN UNCHANGED <<state, halfOpenOK, cooled, bots>>
     ELSE /\ state' = IF probing THEN "HalfOpen" ELSE state
          /\ halfOpenOK' = IF probing THEN 0 ELSE halfOpenOK
          /\ \E n \in 1 .. Round : left' = [left EXCEPT ![b] = n - 1]
          /\ bot' = [bot EXCEPT ![b] = "sent"] /\ UNCHANGED cooled
  /\ UNCHANGED <<total, failures, stale, environment, history>>

\* The engine answers, or the request times out.
Answer(b) ==
  /\ bot[b] = "sent"
  /\ bot' = [bot EXCEPT ![b] = IF healthy THEN "success" ELSE "failure"]
  /\ UNCHANGED <<breaker, cooled, stale, left, environment, history>>

\* Mutated form of atClose: the counts of the window go on.
keptAtClose(n) == n

\* cb.total and cb.failures when the breaker closes.
atClose(n) == 0

\* Is this the success that closes the breaker?
enough == halfOpenOK + 1 >= HalfOpenNeeded

trip == state' = "Open" /\ cooled' = FALSE

\* An outcome while half open: enough successes close it, one failure trips.
Probe(success, t, f) ==
  LET closes == success /\ enough IN
  /\ halfOpenOK' = IF success THEN halfOpenOK + 1 ELSE halfOpenOK
  /\ total' = (IF closes THEN atClose(t) ELSE t) /\ failures' = (IF closes THEN atClose(f) ELSE f)
  /\ \/ closes /\ state' = "Closed" /\ UNCHANGED cooled
     \/ success /\ ~closes /\ UNCHANGED <<state, cooled>>
     \/ ~success /\ trip
  /\ good' = (IF closes \/ stale THEN 0 ELSE good) /\ bad' = (IF closes \/ stale THEN 0 ELSE bad)

\* An outcome while closed or, late, while open.
Count(success, t, f) ==
  /\ total' = t + 1
  /\ failures' = IF success THEN f ELSE f + 1
  /\ good' = (IF stale THEN 0 ELSE good) + (IF success THEN 1 ELSE 0)
  /\ bad'  = (IF stale THEN 0 ELSE bad)  + (IF success THEN 0 ELSE 1)
  /\ IF total' >= MinTraffic /\ 2 * failures' > total'
     THEN trip ELSE UNCHANGED <<state, cooled>>
  /\ UNCHANGED halfOpenOK

\* Record: an old window is forgotten first.  The bot then sends the next
\* request of its round without asking again.
Record(b) ==
  /\ bot[b] \in {"success", "failure"}
  /\ bot' = [bot EXCEPT ![b] = IF left[b] = 0 THEN "idle" ELSE "sent"]
  /\ left' = [left EXCEPT ![b] = IF @ = 0 THEN 0 ELSE @ - 1]
  /\ LET t == IF stale THEN 0 ELSE total
         f == IF stale THEN 0 ELSE failures IN
       IF state = "HalfOpen" THEN Probe(bot[b] = "success", t, f)
       ELSE Count(bot[b] = "success", t, f)
  /\ stale' = FALSE
  /\ UNCHANGED environment

Cool ==
  /\ state = "Open" /\ ~cooled /\ cooled' = TRUE
  /\ UNCHANGED <<breaker, stale, bots, environment, history>>

AgeWindow ==
  /\ ~stale /\ stale' = TRUE
  /\ UNCHANGED <<breaker, cooled, bots, environment, history>>

Fail ==
  /\ healthy /\ outages < MaxOutages
  /\ healthy' = FALSE /\ outages' = outages + 1
  /\ UNCHANGED <<breaker, cooled, stale, bots, history>>

Recover ==
  /\ ~healthy /\ healthy' = TRUE
  /\ UNCHANGED <<breaker, cooled, stale, bots, outages, history>>

BreakerNext ==
  \/ \E b \in Bot : Allow(b) \/ Answer(b) \/ Record(b)
  \/ Cool \/ AgeWindow \/ Fail \/ Recover

\* The bots go on as long as the test lasts, every request ends, and time
\* passes.  The engine may stay down.
BreakerSpec ==
  /\ BreakerInit /\ [][BreakerNext]_breakerVars
  /\ \A b \in Bot : WF_breakerVars(Allow(b)) /\ WF_breakerVars(Answer(b)) /\ WF_breakerVars(Record(b))
  /\ WF_breakerVars(Cool) /\ WF_breakerVars(AgeWindow)

-----------------------------------------------------------------------------
(* Properties *)

BreakerTypeOK ==
  /\ state \in {"Closed", "Open", "HalfOpen"}
  /\ total \in Nat /\ failures \in 0 .. total
  /\ halfOpenOK \in 0 .. HalfOpenNeeded
  /\ state = "HalfOpen" => halfOpenOK < HalfOpenNeeded
  /\ bot \in [Bot -> {"idle", "sent", "success", "failure"}]
  /\ left \in [Bot -> 0 .. Round - 1]
  /\ \A b \in Bot : bot[b] = "idle" => left[b] = 0
  /\ cooled \in BOOLEAN /\ stale \in BOOLEAN /\ healthy \in BOOLEAN /\ outages \in 0 .. MaxOutages

\* A closed breaker trips only on what was recorded since it closed and
\* within the window: enough outcomes, more than half of them failures.
\* Outcomes of the outage before do not count against it
\* (circuit_breaker.go:65-96).
TripsOnEvidence ==
  [][state = "Closed" /\ state' = "Open" => good' + bad' >= MinTraffic /\ bad' > good']_breakerVars

\* An open breaker is probed again, however late the outcomes of the requests
\* of before are recorded and although each failure among them trips it anew;
\* and once the engine is well for good, it closes for good
\* (circuit_breaker.go:48-101).
BreakerComesBack ==
  /\ state = "Open" ~> state = "HalfOpen"
  /\ <>[]healthy => <>[](state = "Closed")
=============================================================================
