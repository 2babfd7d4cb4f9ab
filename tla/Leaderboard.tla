----------------------------- MODULE Leaderboard -----------------------------
(***************************************************************************)
(* How metrics reach the screens: the keys in Redis, the ingester that     *)
(* rewrites a contestant's metrics every second, the orchestrator that     *)
(* clears them at the start of a test and writes the final ones, a scorer  *)
(* in every pod of the leaderboard API, the freeze and the                 *)
(* disqualification of the admin, and submission-api, which answers from   *)
(* the board in the cache.  A set of metrics is the number of the          *)
(* measurement it shows; a board maps the contestants on it to theirs      *)
(* (module Ranking has the order).                                         *)
(***************************************************************************)
EXTENDS Integers, FiniteSets

CONSTANTS
  Pod, Contestant,
  MaxMeasures,    \* bound: measurements
  MaxEvents       \* bound: tests, orders of the admin, answers of
                  \* submission-api and Redis errors, together

ASSUME LeaderboardAssumption ==
  /\ IsFiniteSet(Pod)
  /\ MaxMeasures \in Nat /\ MaxEvents \in Nat

VARIABLES
  live,      \* the ingester's counters of a contestant; None: never seen
  described, \* the contestants whose behaviour is written, too
  metrics,   \* metrics:<contestant>; None: no key, 0: all zero
  active,    \* leaderboard:active_contestants
  frozen,    \* leaderboard:frozen
  cached,    \* leaderboard:cached
  scorer,    \* where the scorer of each pod is in its cycle
  held,      \* the board it has in hand; before it is read, the members
  shown,     \* the last board each pod's hub was given
  request,   \* where GetLeaderboard of submission-api is
  answer,    \* the same for it
  test,      \* where the orchestrator is with each contestant's test
  window,    \* the metrics it has read at the end of a test
  measures, events,   \* how much of the bounds is used
  published, \* history: boards published since the freeze
  misread    \* history: freeze checks since then that failed

redis     == <<metrics, active, frozen, cached>>
scorers   == <<scorer, held, shown>>
requests  == <<request, answer>>
tests     == <<test, window>>
freezes   == <<published, misread>>
used      == <<measures, events>>
boardVars == <<live, described, redis, scorers, requests, tests, used, freezes>>

None == -1
NoBoard == [c \in {} |-> 0]
Event == events < MaxEvents /\ events' = events + 1

\* What Compute makes of the members found earlier.
Board(ids) == LET on == {c \in ids : metrics[c] # None} IN [c \in on |-> metrics[c]]

BoardInit ==
  /\ live = [c \in Contestant |-> None] /\ described = Contestant
  /\ metrics = [c \in Contestant |-> None]
  /\ active = {} /\ frozen = FALSE /\ cached = NoBoard
  /\ scorer = [p \in Pod |-> "idle"] /\ held = [p \in Pod |-> NoBoard]
  /\ shown = [p \in Pod |-> NoBoard]
  /\ request = "none" /\ answer = NoBoard
  /\ test = [c \in Contestant |-> "none"] /\ window = [c \in Contestant |-> 0]
  /\ measures = 0 /\ events = 0 /\ published = 0 /\ misread = 0

-----------------------------------------------------------------------------
(* The ingester. *)

\* A batch of events of the contestant is counted.
Measure(c) ==
  /\ measures < MaxMeasures /\ measures' = measures + 1
  /\ live' = [live EXCEPT ![c] = measures']
  /\ UNCHANGED <<events, described, redis, scorers, requests, tests, freezes>>

\* PublishSnapshot, every second and of every contestant ever seen: one
\* pipeline of two commands.
PublishSnapshot(c) ==
  /\ live[c] # None /\ c \in described
  /\ metrics' = [metrics EXCEPT ![c] = live[c]] /\ active' = active \cup {c}
  /\ described' = described \ {c}
  /\ UNCHANGED <<live, frozen, cached, scorers, requests, tests, used, freezes>>

\* A field set in the hash, which is created if it is not there.
Touched(c) == IF metrics[c] = None THEN 0 ELSE metrics[c]

\* PublishBehavior, a command of its own.
PublishBehavior(c) ==
  /\ c \notin described /\ described' = described \cup {c}
  /\ metrics' = [metrics EXCEPT ![c] = Touched(c)]
  /\ UNCHANGED <<live, active, frozen, cached, scorers, requests, tests, used, freezes>>

-----------------------------------------------------------------------------
(* The orchestrator: the metrics at the start and at the end of a test. *)

ClearMetrics(c) ==
  /\ test[c] = "none" /\ Event
  /\ metrics' = [metrics EXCEPT ![c] = None]
  /\ test' = [test EXCEPT ![c] = "cleared"]
  /\ UNCHANGED <<measures, live, described, active, frozen, cached, scorers, requests, window, freezes>>

\* The contestant's name, if it has one, is put into the hash, which
\* thereby exists.
SeedName(c) ==
  /\ test[c] = "cleared" /\ test' = [test EXCEPT ![c] = "running"]
  /\ metrics' \in {metrics, [metrics EXCEPT ![c] = Touched(c)]}
  /\ UNCHANGED <<live, described, active, frozen, cached, scorers, requests, window, used, freezes>>

\* readWindow: without an answer, or without a hash, the window is zero.
readWindow(c) ==
  /\ test[c] = "running" /\ test' = [test EXCEPT ![c] = "read"]
  /\ \/ /\ window' = [window EXCEPT ![c] = IF metrics[c] = None THEN 0 ELSE metrics[c]]
        /\ UNCHANGED events
     \/ Event /\ window' = [window EXCEPT ![c] = 0]
  /\ UNCHANGED <<measures, live, described, redis, scorers, requests, freezes>>

PublishFinalScore(c) ==
  /\ test[c] = "read" /\ test' = [test EXCEPT ![c] = "none"]
  /\ metrics' = [metrics EXCEPT ![c] = window[c]] /\ active' = active \cup {c}
  /\ UNCHANGED <<live, described, frozen, cached, scorers, requests, window, used, freezes>>

-----------------------------------------------------------------------------
(* The scorers: one cycle of Run, and Redis pub/sub. *)

\* Mutated form of isFrozen: another key is asked for.
isNeverFrozen == FALSE

isFrozen == frozen

\* The check of a cycle: an error counts as not frozen.
BeginCycle(p) ==
  /\ scorer[p] = "idle" /\ scorer' = [scorer EXCEPT ![p] = "members"]
  /\ \/ ~isFrozen /\ UNCHANGED <<events, misread>>
     \/ isFrozen /\ Event /\ misread' = misread + 1
  /\ UNCHANGED <<measures, live, described, redis, held, shown, requests, tests, published>>

\* SMembers: an error ends the cycle.
ReadMembers(p) ==
  /\ scorer[p] = "members"
  /\ \/ /\ scorer' = [scorer EXCEPT ![p] = "metrics"]
        /\ held' = [held EXCEPT ![p] = [c \in active |-> 0]]
        /\ UNCHANGED events
     \/ Event /\ scorer' = [scorer EXCEPT ![p] = "idle"] /\ UNCHANGED held
  /\ UNCHANGED <<measures, live, described, redis, shown, requests, tests, freezes>>

\* The pipeline of HGetAll, whose error is ignored: the board is then empty.
ReadMetrics(p) ==
  /\ scorer[p] = "metrics" /\ scorer' = [scorer EXCEPT ![p] = "scored"]
  /\ \/ held' = [held EXCEPT ![p] = Board(DOMAIN @)] /\ UNCHANGED events
     \/ Event /\ held' = [held EXCEPT ![p] = NoBoard]
  /\ UNCHANGED <<measures, live, described, redis, shown, requests, tests, freezes>>

\* Set leaderboard:cached, for two seconds; its error is ignored.
Store(p) ==
  /\ scorer[p] = "scored" /\ scorer' = [scorer EXCEPT ![p] = "stored"]
  /\ \/ cached' = held[p] /\ UNCHANGED events
     \/ Event /\ UNCHANGED cached
  /\ UNCHANGED <<measures, live, described, metrics, active, frozen, held, shown, requests, tests, freezes>>

\* Mutated form of receivers: the subscriber returns after one message.
firstMessageOnly(p) == {q \in Pod : shown[q] = NoBoard}

\* Every pod's subscriber relays the message to its hub.
receivers(p) == Pod

\* Publish: a pod that is reconnecting misses the message.
Publish(p) ==
  /\ scorer[p] = "stored" /\ scorer' = [scorer EXCEPT ![p] = "idle"]
  /\ \E missing \in SUBSET Pod :
       /\ IF missing = {} THEN UNCHANGED events ELSE Event
       /\ shown' = [q \in Pod |-> IF q \in receivers(p) \ missing THEN held[p] ELSE shown[q]]
  /\ held' = [held EXCEPT ![p] = NoBoard]
  /\ published' = IF frozen THEN published + 1 ELSE published
  /\ UNCHANGED <<measures, live, described, redis, requests, tests, misread>>

-----------------------------------------------------------------------------
(* The admin, and time. *)

\* The error of Set is ignored: the admin is told it is frozen all the same.
Freeze ==
  /\ Event
  /\ \/ /\ frozen' = TRUE
        /\ published' = IF frozen THEN published ELSE 0
        /\ misread' = IF frozen THEN misread ELSE 0
     \/ UNCHANGED <<frozen, freezes>>
  /\ UNCHANGED <<measures, live, described, metrics, active, cached, scorers, requests, tests>>

\* Unfreeze, or the 24 hours are over.
Unfreeze ==
  /\ frozen /\ frozen' = FALSE
  /\ UNCHANGED <<live, described, metrics, active, cached, scorers, requests, tests, used, freezes>>

\* The key disqualified:<contestant> is also set; nothing reads it.
Disqualify(c) ==
  /\ Event /\ active' = active \ {c}
  /\ UNCHANGED <<measures, live, described, metrics, frozen, cached, scorers, requests, tests, freezes>>

\* leaderboard:cached has a time to live.
Expire ==
  /\ cached # NoBoard /\ cached' = NoBoard
  /\ UNCHANGED <<live, described, metrics, active, frozen, scorers, requests, tests, used, freezes>>

-----------------------------------------------------------------------------
(* GetLeaderboard of submission-api: a hit changes nothing. *)

Ask ==
  /\ request = "none" /\ cached = NoBoard /\ Event
  /\ request' = "asked"
  /\ UNCHANGED <<measures, live, described, redis, scorers, answer, tests, freezes>>

\* SMembers: after an error the board is empty.
FindMembers ==
  /\ request = "asked" /\ request' = "members"
  /\ \/ answer' = [c \in active |-> 0] /\ UNCHANGED events
     \/ Event /\ UNCHANGED answer
  /\ UNCHANGED <<measures, live, described, redis, scorers, tests, freezes>>

\* An HGetAll for each: one that fails leaves its contestant out.
Compute ==
  /\ request = "members" /\ request' = "computed"
  /\ \E missing \in SUBSET DOMAIN answer :
       /\ IF missing = {} THEN UNCHANGED events ELSE Event
       /\ answer' = Board(DOMAIN answer \ missing)
  /\ UNCHANGED <<measures, live, described, redis, scorers, tests, freezes>>

\* Set leaderboard:cached, for half a second; its error is ignored.
Answer ==
  /\ request = "computed" /\ request' = "none"
  /\ \/ cached' = answer /\ UNCHANGED events
     \/ Event /\ UNCHANGED cached
  /\ answer' = NoBoard
  /\ UNCHANGED <<measures, live, described, metrics, active, frozen, scorers, tests, freezes>>

BoardNext ==
  \/ \E c \in Contestant :
       \/ Measure(c) \/ PublishSnapshot(c) \/ PublishBehavior(c)
       \/ ClearMetrics(c) \/ SeedName(c) \/ readWindow(c) \/ PublishFinalScore(c)
       \/ Disqualify(c)
  \/ \E p \in Pod : BeginCycle(p) \/ ReadMembers(p) \/ ReadMetrics(p) \/ Store(p) \/ Publish(p)
  \/ Freeze \/ Unfreeze \/ Expire \/ Ask \/ FindMembers \/ Compute \/ Answer

\* One goroutine's or handler's next step, whichever it is.
Ingest(c)      == PublishSnapshot(c) \/ PublishBehavior(c)
Orchestrate(c) == SeedName(c) \/ readWindow(c) \/ PublishFinalScore(c)
Cycle(p)       == BeginCycle(p) \/ ReadMembers(p) \/ ReadMetrics(p) \/ Store(p) \/ Publish(p)
Respond        == FindMembers \/ Compute \/ Answer

\* The tickers of the ingester and of the scorers go on, a handler that has
\* begun goes on, and a key expires; nobody has to measure, to start a test,
\* to ask or to administer.
BoardFair ==
  /\ \A c \in Contestant : WF_boardVars(Ingest(c)) /\ WF_boardVars(Orchestrate(c))
  /\ \A p \in Pod : WF_boardVars(Cycle(p))
  /\ WF_boardVars(Expire) /\ WF_boardVars(Respond)

BoardSpec == BoardInit /\ [][BoardNext]_boardVars /\ BoardFair

-----------------------------------------------------------------------------
(* Properties *)

busy == {p \in Pod : scorer[p] # "idle"}

\* A freeze stops the boards: after it each pod sends at most the one whose
\* cycle had begun, and one more for every freeze check that got no answer
\* (admin/handlers.go:36-40, scorer.go:79-114).
FreezeHolds == frozen => published + Cardinality(busy) <= Cardinality(Pod) + misread

standings == Board(active)

\* What is counted comes to be what is shown.  The ingester wins over every
\* other writer of the hash: the zero window of an orchestrator that Redis did
\* not answer is overwritten, and so is a disqualification (pipeline.go:84-95,
\* redis_metrics_writer.go:24-43).  Unless the board stays frozen, every pod
\* shows what Redis holds, whatever boards were lost, delayed or emptied on the
\* way (scorer.go:74-109, redis_subscriber.go:25-40).  The cache does not keep
\* the late answer of submission-api or of a slow scorer
\* (handlers/leaderboard.go:31-52, scorer.go:97).
BoardCatchesUp ==
  /\ <>[](\A c \in Contestant : live[c] # None => metrics[c] = live[c] /\ c \in active)
  /\ <>[](frozen \/ \A p \in Pod : shown[p] = standings)
  /\ <>[](cached = NoBoard \/ cached = standings)

Boards == UNION {[ids -> 0 .. MaxMeasures] : ids \in SUBSET Contestant}

BoardTypeOK ==
  /\ live \in [Contestant -> {None} \cup 1 .. MaxMeasures]
  /\ metrics \in [Contestant -> None .. MaxMeasures]
  /\ active \subseteq Contestant /\ described \subseteq Contestant
  /\ scorer \in [Pod -> {"idle", "members", "metrics", "scored", "stored"}]
  /\ held \in [Pod -> Boards] /\ shown \in [Pod -> Boards]
  /\ cached \in Boards /\ answer \in Boards
  /\ request \in {"none", "asked", "members", "computed"}
  /\ test \in [Contestant -> {"none", "cleared", "running", "read"}]
  /\ window \in [Contestant -> 0 .. MaxMeasures]
  /\ measures \in 0 .. MaxMeasures /\ events \in 0 .. MaxEvents
  /\ frozen \in BOOLEAN /\ published \in Nat /\ misread \in Nat
=============================================================================
