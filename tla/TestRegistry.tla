----------------------------- MODULE TestRegistry -----------------------------
(***************************************************************************)
(* The bot fleet's runners (bot-fleet/consumer.go, test_runner.go): one    *)
(* goroutine reads the orchestrator's commands and obeys them one at a     *)
(* time, a timer stops each runner, and at shutdown main stops the rest    *)
(* beside the consumer.  Runners are numbered as they are made; a test may *)
(* have several, one after the other, when its commands come again.        *)
(***************************************************************************)
EXTENDS Naturals, Sequences

CONSTANTS
  Tests,
  Owner,         \* the contestant of each test
  BotCount,      \* bots of a runner
  MaxRunners     \* bound: runners made

ASSUME RegistryAssumption ==
  /\ DOMAIN Owner = Tests /\ BotCount \in Nat \ {0} /\ MaxRunners \in Nat

VARIABLES
  runners,    \* every runner made so far
  registry,   \* Consumer.runners: the number of a test's runner; 0: none
  parent,     \* is the context of the process live?
  command,    \* what the consumer does: read, starting, resetting, stopping, ended
  starting,   \* the runner it starts
  hands,      \* the runners the consumer and main still have to stop
  waiting,    \* the one among them whose bots each waits for; 0: none
  closing     \* main: no, yes, or over

hand      == <<hands, waiting>>
fleetVars == <<runners, registry, parent, command, starting, hand, closing>>

Stoppers == {"consumer", "main"}
NewRunner(t) == [test |-> t, ctx |-> "none", bots |-> 0, timer |-> FALSE]

FleetInit ==
  /\ runners = <<>> /\ registry = [t \in Tests |-> 0] /\ parent = TRUE
  /\ command = "read" /\ starting = 0
  /\ hands = [s \in Stoppers |-> {}] /\ waiting = [s \in Stoppers |-> 0]
  /\ closing = "no"

\* main returns when Close has, and takes every goroutine along.
running == closing # "over"
registered == {registry[t] : t \in Tests} \ {0}

-----------------------------------------------------------------------------
(* dispatch *)

\* if _, exists := c.runners[ev.TestID]; exists
duplicate(t) == registry[t] # 0

\* startTest up to the unlock: the runner is in the map before it runs.
startTest(t) ==
  /\ running /\ command = "read" /\ ~duplicate(t) /\ Len(runners) < MaxRunners
  /\ runners' = Append(runners, NewRunner(t))
  /\ registry' = [registry EXCEPT ![t] = Len(runners')]
  /\ starting' = Len(runners') /\ command' = "starting"
  /\ UNCHANGED <<parent, hand, closing>>

\* TestRunner.Start: a context of its own, then the engine's book is reset,
\* for five seconds at most and whatever comes of it.
Start ==
  /\ running /\ command = "starting"
  /\ runners' = [runners EXCEPT ![starting].ctx = "live"]
  /\ command' = "resetting"
  /\ UNCHANGED <<registry, parent, starting, hand, closing>>

\* The bots are started, and a timer if the test has a duration.
Spawn ==
  /\ running /\ command = "resetting"
  /\ \E timed \in BOOLEAN :
       runners' = [runners EXCEPT ![starting].bots = BotCount, ![starting].timer = timed]
  /\ command' = "read" /\ starting' = 0
  /\ UNCHANGED <<registry, parent, hand, closing>>

\* The tests of a contestant that are in the map.
ofContestant(c) == {t \in Tests : Owner[t] = c /\ registry[t] # 0}

\* The entries are deleted under the lock, the runners stopped after it.
TakeOut(ts) ==
  /\ registry' = [t \in Tests |-> IF t \in ts THEN 0 ELSE registry[t]]
  /\ hands' = [hands EXCEPT !["consumer"] = {registry[t] : t \in ts}]
  /\ command' = "stopping"
  /\ UNCHANGED <<runners, parent, starting, waiting, closing>>

\* stopTest: a test that is not in the map is nothing to stop.
stopTest(t) == running /\ command = "read" /\ registry[t] # 0 /\ TakeOut({t})

\* Mutated form of stopByContestant: all entries go, one runner is stopped.
stopFirstOnly(c) ==
  /\ running /\ command = "read" /\ ofContestant(c) # {}
  /\ registry' = [t \in Tests |-> IF t \in ofContestant(c) THEN 0 ELSE registry[t]]
  /\ \E t \in ofContestant(c) : hands' = [hands EXCEPT !["consumer"] = {registry[t]}]
  /\ command' = "stopping"
  /\ UNCHANGED <<runners, parent, starting, waiting, closing>>

stopByContestant(c) ==
  running /\ command = "read" /\ ofContestant(c) # {} /\ TakeOut(ofContestant(c))

\* Run: the context is cancelled and ReadMessage says so; a message it had
\* fetched already may still come first.
EndRun ==
  /\ running /\ command = "read" /\ ~parent
  /\ command' = "ended"
  /\ UNCHANGED <<runners, registry, parent, starting, hand, closing>>

-----------------------------------------------------------------------------
(* TestRunner.Stop, by the consumer or by main. *)

\* One runner after the other, in the order of a map; one without a context
\* is left alone.
Stop(s, r) ==
  /\ running /\ waiting[s] = 0 /\ r \in hands[s]
  /\ \/ /\ runners[r].ctx = "none"
        /\ hands' = [hands EXCEPT ![s] = @ \ {r}] /\ UNCHANGED <<runners, waiting>>
     \/ /\ runners[r].ctx # "none"
        /\ runners' = [runners EXCEPT ![r].ctx = "cancelled"]
        /\ waiting' = [waiting EXCEPT ![s] = r] /\ UNCHANGED hands
  /\ UNCHANGED <<registry, parent, command, starting, closing>>

StopSome(s) == \E r \in hands[s] : Stop(s, r)

\* Mutated form of drained: a bot that hangs is waited for.
drainedForSure(r) == runners[r].bots = 0

\* The bots are gone, or thirty seconds are over.
drained(r) == TRUE

EndStop(s) ==
  /\ running /\ waiting[s] # 0 /\ drained(waiting[s])
  /\ hands' = [hands EXCEPT ![s] = @ \ {waiting[s]}] /\ waiting' = [waiting EXCEPT ![s] = 0]
  /\ UNCHANGED <<runners, registry, parent, command, starting, closing>>

\* The consumer goes back to reading.
EndCommand ==
  /\ running /\ command = "stopping" /\ hands["consumer"] = {}
  /\ command' = "read"
  /\ UNCHANGED <<runners, registry, parent, starting, hand, closing>>

\* The AfterFunc of a runner: it cancels the bots and leaves the registry.
Elapse(r) ==
  /\ running /\ runners[r].timer
  /\ runners' = [runners EXCEPT ![r].timer = FALSE, ![r].ctx = "cancelled"]
  /\ UNCHANGED <<registry, parent, command, starting, hand, closing>>

\* A bot sees its context, or that of the process, cancelled.
Leave(r) ==
  /\ running /\ runners[r].bots > 0 /\ (runners[r].ctx = "cancelled" \/ ~parent)
  /\ runners' = [runners EXCEPT ![r].bots = @ - 1]
  /\ UNCHANGED <<registry, parent, command, starting, hand, closing>>

-----------------------------------------------------------------------------
(* Shutdown: SIGTERM cancels the context; main then closes the consumer. *)

Sigterm ==
  /\ parent /\ parent' = FALSE
  /\ UNCHANGED <<runners, registry, command, starting, hand, closing>>

\* Close: the map is emptied under the lock, its runners stopped after it.
Close ==
  /\ closing = "no" /\ ~parent
  /\ closing' = "yes"
  /\ registry' = [t \in Tests |-> 0]
  /\ hands' = [hands EXCEPT !["main"] = registered]
  /\ UNCHANGED <<runners, parent, command, starting, waiting>>

EndClose ==
  /\ closing = "yes" /\ hands["main"] = {}
  /\ closing' = "over"
  /\ UNCHANGED <<runners, registry, parent, command, starting, hand>>

FleetNext ==
  \/ \E t \in Tests : startTest(t) \/ stopTest(t)
  \/ \E c \in {Owner[t] : t \in Tests} : stopByContestant(c)
  \/ Start \/ Spawn \/ EndCommand \/ EndRun
  \/ \E s \in Stoppers : EndStop(s) \/ StopSome(s)
  \/ \E r \in DOMAIN runners : Elapse(r) \/ Leave(r)
  \/ Sigterm \/ Close \/ EndClose

\* A goroutine that has begun goes on, and every wait has an end: five
\* seconds for the reset, thirty for the bots.  Nobody has to send a command.
FleetSpec ==
  /\ FleetInit /\ [][FleetNext]_fleetVars
  /\ WF_fleetVars(Start) /\ WF_fleetVars(Spawn) /\ WF_fleetVars(EndCommand)
  /\ \A s \in Stoppers : WF_fleetVars(StopSome(s)) /\ WF_fleetVars(EndStop(s))
  /\ WF_fleetVars(Close) /\ WF_fleetVars(EndClose)

-----------------------------------------------------------------------------
(* Properties *)

live(r) == runners[r].ctx = "live"

\* A runner whose bots trade can still be stopped: it is in the registry or
\* in the hands of the one who is stopping it.  Commands that come twice,
\* several runners of one contestant and the timers do not change that
\* (consumer.go:85-128, test_runner.go:76-108).
NoRunaway ==
  parent => \A r \in DOMAIN runners :
    live(r) => r \in registered \/ r \in hands["consumer"]

\* A test never has two runners whose bots trade (consumer.go:85-95).
OneRunnerPerTest ==
  parent => \A r, q \in DOMAIN runners :
    live(r) /\ live(q) /\ runners[r].test = runners[q].test => r = q

FleetTypeOK ==
  /\ runners \in Seq([test : Tests, ctx : {"none", "live", "cancelled"},
                      bots : 0 .. BotCount, timer : BOOLEAN])
  /\ registry \in [Tests -> 0 .. Len(runners)]
  /\ starting \in 0 .. Len(runners)
  /\ command \in {"read", "starting", "resetting", "stopping", "ended"}
  /\ hands \in [Stoppers -> SUBSET (1 .. Len(runners))]
  /\ waiting \in [Stoppers -> 0 .. Len(runners)]
  /\ parent \in BOOLEAN /\ closing \in {"no", "yes", "over"}

\* The consumer comes back to reading whatever it was told to stop, and after
\* SIGTERM the process ends, however long a bot hangs (test_runner.go:130-148,
\* consumer.go:104-116, main.go:63-77).
StopsReturn ==
  /\ command \notin {"read", "ended"} ~> (command \in {"read", "ended"} \/ ~running)
  /\ ~parent ~> ~running
=============================================================================
