-------------------------- MODULE OrchestratorProps --------------------------
(***************************************************************************)
(* What the orchestrator owes its users, over the model in Orchestrator.   *)
(***************************************************************************)
EXTENDS Orchestrator

\* The steps a goroutine passes through in each handler.
StepsOf ==
  [none     |-> {"idle"},
   start    |-> {"lock", "read", "cas", "unlock", "seed", "publish", "arm"},
   abort    |-> {"unlock"},
   stop     |-> {"read", "cas", "publish", "drain"},
   complete |-> {"read", "cas", "mark", "finish"},
   fail     |-> {"read", "cas", "publish", "finish"},
   loop     |-> {"next", "probe", "claim", "register", "release"}]

JobShape(j) ==
  /\ j.at \in StepsOf[j.op]
  /\ j.op # "none" /\ j.at # "next" => j.test \in Tests
  /\ j.at = "cas" => Target[j.op] \in legalTransitions[j.from]

\* Every variable has its type, every goroutine is at a step of the handler it
\* is in, and one about to compare-and-set has read a status from which its
\* target is a legal edge (state_machine.go:67).
TypeOK ==
  /\ status  \in [Tests -> Statuses]
  /\ owner   \in [Tests -> Instances \cup {NoInstance}]
  /\ hb      \in [Tests -> {"null", "fresh", "stale"}]
  /\ ended   \subseteq Tests
  /\ lock    \in [Contestants -> Tests \cup {NoTest}]
  /\ recLock \in [Tests -> Instances \cup {NoInstance}]
  /\ known   \subseteq Tests
  /\ topic   \in [Keys -> Seq(TestEvent \cup CrashEvent)]
  /\ request \in [Tests -> {"new", "checked", "inserted", "done"}]
  /\ active  \in [Instances -> SUBSET Tests]
  /\ timers  \in [Instances -> [Tests -> TimerKinds \cup {"none"}]]
  /\ armed   \in [Instances -> SUBSET (Tests \X TimerKinds)]
  /\ job     \in [Procs -> Job]
  /\ crashes \in 0 .. MaxCrashes
  /\ faults  \in 0 .. MaxFaults
  /\ scans   \in Nat
  /\ reported \subseteq CrashReports
  /\ \A p \in Procs : JobShape(job[p])

\* The status column follows the abstract life cycle, whatever instances do
\* to the row at the same time and wherever they crash (state_machine.go:22).
Lifecycle == Life!Spec

\* A contestant never has two tests in progress: two would share one sandbox
\* and one metrics hash (state_machine.go:84, lock:test:<contestant>).
OneRunPerContestant ==
  \A t, u \in Tests :
    /\ ContestantOf[t] = ContestantOf[u]
    /\ status[t] \in InProgress /\ status[u] \in InProgress
    => t = u

\* p won the compare-and-set to a final status and has not finished cleaning up.
Finishing(p, t) ==
  /\ job[p].test = t
  /\ \/ job[p].op = "fail" /\ job[p].at \in {"publish", "finish"}
     \/ job[p].op = "complete" /\ job[p].at \in {"mark", "finish"}

\* The clean-up of a test (MarkEnded, finish, releaseLock) is never in the
\* hands of two goroutines, of one instance or of two: a second releaseLock
\* would delete the lock of the contestant's next test (state_machine.go:226).
SingleFinisher ==
  \A p, q \in Procs, t \in Tests : Finishing(p, t) /\ Finishing(q, t) => p = q

\* Without crashes and faults a test in progress is failed only by orphan
\* recovery or after its container was reported crashed, never by a duplicate
\* or a late START_TEST, although the service consumes the START_TEST it
\* forwards (consumer.go:112, state_machine.go:130).
StartNeverFailsARun ==
  [][\A t \in Tests :
       status[t] \in InProgress /\ status'[t] = "failed"
       => \/ ContestantOf[t] \in reported
          \/ \E i \in Instances : /\ job[<<i, "recovery">>].op = "fail"
                                 /\ job[<<i, "recovery">>].test = t]_vars

\* An orphan is in the hands of one instance at a time (crash_recovery.go:77).
Recovering(i, t) ==
  job[<<i, "recovery">>].test = t /\ job[<<i, "recovery">>].at # "next"

OneRecoverer ==
  \A i, k \in Instances, t \in Tests : Recovering(i, t) /\ Recovering(k, t) => i = k

\* No store or broker call fails: a duration timer whose StopTest fails is
\* not set again, and the test then runs for ever.
Faultless == [](faults = 0)
Undisturbed == [](faults = 0 /\ crashes = 0)

\* The START_TEST of a test waits on the topic.
Queued(t) ==
  \E n \in DOMAIN topic[ContestantOf[t]] :
    topic[ContestantOf[t]][n] = [event |-> "START_TEST", test |-> t]

\* The START_TEST of a pending test meets the lock of the contestant's other
\* test, and is about to be dropped (consumer.go:113).
Refused(t) ==
  /\ status[t] = "pending"
  /\ \E p \in Procs : job[p].at = "lock" /\ job[p].test = t
  /\ lock[ContestantOf[t]] \in Tests \ {t}

\* A test whose START_TEST is on the topic ends in a final status, unless an
\* instance crashes, or is refused because another test of the contestant
\* holds the lock.  A refused one stays pending for ever: there is no
\* other way out of here (README.md:64, state_machine.go:22,
\* consumer.go:108-115).
EndsOrIsRefused ==
  Undisturbed => \A t \in Tests : Queued(t) ~> status[t] \in Terminal \/ Refused(t)

\* A completed test gets its end time and final score, unless its instance
\* crashes between the two updates (db.go:50).
CompletedIsStamped ==
  Undisturbed => \A t \in Tests : status[t] = "completed" ~> t \in ended

\* A running test does not run for ever, even if the instance that drives it
\* crashes (README.md:424, "The orchestrator recovers from crashes").
RunEnds ==
  Faultless => \A t \in Tests : status[t] = "running" ~> status[t] # "running"

\* A stopping test reaches a final status (README.md:427, "instead of a
\* permanently stuck test").
StoppingEnds == \A t \in Tests : status[t] = "stopping" ~> status[t] # "stopping"
=============================================================================
