---------------------------- MODULE Orchestrator ----------------------------
(***************************************************************************)
(* The orchestrator service: several instances that drive every test from  *)
(* pending to a final status.  They share the tests table (Postgres), the  *)
(* per-contestant lock, the recovery lock and the test hash (Redis) and    *)
(* the orchestrator-events topic (Kafka).  Each instance keeps in memory   *)
(* the set of tests it believes it runs and their stop timers, and runs a  *)
(* consumer loop, an orphan-detection loop, a heartbeat loop and one       *)
(* goroutine per timer that fires.  Every call to a store is a step of its *)
(* own, so two goroutines interleave between any two of them and a crash   *)
(* can fall there.  The environment is POST /v1/tests of submission-api.   *)
(***************************************************************************)
EXTENDS Naturals, Sequences, FiniteSets

CONSTANTS
  Tests,          \* test ids, one per POST /v1/tests request
  Contestants,
  ContestantOf,   \* the contestant that owns each test
  Instances,      \* orchestrator instances (pods)
  NoTest,         \* an absent lock
  NoInstance,     \* a NULL orchestrator_instance_id or an absent lock
  MaxCrashes,     \* bound: instance crashes in a behaviour
  MaxMishaps,     \* bound: instance crashes and crash reports together
  MaxFaults,      \* bound: store or broker calls that return an error
  MaxScans,       \* bound: passes of DetectOrphans, or NoLimit
  NoLimit,
  CrashReports    \* contestants whose container may be reported crashed

ASSUME ConstantsAssumption ==
  /\ ContestantOf \in [Tests -> Contestants]
  /\ NoTest \notin Tests
  /\ NoInstance \notin Instances
  /\ MaxCrashes \in Nat
  /\ MaxMishaps \in Nat
  /\ MaxFaults \in Nat
  /\ MaxScans \in Nat \cup {NoLimit}
  /\ CrashReports \subseteq Contestants
  /\ Tests \cap {"consumer", "recovery"} = {}

VARIABLES
  status,    \* tests.status                        (Postgres)
  owner,     \* tests.orchestrator_instance_id      (Postgres)
  ended,     \* tests.ended_at and final_score are stamped (Postgres)
  hb,        \* tests.last_heartbeat_at             (Postgres)
  lock,      \* lock:test:<contestant>              (Redis)
  recLock,   \* lock:recover:<test>                 (Redis)
  known,     \* test:<id> holds contestant, target and start time (Redis)
  topic,     \* orchestrator-events, one FIFO per message key     (Kafka)
  request,   \* progress of the POST /v1/tests that creates the test
  active,    \* sm.active of each instance
  timers,    \* sm.timers of each instance: which timer the map holds
  armed,     \* the time.AfterFunc of each instance that are still pending
  job,       \* what each goroutine is executing
  crashes, faults, scans, reported

db      == <<status, owner, hb, ended>>
redis   == <<lock, recLock, known>>
memory  == <<active, timers, armed>>
budget  == <<crashes, faults, scans, reported>>
vars    == <<db, redis, topic, request, memory, job, budget>>

-----------------------------------------------------------------------------
(* Vocabulary *)

Life == INSTANCE TestLifecycle
Statuses == Life!Statuses
Terminal == Life!Terminal
legalTransitions == Life!legalTransitions
InProgress == {"running", "stopping"}

\* A StopTestEvent or FailTest whose contestant is unknown is keyed by "".
NoKey == "nokey"
Keys  == Contestants \cup {NoKey}

TestEvent  == [event : {"START_TEST", "STOP_TEST"}, test : Tests]
CrashEvent == [event : {"CONTAINER_CRASHED"}, contestant : Contestants]

\* Goroutines of an instance: the consumer loop, the DetectOrphans loop and
\* the callback of each test's timer.
Threads == {"consumer", "recovery"} \cup Tests
Procs   == Instances \X Threads

TimerKinds == {"start", "recovered"}

\* A goroutine's call: which handler (op), its next step (at), the status it
\* read (from), whether contestantFor answered (key), the tests still to be
\* handled by the loop around it (todo).
Ops   == {"none", "start", "abort", "stop", "complete", "fail", "loop"}
Steps == {"idle", "lock", "read", "cas", "unlock", "seed", "publish", "arm",
          "drain", "mark", "finish", "next", "probe", "claim", "register", "release"}
Job   == [op : Ops, at : Steps, test : Tests \cup {NoTest}, from : Statuses,
          key : BOOLEAN, todo : SUBSET Tests]
NoJob == [op |-> "none", at |-> "idle", test |-> NoTest, from |-> "absent",
          key |-> FALSE, todo |-> {}]

\* The status each handler asks TransitionTo for.
Target == [start |-> "running", stop |-> "stopping", complete |-> "completed",
           fail |-> "failed"]

ReadStep(op, t, todo) ==
  [NoJob EXCEPT !.op = op, !.at = "read", !.test = t, !.todo = todo]

Goto(p, step) == job' = [job EXCEPT ![p].at = step]

\* A call that fails although the code asked for it correctly.
Fault == faults < MaxFaults /\ faults' = faults + 1

\* What goes wrong outside the calls.
Mishaps == crashes + Cardinality(reported)

Send(key, m) == topic' = [topic EXCEPT ![key] = Append(@, m)]

-----------------------------------------------------------------------------
(* Initial state: no row, no lock, empty topic, idle instances *)

Init ==
  /\ status  = [t \in Tests |-> "absent"]
  /\ owner   = [t \in Tests |-> NoInstance]
  /\ hb      = [t \in Tests |-> "null"]
  /\ ended   = {}
  /\ lock    = [c \in Contestants |-> NoTest]
  /\ recLock = [t \in Tests |-> NoInstance]
  /\ known   = {}
  /\ topic   = [k \in Keys |-> <<>>]
  /\ request = [t \in Tests |-> "new"]
  /\ active  = [i \in Instances |-> {}]
  /\ timers  = [i \in Instances |-> [t \in Tests |-> "none"]]
  /\ armed   = [i \in Instances |-> {}]
  /\ job     = [p \in Procs |-> NoJob]
  /\ crashes = 0
  /\ faults  = 0
  /\ scans   = 0
  /\ reported = {}

-----------------------------------------------------------------------------
(* POST /v1/tests: look for an active test, insert the row, publish.  The  *)
(* three calls are not one transaction.                                    *)

CheckNoActiveTest(t) ==
  /\ request[t] = "new"
  /\ \A u \in Tests : ContestantOf[u] = ContestantOf[t]
                        => status[u] \notin {"pending"} \cup InProgress
  /\ request' = [request EXCEPT ![t] = "checked"]
  /\ UNCHANGED <<db, redis, topic, memory, job, budget>>

InsertTest(t) ==
  /\ request[t] = "checked"
  /\ request' = [request EXCEPT ![t] = "inserted"]
  /\ status'  = [status EXCEPT ![t] = "pending"]
  /\ UNCHANGED <<owner, hb, ended, redis, topic, memory, job, budget>>

\* A failed publish is logged and the request is still answered 202.
PublishStart(t) ==
  /\ request[t] = "inserted"
  /\ request' = [request EXCEPT ![t] = "done"]
  /\ \/ /\ Send(ContestantOf[t], [event |-> "START_TEST", test |-> t])
        /\ UNCHANGED faults
     \/ Fault /\ UNCHANGED topic
  /\ UNCHANGED <<db, redis, memory, job, crashes, scans, reported>>

\* External: something reports a dead container on the topic.
ReportCrash(c) ==
  /\ c \in CrashReports \ reported /\ Mishaps < MaxMishaps
  /\ reported' = reported \cup {c}
  /\ Send(c, [event |-> "CONTAINER_CRASHED", contestant |-> c])
  /\ UNCHANGED <<db, redis, request, memory, job, crashes, faults, scans>>

-----------------------------------------------------------------------------
(* Pieces shared by the handlers *)

contestantFor(i, t) == t \in active[i] \/ t \in known

\* Mutated form of setTimer: the callback is never scheduled.
setTimerUnarmed(i, t, kind) ==
  /\ active' = [active EXCEPT ![i] = @ \cup {t}]
  /\ timers' = [timers EXCEPT ![i][t] = kind]
  /\ UNCHANGED armed

\* Register the test and a stop timer.  The map entry is overwritten: a timer
\* it pointed to stays pending.
setTimer(i, t, kind) ==
  /\ active' = [active EXCEPT ![i] = @ \cup {t}]
  /\ timers' = [timers EXCEPT ![i][t] = kind]
  /\ armed'  = [armed EXCEPT ![i] = @ \cup {<<t, kind>>}]

cancelTimer(i, t) ==
  /\ armed'  = [armed EXCEPT ![i] = @ \ {<<t, timers[i][t]>>}]
  /\ timers' = [timers EXCEPT ![i][t] = "none"]

\* FailTest up to its first store call; `todo' is what its caller still has.
BeginFail(p, t, todo) ==
  /\ cancelTimer(p[1], t)
  /\ job' = [job EXCEPT ![p] =
               [ReadStep("fail", t, todo) EXCEPT !.key = contestantFor(p[1], t)]]

BeginStop(p, t, todo) ==
  /\ cancelTimer(p[1], t)
  /\ job' = [job EXCEPT ![p] = ReadStep("stop", t, todo)]

\* Where a goroutine goes when the handler it called returns.
After(p) ==
  IF p[2] = "recovery"
  THEN [NoJob EXCEPT !.op = "loop", !.at = "release",
                     !.test = job[p].test, !.todo = job[p].todo]
  ELSE IF job[p].todo = {} THEN NoJob
  ELSE [NoJob EXCEPT !.op = "loop", !.at = "next", !.todo = job[p].todo]

Return(p) == job' = [job EXCEPT ![p] = After(p)]

\* An error other than ErrConcurrentModification: StartTest gives the lock
\* back and handleStart fails the test; the others return it to a caller
\* that at most logs it.
Error(p) ==
  IF job[p].op = "start"
  THEN job' = [job EXCEPT ![p].op = "abort", ![p].at = "unlock"]
  ELSE Return(p)

Lost(p) == IF job[p].op = "start" THEN Goto(p, "unlock") ELSE Return(p)

-----------------------------------------------------------------------------
(* TransitionTo: read the status, check the edge, compare and set *)

Allowed(op, s) == Target[op] \in legalTransitions[s]

ReadStatus(p) ==
  LET j == job[p] IN
  /\ j.at = "read"
  /\ \/ /\ Allowed(j.op, status[j.test])
        /\ job' = [job EXCEPT ![p].at = "cas", ![p].from = status[j.test]]
        /\ UNCHANGED faults
     \/ /\ ~Allowed(j.op, status[j.test])
        /\ Error(p) /\ UNCHANGED faults
     \/ Fault /\ Error(p)
  /\ UNCHANGED <<db, redis, topic, request, memory, crashes, scans, reported>>

NextStep == [start |-> "seed", stop |-> "publish", complete |-> "mark",
             fail |-> "publish"]

\* Mutated form of SetStatus: UPDATE without AND status = from.
SetStatusBlindly(p) ==
  /\ status' = [status EXCEPT ![job[p].test] = Target[job[p].op]]
  /\ owner'  = [owner EXCEPT ![job[p].test] = p[1]]

\* UPDATE tests SET status, orchestrator_instance_id WHERE id AND status = from.
SetStatus(p) ==
  /\ status[job[p].test] = job[p].from
  /\ status' = [status EXCEPT ![job[p].test] = Target[job[p].op]]
  /\ owner'  = [owner EXCEPT ![job[p].test] = p[1]]

CASStatus(p) ==
  LET j == job[p] IN
  /\ j.at = "cas"
  /\ \/ /\ SetStatus(p)
        /\ job' = [job EXCEPT ![p].at = NextStep[j.op], ![p].from = "absent"]
        /\ UNCHANGED faults
     \/ /\ status[j.test] # j.from
        /\ Lost(p) /\ UNCHANGED <<status, owner, faults>>
     \/ Fault /\ Error(p) /\ (SetStatus(p) \/ UNCHANGED <<status, owner>>)
  /\ UNCHANGED <<hb, ended, redis, topic, request, memory, crashes, scans, reported>>

-----------------------------------------------------------------------------
(* StartTest, called by the consumer *)

\* Mutated form of lockFree: SET in place of SETNX.
lockFreeAlways(c) == TRUE

lockFree(c) == lock[c] = NoTest

\* Mutated form of startRefused: handleStart takes a held lock for a failure.
startFailed(p) == BeginFail(p, job[p].test, {}) /\ UNCHANGED active

\* handleStart ignores ErrConcurrentModification.
startRefused(p) == Return(p) /\ UNCHANGED memory

\* SETNX lock:test:<contestant>.  A taken lock drops the event for good; a
\* reported error may have set the key.
AcquireLock(p) ==
  LET t == job[p].test  c == ContestantOf[t] IN
  /\ job[p].at = "lock"
  /\ \/ /\ lockFree(c)
        /\ lock' = [lock EXCEPT ![c] = t]
        /\ Goto(p, "read")
        /\ UNCHANGED <<memory, faults>>
     \/ /\ ~lockFree(c)
        /\ startRefused(p)
        /\ UNCHANGED <<lock, faults>>
     \/ /\ Fault /\ BeginFail(p, t, {}) /\ UNCHANGED active
        /\ \/ UNCHANGED lock
           \/ lockFree(c) /\ lock' = [lock EXCEPT ![c] = t]
  /\ UNCHANGED <<db, recLock, known, topic, request, crashes, scans, reported>>

\* A plain DEL, whoever holds the key by now; its error is ignored.
releaseLock(c) ==
  \/ lock' = [lock EXCEPT ![c] = NoTest] /\ UNCHANGED faults
  \/ Fault /\ UNCHANGED lock

Unlock(p) ==
  LET t == job[p].test IN
  /\ job[p].at = "unlock"
  /\ releaseLock(ContestantOf[t])
  /\ \/ job[p].op = "abort" /\ BeginFail(p, t, {}) /\ UNCHANGED active
     \/ job[p].op = "start" /\ Return(p) /\ UNCHANGED memory
  /\ UNCHANGED <<db, recLock, known, topic, request, crashes, scans, reported>>

\* Contestant, target and start time go into the hash; errors are ignored.
Seed(p) ==
  /\ job[p].at = "seed"
  /\ \/ known' = known \cup {job[p].test} /\ UNCHANGED faults
     \/ Fault /\ UNCHANGED known
  /\ Goto(p, "publish")
  /\ UNCHANGED <<db, lock, recLock, topic, request, memory, crashes, scans, reported>>

Arm(p) ==
  /\ job[p].at = "arm"
  /\ setTimer(p[1], job[p].test, "start")
  /\ Return(p)
  /\ UNCHANGED <<db, redis, topic, request, budget>>

-----------------------------------------------------------------------------
(* Steps of StopTest and FailTest *)

\* StartTest forwards its event to BotFleetTopic, by default this same topic;
\* StopTest and FailTest announce the stop.
Publish(p) ==
  LET j     == job[p]
      keyed == IF j.op = "stop" THEN contestantFor(p[1], j.test) ELSE j.key
      key   == IF j.op = "start" \/ keyed THEN ContestantOf[j.test] ELSE NoKey
      event == IF j.op = "start" THEN "START_TEST" ELSE "STOP_TEST"
      step  == [start |-> "arm", stop |-> "drain", fail |-> "finish"]
  IN
  /\ j.at = "publish"
  /\ \/ Send(key, [event |-> event, test |-> j.test]) /\ UNCHANGED faults
     \/ Fault /\ UNCHANGED topic
  /\ job' = [job EXCEPT ![p].at = step[j.op], ![p].key = keyed]
  /\ UNCHANGED <<db, redis, request, memory, crashes, scans, reported>>

\* The ten second wait and the score, then the second TransitionTo.
Drain(p) ==
  /\ job[p].at = "drain"
  /\ job' = [job EXCEPT ![p].op = "complete", ![p].at = "read"]
  /\ UNCHANGED <<db, redis, topic, request, memory, budget>>

\* Mutated form of Mark: MarkEnded updates no row.
MarkBeforeTheRow(p) ==
  /\ job[p].at = "mark"
  /\ Goto(p, "finish")
  /\ UNCHANGED <<db, redis, topic, request, memory, budget>>

\* MarkEnded; its error is ignored.
Mark(p) ==
  /\ job[p].at = "mark"
  /\ \/ ended' = ended \cup {job[p].test} /\ UNCHANGED faults
     \/ Fault /\ UNCHANGED ended
  /\ Goto(p, "finish")
  /\ UNCHANGED <<status, owner, hb, redis, topic, request, memory>>
  /\ UNCHANGED <<crashes, scans, reported>>

\* finish: forget the test and DEL the contestant's lock, whoever holds it.
Finish(p) ==
  LET i == p[1]  j == job[p] IN
  /\ j.at = "finish"
  /\ active' = [active EXCEPT ![i] = @ \ {j.test}]
  /\ timers' = [timers EXCEPT ![i][j.test] = "none"]
  /\ \/ j.key /\ releaseLock(ContestantOf[j.test])
     \/ ~j.key /\ UNCHANGED <<lock, faults>>
  /\ Return(p)
  /\ UNCHANGED <<db, recLock, known, topic, request, armed, crashes, scans, reported>>

-----------------------------------------------------------------------------
(* The consumer loop: ReadMessage commits the offset before dispatch, so an *)
(* event is taken at most once.  The group may rebalance between any two    *)
(* messages, so any idle instance may take the next one of a key.           *)

Take(i, k, kind) ==
  /\ job[<<i, "consumer">>] = NoJob
  /\ topic[k] # <<>>
  /\ Head(topic[k]).event = kind
  /\ topic' = [topic EXCEPT ![k] = Tail(@)]

ReceiveStart(i, k) ==
  LET p == <<i, "consumer">> IN
  /\ Take(i, k, "START_TEST")
  /\ job' = [job EXCEPT ![p] = [NoJob EXCEPT !.op = "start", !.at = "lock",
                                             !.test = Head(topic[k]).test]]
  /\ UNCHANGED <<db, redis, request, memory, budget>>

ReceiveStop(i, k) ==
  /\ Take(i, k, "STOP_TEST")
  /\ BeginStop(<<i, "consumer">>, Head(topic[k]).test, {})
  /\ UNCHANGED <<db, redis, request, active, budget>>

\* FailTest for every test of the contestant in this instance's snapshot.
ReceiveCrash(i, k) ==
  LET hit == {t \in active[i] : ContestantOf[t] = Head(topic[k]).contestant} IN
  /\ Take(i, k, "CONTAINER_CRASHED")
  /\ job' = IF hit = {} THEN job
            ELSE [job EXCEPT ![<<i, "consumer">>] =
                    [NoJob EXCEPT !.op = "loop", !.at = "next", !.todo = hit]]
  /\ UNCHANGED <<db, redis, request, memory, budget>>

NextCrashed(i) ==
  LET p == <<i, "consumer">> IN
  /\ job[p].at = "next"
  /\ \E t \in job[p].todo : BeginFail(p, t, job[p].todo \ {t})
  /\ UNCHANGED <<db, redis, topic, request, active, budget>>

\* time.AfterFunc runs StopTest on a goroutine of its own.  Firing removes the
\* timer from the runtime; StopTest's cancelTimer stops whichever timer the
\* map holds by then.  A test lasts longer than a heartbeat interval, so its
\* own timer fires after the owner's first stamp unless the stamp failed.
FireTimer(i, t, kind) ==
  /\ <<t, kind>> \in armed[i]
  /\ job[<<i, t>>] = NoJob
  /\ kind = "start" /\ hb[t] = "null" /\ owner[t] = i => faults > 0
  /\ armed'  = [armed EXCEPT ![i] = @ \ {<<t, kind>>, <<t, timers[i][t]>>}]
  /\ timers' = [timers EXCEPT ![i][t] = "none"]
  /\ job'    = [job EXCEPT ![<<i, t>>] = ReadStep("stop", t, {})]
  /\ UNCHANGED <<db, redis, topic, request, active, budget>>

-----------------------------------------------------------------------------
(* Recovery *)

\* Mutated form of Orphans: a NULL heartbeat is not stale.
StampedOrphans == {t \in Tests : status[t] \in InProgress /\ hb[t] = "stale"}

Orphans == {t \in Tests : status[t] \in InProgress /\ hb[t] # "fresh"}

\* WriteHeartbeats: only the row's owner may stamp it.
Heartbeat(i, t) ==
  /\ t \in active[i] /\ owner[t] = i /\ hb[t] # "fresh"
  /\ hb' = [hb EXCEPT ![t] = "fresh"]
  /\ UNCHANGED <<status, owner, ended, redis, topic, request, memory, job, budget>>

\* ORPHAN_DETECTION_INTERVAL_SECONDS pass without a stamp; a live owner that
\* lists the test stamps it six times in that interval.
HeartbeatStale(t) ==
  /\ hb[t] = "fresh" /\ status[t] \in InProgress
  /\ \A i \in Instances : owner[t] = i => t \notin active[i]
  /\ hb' = [hb EXCEPT ![t] = "stale"]
  /\ UNCHANGED <<status, owner, ended, redis, topic, request, memory, job, budget>>

\* The orphans are read once; the loop works through that snapshot.
FindOrphans(i) ==
  LET p == <<i, "recovery">> IN
  /\ job[p] = NoJob
  /\ Orphans # {}
  /\ \/ MaxScans = NoLimit /\ UNCHANGED scans
     \/ MaxScans # NoLimit /\ scans < MaxScans /\ scans' = scans + 1
  /\ job' = [job EXCEPT ![p] = [NoJob EXCEPT !.op = "loop", !.at = "next",
                                             !.todo = Orphans]]
  /\ UNCHANGED <<db, redis, topic, request, memory, crashes, faults, reported>>

LoopStep(at, t, todo) ==
  IF at = "next" /\ todo = {} THEN NoJob
  ELSE [NoJob EXCEPT !.op = "loop", !.at = at, !.test = t, !.todo = todo]

recoverLockFree(t) == recLock[t] = NoInstance

\* SETNX lock:recover:<test>; a taken lock or an error skips the orphan.
LockOrphan(i) ==
  LET p == <<i, "recovery">> IN
  /\ job[p].at = "next"
  /\ \E t \in job[p].todo :
       LET rest == job[p].todo \ {t} IN
       \/ /\ recoverLockFree(t)
          /\ recLock' = [recLock EXCEPT ![t] = i]
          /\ job' = [job EXCEPT ![p] = LoopStep("probe", t, rest)]
          /\ UNCHANGED faults
       \/ /\ ~recoverLockFree(t)
          /\ job' = [job EXCEPT ![p] = LoopStep("next", NoTest, rest)]
          /\ UNCHANGED <<recLock, faults>>
       \/ /\ Fault
          /\ job' = [job EXCEPT ![p] = LoopStep("next", NoTest, rest)]
          /\ \/ UNCHANGED recLock
             \/ recoverLockFree(t) /\ recLock' = [recLock EXCEPT ![t] = i]
  /\ UNCHANGED <<db, lock, known, topic, request, memory, crashes, scans, reported>>

\* remainingDuration can be used up only if no StartTest is under way and no
\* owner still waits for the timer that StartTest set.
DurationOver(t) ==
  /\ \A p \in Procs : job[p].test = t => job[p].op # "start"
  /\ \A i \in Instances : owner[t] = i => timers[i][t] # "start"

\* containerHealthy needs the target in the hash and a 200 from /health;
\* remainingDuration counts from started_at with the default duration, and is
\* zero when that cannot be read.
Probe(i) ==
  LET p == <<i, "recovery">>  t == job[p].test  todo == job[p].todo IN
  /\ job[p].at = "probe"
  /\ \/ t \in known /\ Goto(p, "claim") /\ UNCHANGED <<timers, armed, faults>>
     \/ t \in known /\ DurationOver(t) /\ BeginStop(p, t, todo) /\ UNCHANGED faults
     \/ t \in known /\ Fault /\ BeginStop(p, t, todo)
     \/ BeginFail(p, t, todo) /\ UNCHANGED faults
  /\ UNCHANGED <<db, redis, topic, request, active, crashes, scans, reported>>

\* ClaimRecovery has no condition on the status; its error is ignored.
ClaimRecovery(i) ==
  LET p == <<i, "recovery">> IN
  /\ job[p].at = "claim"
  /\ \/ /\ owner' = [owner EXCEPT ![job[p].test] = i]
        /\ hb'    = [hb EXCEPT ![job[p].test] = "fresh"]
        /\ UNCHANGED faults
     \/ Fault /\ UNCHANGED <<owner, hb>>
  /\ Goto(p, "register")
  /\ UNCHANGED <<status, ended, redis, topic, request, memory, crashes, scans, reported>>

RegisterRecoveredTimer(i) ==
  LET p == <<i, "recovery">> IN
  /\ job[p].at = "register"
  /\ setTimer(i, job[p].test, "recovered")
  /\ Return(p)
  /\ UNCHANGED <<db, redis, topic, request, budget>>

\* DEL lock:recover:<test>, then the next orphan of the snapshot.
ReleaseOrphan(i) ==
  LET p == <<i, "recovery">> IN
  /\ job[p].at = "release"
  /\ \/ recLock' = [recLock EXCEPT ![job[p].test] = NoInstance] /\ UNCHANGED faults
     \/ Fault /\ UNCHANGED recLock
  /\ job' = [job EXCEPT ![p] = LoopStep("next", NoTest, job[p].todo)]
  /\ UNCHANGED <<db, lock, known, topic, request, memory, crashes, scans, reported>>

-----------------------------------------------------------------------------
(* Time and crashes *)

\* The lock's TTL is the test's duration plus thirty seconds.  It cannot run
\* out while the timer StartTest set is pending, nor in the seconds a handler
\* works on the test, as long as nothing crashed or failed.
OnSchedule(t) ==
  \/ \E i \in Instances : <<t, "start">> \in armed[i]
  \/ \E p \in Procs : job[p].test = t /\ job[p].op # "loop"

LockExpires(c) ==
  /\ lock[c] # NoTest
  /\ OnSchedule(lock[c]) => crashes + faults > 0
  /\ lock' = [lock EXCEPT ![c] = NoTest]
  /\ UNCHANGED <<db, recLock, known, topic, request, memory, job, budget>>

\* lock:recover lives 30 s, longer than its holder needs.
RecoverLockExpires(t) ==
  /\ recLock[t] # NoInstance
  /\ job[<<recLock[t], "recovery">>].test # t
  /\ recLock' = [recLock EXCEPT ![t] = NoInstance]
  /\ UNCHANGED <<db, lock, known, topic, request, memory, job, budget>>

\* Kill or SIGTERM, and restart: nothing in memory is handed over.
Crash(i) ==
  /\ crashes < MaxCrashes /\ Mishaps < MaxMishaps
  /\ crashes' = crashes + 1
  /\ active'  = [active EXCEPT ![i] = {}]
  /\ timers'  = [timers EXCEPT ![i] = [t \in Tests |-> "none"]]
  /\ armed'   = [armed EXCEPT ![i] = {}]
  /\ job'     = [p \in Procs |-> IF p[1] = i THEN NoJob ELSE job[p]]
  /\ UNCHANGED <<db, redis, topic, request, faults, scans, reported>>

-----------------------------------------------------------------------------

Api == \E t \in Tests : CheckNoActiveTest(t) \/ InsertTest(t) \/ PublishStart(t)

\* One step of the handler goroutine p is in.
Handler(p) ==
  \/ AcquireLock(p) \/ ReadStatus(p) \/ CASStatus(p) \/ Unlock(p)
  \/ Seed(p) \/ Publish(p) \/ Arm(p) \/ Drain(p) \/ Mark(p) \/ Finish(p)

Consume(i) ==
  \/ \E k \in Keys : ReceiveStart(i, k) \/ ReceiveStop(i, k) \/ ReceiveCrash(i, k)
  \/ NextCrashed(i)

Timer(i) == \E t \in Tests, kind \in TimerKinds : FireTimer(i, t, kind)

Recover(i) ==
  \/ FindOrphans(i) \/ LockOrphan(i) \/ Probe(i)
  \/ ClaimRecovery(i) \/ RegisterRecoveredTimer(i) \/ ReleaseOrphan(i)

Time ==
  \/ \E t \in Tests : HeartbeatStale(t) \/ RecoverLockExpires(t)
  \/ \E c \in Contestants : LockExpires(c)

Next ==
  \/ Api
  \/ \E c \in Contestants : ReportCrash(c)
  \/ \E p \in Procs : Handler(p)
  \/ \E i \in Instances : Consume(i) \/ Timer(i) \/ Recover(i) \/ Crash(i)
  \/ \E i \in Instances, t \in Tests : Heartbeat(i, t)
  \/ Time

Spec == Init /\ [][Next]_vars

\* Goroutines run, timers fire, tickers tick and the group always has a
\* consumer; nothing forces a request, a crash or a fault.
DutyFairness ==
  /\ \A p \in Procs : WF_vars(Handler(p))
  /\ \A i \in Instances : WF_vars(Consume(i)) /\ WF_vars(Timer(i))
  /\ \A t \in Tests : WF_vars(HeartbeatStale(t)) /\ WF_vars(RecoverLockExpires(t))
  /\ \A i \in Instances, t \in Tests : WF_vars(Heartbeat(i, t))

Fairness == DutyFairness /\ \A i \in Instances : WF_vars(Recover(i))

FairSpec == Spec /\ Fairness

=============================================================================
