------------------------- MODULE OrchestratorProofs -------------------------
(***************************************************************************)
(* Proofs, for every set of tests, contestants and instances and every     *)
(* number of crashes and faults: type correctness, the status column       *)
(* implements TestLifecycle, one goroutine cleans up a test, one instance  *)
(* recovers an orphan.  Then, for the behaviours without crashes and       *)
(* failed calls, the two properties that need the stores to work.          *)
(***************************************************************************)
EXTENDS OrchestratorProps, TLAPS

USE DEF Statuses, Terminal, legalTransitions, Life!Statuses, Life!Terminal,
        Life!legalTransitions, InProgress

-----------------------------------------------------------------------------
(* Types of the pieces the handlers share *)

LEMMA NoJobType == NoJob \in Job /\ JobShape(NoJob)
BY ConstantsAssumption DEF NoJob, Job, Ops, Steps, JobShape, StepsOf

LEMMA ReadStepType ==
  ASSUME NEW op \in {"stop", "fail"}, NEW t \in Tests, NEW todo \in SUBSET Tests
  PROVE  /\ ReadStep(op, t, todo) \in Job
         /\ ReadStep(op, t, todo).at = "read"
         /\ ReadStep(op, t, todo).op = op
         /\ ReadStep(op, t, todo).test = t
         /\ ReadStep(op, t, todo).todo = todo
BY DEF ReadStep, NoJob, Job, Ops, Steps

LEMMA JobType == ASSUME TypeOK, NEW p \in Procs PROVE job[p] \in Job /\ JobShape(job[p])
BY DEF TypeOK

LEMMA ProcParts == ASSUME NEW p \in Procs
                   PROVE p[1] \in Instances /\ p[2] \in Threads /\ p = <<p[1], p[2]>>
BY DEF Procs

LEMMA ThreadProc ==
  ASSUME NEW i \in Instances
  PROVE  /\ <<i, "consumer">> \in Procs /\ <<i, "recovery">> \in Procs
         /\ \A t \in Tests : <<i, t>> \in Procs
BY DEF Procs, Threads

\* The part of TypeOK about goroutines, and the part about timers.
JobsOK   == job \in [Procs -> Job] /\ \A p \in Procs : JobShape(job[p])
TimersOK == /\ timers \in [Instances -> [Tests -> TimerKinds \cup {"none"}]]
            /\ armed  \in [Instances -> SUBSET (Tests \X TimerKinds)]

\* Replacing one goroutine's job by another well-formed one.
LEMMA JobUpdate ==
  ASSUME TypeOK, NEW p \in Procs, NEW j \in Job, JobShape(j),
         job' = [job EXCEPT ![p] = j]
  PROVE  JobsOK'
BY DEF TypeOK, JobsOK, JobShape

LEMMA AfterType ==
  ASSUME TypeOK, NEW p \in Procs, job[p].test \in Tests
  PROVE  After(p) \in Job /\ JobShape(After(p))
<1>1. job[p] \in Job BY JobType
<1> QED BY <1>1, NoJobType DEF After, NoJob, Job, Ops, Steps, JobShape, StepsOf

LEMMA ReturnType ==
  ASSUME TypeOK, NEW p \in Procs, job[p].test \in Tests, Return(p) PROVE JobsOK'
BY AfterType, JobUpdate DEF Return

LEMMA ErrorType ==
  ASSUME TypeOK, NEW p \in Procs, job[p].test \in Tests, Error(p) PROVE JobsOK'
<1>1. CASE job[p].op = "start"
  <2> DEFINE j == [job[p] EXCEPT !.op = "abort", !.at = "unlock"]
  <2>0. job[p] \in Job BY JobType
  <2>1. j \in Job /\ j.at = "unlock" /\ j.op = "abort" /\ j.test = job[p].test
    BY <2>0 DEF Job, Ops, Steps
  <2>2. JobShape(j) BY <2>1 DEF JobShape, StepsOf
  <2>3. job' = [job EXCEPT ![p] = j] BY <1>1 DEF Error, TypeOK, Job
  <2> QED BY <2>1, <2>2, <2>3, JobUpdate
<1>2. CASE job[p].op # "start"
  BY <1>2, ReturnType DEF Error
<1> QED BY <1>1, <1>2

LEMMA GotoType ==
  ASSUME TypeOK, NEW p \in Procs, job[p].test \in Tests,
         NEW step \in StepsOf[job[p].op] \ {"cas"}, step \in Steps, Goto(p, step)
  PROVE  JobsOK'
<1> DEFINE j == [job[p] EXCEPT !.at = step]
<1>0. job[p] \in Job BY JobType
<1>1. j \in Job /\ j.at = step /\ j.op = job[p].op /\ j.test = job[p].test
  BY <1>0 DEF Job
<1>2. JobShape(j) BY <1>1 DEF JobShape
<1>3. job' = [job EXCEPT ![p] = j] BY DEF Goto, TypeOK, Job
<1> QED BY <1>1, <1>2, <1>3, JobUpdate

LEMMA LostType ==
  ASSUME TypeOK, NEW p \in Procs, job[p].test \in Tests, Lost(p) PROVE JobsOK'
BY GotoType, ReturnType DEF Lost, Steps, StepsOf

LEMMA cancelTimerType ==
  ASSUME TypeOK, NEW i \in Instances, NEW t \in Tests, cancelTimer(i, t)
  PROVE  TimersOK'
BY DEF TypeOK, cancelTimer, TimersOK, TimerKinds

LEMMA BeginStopType ==
  ASSUME TypeOK, NEW p \in Procs, NEW t \in Tests, NEW todo \in SUBSET Tests,
         BeginStop(p, t, todo)
  PROVE  JobsOK' /\ TimersOK'
<1>1. TimersOK' BY ProcParts, cancelTimerType DEF BeginStop
<1>2. JobShape(ReadStep("stop", t, todo)) BY ReadStepType DEF JobShape, StepsOf
<1>3. JobsOK' BY <1>2, ReadStepType, JobUpdate DEF BeginStop
<1> QED BY <1>1, <1>3

LEMMA BeginFailType ==
  ASSUME TypeOK, NEW p \in Procs, NEW t \in Tests, NEW todo \in SUBSET Tests,
         BeginFail(p, t, todo)
  PROVE  JobsOK' /\ TimersOK'
<1> DEFINE j == [ReadStep("fail", t, todo) EXCEPT !.key = contestantFor(p[1], t)]
<1>1. TimersOK' BY ProcParts, cancelTimerType DEF BeginFail
<1>2. contestantFor(p[1], t) \in BOOLEAN BY ProcParts DEF contestantFor
<1>3. j \in Job /\ j.at = "read" /\ j.op = "fail" /\ j.test = t
  BY <1>2, ReadStepType DEF Job
<1>4. JobShape(j) BY <1>3 DEF JobShape, StepsOf
<1>5. JobsOK' BY <1>3, <1>4, JobUpdate DEF BeginFail
<1> QED BY <1>1, <1>5

LEMMA FaultType == ASSUME TypeOK, Fault PROVE faults' \in 0 .. MaxFaults
BY ConstantsAssumption DEF TypeOK, Fault

LEMMA SendType ==
  ASSUME TypeOK, NEW key \in Keys, NEW m \in TestEvent \cup CrashEvent, Send(key, m)
  PROVE  topic' \in [Keys -> Seq(TestEvent \cup CrashEvent)]
BY DEF TypeOK, Send

-----------------------------------------------------------------------------
(* TypeOK is inductive: one lemma per group of actions *)

LEMMA ApiTypeOK == ASSUME TypeOK, Api PROVE TypeOK'
<1> PICK t \in Tests : CheckNoActiveTest(t) \/ InsertTest(t) \/ PublishStart(t)
  BY DEF Api
<1>1. CASE CheckNoActiveTest(t)
  BY <1>1 DEF TypeOK, CheckNoActiveTest, db, redis, memory, budget
<1>2. CASE InsertTest(t)
  BY <1>2 DEF TypeOK, InsertTest, db, redis, memory, budget
<1>3. CASE PublishStart(t)
  <2>1. ContestantOf[t] \in Keys /\ [event |-> "START_TEST", test |-> t] \in TestEvent
    BY ConstantsAssumption DEF Keys, TestEvent
  <2>2. topic' \in [Keys -> Seq(TestEvent \cup CrashEvent)]
    BY <1>3, <2>1, SendType DEF PublishStart, TypeOK
  <2> QED BY <1>3, <2>2, ConstantsAssumption DEF TypeOK, PublishStart, db, redis, memory, Fault
<1> QED BY <1>1, <1>2, <1>3

LEMMA ReportTypeOK == ASSUME TypeOK, NEW c \in Contestants, ReportCrash(c) PROVE TypeOK'
<1>1. c \in Keys /\ [event |-> "CONTAINER_CRASHED", contestant |-> c] \in CrashEvent
  BY DEF Keys, CrashEvent
<1>2. topic' \in [Keys -> Seq(TestEvent \cup CrashEvent)]
  BY <1>1, SendType DEF ReportCrash
<1> QED BY <1>2 DEF TypeOK, ReportCrash, db, redis, memory

LEMMA SetStatusType ==
  ASSUME TypeOK, NEW p \in Procs, job[p].op \in {"start", "stop", "complete", "fail"},
         SetStatus(p)
  PROVE  /\ status' \in [Tests -> Statuses]
         /\ owner' \in [Tests -> Instances \cup {NoInstance}]
<1>1. p[1] \in Instances BY ProcParts
<1>2. Target[job[p].op] \in Statuses BY DEF Target
<1>3. /\ status \in [Tests -> Statuses]
      /\ owner \in [Tests -> Instances \cup {NoInstance}]
  BY DEF TypeOK
<1> QED BY <1>1, <1>2, <1>3 DEF SetStatus

LEMMA ReadStatusTypeOK == ASSUME TypeOK, NEW p \in Procs, ReadStatus(p) PROVE TypeOK'
<1>0. /\ job[p] \in Job /\ job[p].test \in Tests
      /\ job[p].op \in {"start", "stop", "complete", "fail"}
  BY JobType DEF ReadStatus, JobShape, StepsOf, Job, Ops
<1>1. CASE /\ Allowed(job[p].op, status[job[p].test])
           /\ job' = [job EXCEPT ![p].at = "cas", ![p].from = status[job[p].test]]
           /\ UNCHANGED faults
  <2> DEFINE j == [job[p] EXCEPT !.at = "cas", !.from = status[job[p].test]]
  <2>1. status[job[p].test] \in Statuses BY <1>0 DEF TypeOK
  <2>2. /\ j \in Job /\ j.op = job[p].op /\ j.from = status[job[p].test]
        /\ j.at = "cas" /\ j.test = job[p].test
    BY <1>0, <2>1 DEF Job, Steps
  <2>3. JobShape(j) BY <1>0, <2>2, <1>1 DEF JobShape, StepsOf, Allowed
  <2>4. job' = [job EXCEPT ![p] = j] BY <1>1, <1>0 DEF TypeOK, Job
  <2>5. JobsOK' BY <2>2, <2>3, <2>4, JobUpdate
  <2> QED BY <1>1, <2>5 DEF ReadStatus, TypeOK, JobsOK, db, redis, memory
<1>2. CASE Error(p) /\ UNCHANGED faults
  BY <1>0, <1>2, ErrorType DEF ReadStatus, TypeOK, JobsOK, db, redis, memory
<1>3. CASE Fault /\ Error(p)
  BY <1>0, <1>3, ErrorType, FaultType DEF ReadStatus, TypeOK, JobsOK, db, redis, memory
<1> QED BY <1>1, <1>2, <1>3 DEF ReadStatus

LEMMA CASStatusTypeOK == ASSUME TypeOK, NEW p \in Procs, CASStatus(p) PROVE TypeOK'
<1>0. /\ job[p] \in Job /\ job[p].test \in Tests
      /\ job[p].op \in {"start", "stop", "complete", "fail"}
  BY JobType DEF CASStatus, JobShape, StepsOf, Job, Ops
<1>1. CASE /\ SetStatus(p)
           /\ job' = [job EXCEPT ![p].at = NextStep[job[p].op], ![p].from = "absent"]
           /\ UNCHANGED faults
  <2> DEFINE j == [job[p] EXCEPT !.at = NextStep[job[p].op], !.from = "absent"]
  <2>1. NextStep[job[p].op] \in StepsOf[job[p].op] \ {"cas"} /\ NextStep[job[p].op] \in Steps
    BY <1>0 DEF NextStep, Steps, StepsOf
  <2>2. /\ j \in Job /\ j.at = NextStep[job[p].op] /\ j.op = job[p].op
        /\ j.test = job[p].test
    BY <1>0, <2>1 DEF Job
  <2>3. JobShape(j) BY <1>0, <2>1, <2>2 DEF JobShape
  <2>4. job' = [job EXCEPT ![p] = j] BY <1>1, <1>0 DEF TypeOK, Job
  <2>5. JobsOK' BY <2>2, <2>3, <2>4, JobUpdate
  <2> QED BY <1>0, <1>1, <2>5, SetStatusType DEF CASStatus, TypeOK, JobsOK, redis, memory
<1>2. CASE Lost(p) /\ UNCHANGED <<status, owner, faults>>
  BY <1>0, <1>2, LostType DEF CASStatus, TypeOK, JobsOK, redis, memory
<1>3. CASE Fault /\ Error(p) /\ (SetStatus(p) \/ UNCHANGED <<status, owner>>)
  <2>1. /\ status' \in [Tests -> Statuses]
        /\ owner' \in [Tests -> Instances \cup {NoInstance}]
    BY <1>0, <1>3, SetStatusType DEF TypeOK
  <2> QED BY <1>0, <1>3, <2>1, ErrorType, FaultType DEF CASStatus, TypeOK, JobsOK, redis, memory
<1> QED BY <1>1, <1>2, <1>3 DEF CASStatus
LEMMA AcquireLockTypeOK == ASSUME TypeOK, NEW p \in Procs, AcquireLock(p) PROVE TypeOK'
<1> DEFINE t == job[p].test  c == ContestantOf[t]
<1>0. /\ job[p] \in Job /\ t \in Tests /\ c \in Contestants
      /\ job[p].op = "start"
  BY JobType, ConstantsAssumption DEF AcquireLock, JobShape, StepsOf, Job, Ops
<1>1. CASE /\ lock' = [lock EXCEPT ![c] = t]
           /\ Goto(p, "read")
           /\ UNCHANGED <<memory, faults>>
  <2>1. JobsOK' BY <1>0, <1>1, GotoType DEF Steps, StepsOf
  <2>2. lock' \in [Contestants -> Tests \cup {NoTest}] BY <1>0, <1>1 DEF TypeOK
  <2> QED BY <1>1, <2>1, <2>2 DEF AcquireLock, TypeOK, JobsOK, db, memory
<1>2. CASE startRefused(p) /\ UNCHANGED <<lock, faults>>
  <2>1. JobsOK' BY <1>0, <1>2, ReturnType DEF startRefused
  <2> QED BY <1>2, <2>1 DEF AcquireLock, startRefused, TypeOK, JobsOK, db, memory
<1>3. CASE /\ Fault /\ BeginFail(p, t, {}) /\ UNCHANGED active
           /\ (UNCHANGED lock) \/ lock' = [lock EXCEPT ![c] = t]
  <2>1. JobsOK' /\ TimersOK' BY <1>0, <1>3, BeginFailType
  <2>2. lock' \in [Contestants -> Tests \cup {NoTest}] BY <1>0, <1>3 DEF TypeOK
  <2> QED BY <1>3, <2>1, <2>2, FaultType DEF AcquireLock, TypeOK, JobsOK, TimersOK, db
<1> QED BY <1>1, <1>2, <1>3 DEF AcquireLock

LEMMA releaseLockType ==
  ASSUME TypeOK, NEW c \in Contestants, releaseLock(c)
  PROVE  lock' \in [Contestants -> Tests \cup {NoTest}] /\ faults' \in 0 .. MaxFaults
BY FaultType DEF releaseLock, TypeOK

LEMMA UnlockTypeOK == ASSUME TypeOK, NEW p \in Procs, Unlock(p) PROVE TypeOK'
<1>0. job[p] \in Job /\ job[p].test \in Tests /\ ContestantOf[job[p].test] \in Contestants
  BY JobType, ConstantsAssumption DEF Unlock, JobShape, StepsOf, Job, Ops
<1>1. lock' \in [Contestants -> Tests \cup {NoTest}] /\ faults' \in 0 .. MaxFaults
  BY <1>0, releaseLockType DEF Unlock
<1>2. CASE BeginFail(p, job[p].test, {}) /\ UNCHANGED active
  <2>1. JobsOK' /\ TimersOK' BY <1>0, <1>2, BeginFailType
  <2> QED BY <1>1, <1>2, <2>1 DEF Unlock, TypeOK, JobsOK, TimersOK, db
<1>3. CASE Return(p) /\ UNCHANGED memory
  <2>1. JobsOK' BY <1>0, <1>3, ReturnType
  <2> QED BY <1>1, <1>3, <2>1 DEF Unlock, TypeOK, JobsOK, db, memory
<1> QED BY <1>2, <1>3 DEF Unlock

LEMMA SeedTypeOK == ASSUME TypeOK, NEW p \in Procs, Seed(p) PROVE TypeOK'
<1>0. job[p] \in Job /\ job[p].test \in Tests /\ job[p].op = "start"
  BY JobType DEF Seed, JobShape, StepsOf, Job, Ops
<1>1. JobsOK' BY <1>0, GotoType DEF Seed, Steps, StepsOf
<1>2. known' \subseteq Tests /\ faults' \in 0 .. MaxFaults
  BY <1>0, FaultType DEF Seed, TypeOK
<1> QED BY <1>1, <1>2 DEF Seed, TypeOK, JobsOK, db, memory

LEMMA setTimerType ==
  ASSUME TypeOK, NEW i \in Instances, NEW t \in Tests, NEW kind \in TimerKinds,
         setTimer(i, t, kind)
  PROVE  TimersOK' /\ active' \in [Instances -> SUBSET Tests]
BY DEF TypeOK, setTimer, TimersOK

LEMMA ArmTypeOK == ASSUME TypeOK, NEW p \in Procs, Arm(p) PROVE TypeOK'
<1>0. job[p] \in Job /\ job[p].test \in Tests
  BY JobType DEF Arm, JobShape, StepsOf, Job, Ops
<1>1. JobsOK' BY <1>0, ReturnType DEF Arm
<1>2. TimersOK' /\ active' \in [Instances -> SUBSET Tests]
  BY <1>0, ProcParts, setTimerType DEF Arm, TimerKinds
<1> QED BY <1>1, <1>2 DEF Arm, TypeOK, JobsOK, TimersOK, db, redis, budget

LEMMA PublishTypeOK == ASSUME TypeOK, NEW p \in Procs, Publish(p) PROVE TypeOK'
<1> DEFINE keyed == IF job[p].op = "stop" THEN contestantFor(p[1], job[p].test) ELSE job[p].key
           key   == IF job[p].op = "start" \/ keyed THEN ContestantOf[job[p].test] ELSE NoKey
           event == IF job[p].op = "start" THEN "START_TEST" ELSE "STOP_TEST"
           step  == [start |-> "arm", stop |-> "drain", fail |-> "finish"]
           j     == [job[p] EXCEPT !.at = step[job[p].op], !.key = keyed]
<1>0. /\ job[p] \in Job /\ job[p].test \in Tests
      /\ job[p].op \in {"start", "stop", "fail"} /\ job[p].at = "publish"
  BY JobType DEF Publish, JobShape, StepsOf, Job, Ops
<1>1. keyed \in BOOLEAN BY <1>0, ProcParts DEF contestantFor, Job
<1>2. key \in Keys BY <1>0, ConstantsAssumption DEF Keys
<1>3. [event |-> event, test |-> job[p].test] \in TestEvent BY <1>0 DEF TestEvent
<1>4. topic' \in [Keys -> Seq(TestEvent \cup CrashEvent)] /\ faults' \in 0 .. MaxFaults
  <2>1. CASE Send(key, [event |-> event, test |-> job[p].test]) /\ UNCHANGED faults
    BY <2>1, <1>2, <1>3, SendType DEF TypeOK
  <2>2. CASE Fault /\ UNCHANGED topic
    BY <2>2, FaultType DEF TypeOK
  <2> QED BY <2>1, <2>2 DEF Publish
<1>5. /\ step[job[p].op] \in StepsOf[job[p].op] \ {"cas"}
      /\ step[job[p].op] \in Steps
  BY <1>0 DEF StepsOf, Steps
<1>6. j \in Job /\ j.at = step[job[p].op] /\ j.op = job[p].op /\ j.test = job[p].test
  BY <1>0, <1>1, <1>5 DEF Job
<1>7. JobShape(j) BY <1>0, <1>5, <1>6 DEF JobShape
<1>8. job' = [job EXCEPT ![p] = j] BY <1>0 DEF Publish, TypeOK, Job
<1>9. JobsOK' BY <1>6, <1>7, <1>8, JobUpdate
<1> QED BY <1>4, <1>9 DEF Publish, TypeOK, JobsOK, db, redis, memory

LEMMA DrainTypeOK == ASSUME TypeOK, NEW p \in Procs, Drain(p) PROVE TypeOK'
<1> DEFINE j == [job[p] EXCEPT !.op = "complete", !.at = "read"]
<1>0. job[p] \in Job /\ job[p].test \in Tests
  BY JobType DEF Drain, JobShape, StepsOf, Job, Ops
<1>1. j \in Job /\ j.at = "read" /\ j.op = "complete" /\ j.test = job[p].test
  BY <1>0 DEF Job, Ops, Steps
<1>2. JobShape(j) BY <1>0, <1>1 DEF JobShape, StepsOf
<1>3. job' = [job EXCEPT ![p] = j] BY <1>0 DEF Drain, TypeOK, Job
<1>4. JobsOK' BY <1>1, <1>2, <1>3, JobUpdate
<1> QED BY <1>4 DEF Drain, TypeOK, JobsOK, db, redis, memory, budget

LEMMA MarkTypeOK == ASSUME TypeOK, NEW p \in Procs, Mark(p) PROVE TypeOK'
<1>0. job[p] \in Job /\ job[p].test \in Tests /\ job[p].op = "complete"
  BY JobType DEF Mark, JobShape, StepsOf, Job, Ops
<1>1. JobsOK' BY <1>0, GotoType DEF Mark, Steps, StepsOf
<1>2. ended' \subseteq Tests /\ faults' \in 0 .. MaxFaults
  BY <1>0, FaultType DEF Mark, TypeOK
<1> QED BY <1>1, <1>2 DEF Mark, TypeOK, JobsOK, redis, memory

LEMMA FinishTypeOK == ASSUME TypeOK, NEW p \in Procs, Finish(p) PROVE TypeOK'
<1>0. job[p] \in Job /\ job[p].test \in Tests /\ p[1] \in Instances
  BY JobType, ProcParts DEF Finish, JobShape, StepsOf, Job, Ops
<1>1. JobsOK' BY <1>0, ReturnType DEF Finish
<1>2. /\ active' \in [Instances -> SUBSET Tests]
      /\ timers' \in [Instances -> [Tests -> TimerKinds \cup {"none"}]]
  BY <1>0 DEF Finish, TypeOK
<1>3. ContestantOf[job[p].test] \in Contestants BY <1>0, ConstantsAssumption
<1>4. lock' \in [Contestants -> Tests \cup {NoTest}] /\ faults' \in 0 .. MaxFaults
  <2>1. CASE releaseLock(ContestantOf[job[p].test]) BY <1>3, <2>1, releaseLockType
  <2>2. CASE UNCHANGED <<lock, faults>> BY <2>2 DEF TypeOK
  <2> QED BY <2>1, <2>2 DEF Finish
<1> QED BY <1>1, <1>2, <1>4 DEF Finish, TypeOK, JobsOK, db

LEMMA HandlerTypeOK == ASSUME TypeOK, NEW p \in Procs, Handler(p) PROVE TypeOK'
BY AcquireLockTypeOK, ReadStatusTypeOK, CASStatusTypeOK, UnlockTypeOK, SeedTypeOK,
   PublishTypeOK, ArmTypeOK, DrainTypeOK, MarkTypeOK, FinishTypeOK DEF Handler

LEMMA TakeType ==
  ASSUME TypeOK, NEW i \in Instances, NEW k \in Keys, NEW kind, Take(i, k, kind)
  PROVE  /\ topic' \in [Keys -> Seq(TestEvent \cup CrashEvent)]
         /\ Head(topic[k]) \in TestEvent \cup CrashEvent
         /\ kind # "CONTAINER_CRASHED" => Head(topic[k]).test \in Tests
<1>1. topic[k] \in Seq(TestEvent \cup CrashEvent) /\ topic[k] # <<>>
  BY DEF TypeOK, Take
<1>2. /\ Head(topic[k]) \in TestEvent \cup CrashEvent
      /\ Tail(topic[k]) \in Seq(TestEvent \cup CrashEvent)
  BY <1>1
<1>3. topic' = [topic EXCEPT ![k] = Tail(topic[k])] /\ Head(topic[k]).event = kind
  BY DEF Take
<1>4. topic' \in [Keys -> Seq(TestEvent \cup CrashEvent)] BY <1>2, <1>3 DEF TypeOK
<1> QED BY <1>2, <1>3, <1>4 DEF TestEvent, CrashEvent

LEMMA StartJobType ==
  ASSUME NEW t \in Tests
  PROVE  LET j == [NoJob EXCEPT !.op = "start", !.at = "lock", !.test = t]
         IN  j \in Job /\ JobShape(j) /\ j.op = "start"
<1> DEFINE j == [NoJob EXCEPT !.op = "start", !.at = "lock", !.test = t]
<1>1. j \in Job /\ j.op = "start" /\ j.at = "lock" /\ j.test \in Tests
  BY DEF NoJob, Job, Ops, Steps
<1>2. JobShape(j) BY <1>1 DEF JobShape, StepsOf
<1> QED BY <1>1, <1>2

LEMMA LoopJobType ==
  ASSUME NEW at \in {"probe", "next"}, NEW t \in Tests \cup {NoTest},
         NEW todo \in SUBSET Tests, at = "probe" => t \in Tests
  PROVE  LET j == [NoJob EXCEPT !.op = "loop", !.at = at, !.test = t, !.todo = todo]
         IN  j \in Job /\ JobShape(j)
<1> DEFINE j == [NoJob EXCEPT !.op = "loop", !.at = at, !.test = t, !.todo = todo]
<1>1. j \in Job /\ j.op = "loop" /\ j.at = at /\ j.test = t
  BY DEF NoJob, Job, Ops, Steps
<1>2. JobShape(j) BY <1>1 DEF JobShape, StepsOf
<1> QED BY <1>1, <1>2

LEMMA LoopHeadType ==
  ASSUME NEW todo \in SUBSET Tests
  PROVE  LET j == [NoJob EXCEPT !.op = "loop", !.at = "next", !.todo = todo]
         IN  j \in Job /\ JobShape(j)
<1> DEFINE j == [NoJob EXCEPT !.op = "loop", !.at = "next", !.todo = todo]
<1>1. j \in Job /\ j.op = "loop" /\ j.at = "next"
  BY DEF NoJob, Job, Ops, Steps
<1>2. JobShape(j) BY <1>1 DEF JobShape, StepsOf
<1> QED BY <1>1, <1>2

LEMMA LoopStepType ==
  ASSUME NEW at \in {"probe", "next"}, NEW t \in Tests \cup {NoTest},
         NEW todo \in SUBSET Tests, at = "probe" => t \in Tests
  PROVE  LoopStep(at, t, todo) \in Job /\ JobShape(LoopStep(at, t, todo))
BY LoopJobType, NoJobType DEF LoopStep

LEMMA ConsumeTypeOK == ASSUME TypeOK, NEW i \in Instances, Consume(i) PROVE TypeOK'
<1> DEFINE p == <<i, "consumer">>
<1>0. p \in Procs /\ p[1] = i BY ThreadProc
<1>1. ASSUME NEW k \in Keys, ReceiveStart(i, k) PROVE TypeOK'
  <2> DEFINE j == [NoJob EXCEPT !.op = "start", !.at = "lock", !.test = Head(topic[k]).test]
  <2>1. Take(i, k, "START_TEST") BY <1>1 DEF ReceiveStart
  <2>2. Head(topic[k]).test \in Tests BY <2>1, TakeType
  <2>3. j \in Job /\ JobShape(j) BY <2>2, StartJobType
  <2>5. JobsOK' BY <1>0, <1>1, <2>3, JobUpdate DEF ReceiveStart
  <2>6. topic' \in [Keys -> Seq(TestEvent \cup CrashEvent)] BY <2>1, TakeType
  <2> QED BY <1>1, <2>5, <2>6 DEF ReceiveStart, TypeOK, JobsOK, db, redis, memory, budget
<1>2. ASSUME NEW k \in Keys, ReceiveStop(i, k) PROVE TypeOK'
  <2>1. Take(i, k, "STOP_TEST") BY <1>2 DEF ReceiveStop
  <2>2. Head(topic[k]).test \in Tests BY <2>1, TakeType
  <2>3. JobsOK' /\ TimersOK' BY <1>0, <1>2, <2>2, BeginStopType DEF ReceiveStop
  <2>4. topic' \in [Keys -> Seq(TestEvent \cup CrashEvent)] BY <2>1, TakeType
  <2> QED BY <1>2, <2>3, <2>4 DEF ReceiveStop, TypeOK, JobsOK, TimersOK, db, redis, budget
<1>3. ASSUME NEW k \in Keys, ReceiveCrash(i, k) PROVE TypeOK'
  <2> DEFINE hit == {t \in active[i] : ContestantOf[t] = Head(topic[k]).contestant}
             j == [NoJob EXCEPT !.op = "loop", !.at = "next", !.todo = hit]
  <2>1. hit \in SUBSET Tests BY DEF TypeOK
  <2>3. j \in Job /\ JobShape(j) BY <2>1, LoopHeadType
  <2>4. JobsOK'
    <3>1. CASE hit = {} BY <1>3, <3>1 DEF ReceiveCrash, TypeOK, JobsOK
    <3>2. CASE hit # {} BY <1>0, <1>3, <3>2, <2>3, JobUpdate DEF ReceiveCrash
    <3> QED BY <3>1, <3>2
  <2>5. topic' \in [Keys -> Seq(TestEvent \cup CrashEvent)]
    BY <1>3, TakeType DEF ReceiveCrash
  <2> QED BY <1>3, <2>4, <2>5 DEF ReceiveCrash, TypeOK, JobsOK, db, redis, memory, budget
<1>4. CASE NextCrashed(i)
  <2>1. PICK t \in job[p].todo : BeginFail(p, t, job[p].todo \ {t})
    BY <1>4 DEF NextCrashed
  <2>2. job[p] \in Job BY <1>0, JobType
  <2>3. t \in Tests /\ job[p].todo \ {t} \in SUBSET Tests BY <2>1, <2>2 DEF Job
  <2>4. JobsOK' /\ TimersOK' BY <1>0, <2>1, <2>3, BeginFailType
  <2> QED BY <1>4, <2>4 DEF NextCrashed, TypeOK, JobsOK, TimersOK, db, redis, budget
<1> QED BY <1>1, <1>2, <1>3, <1>4 DEF Consume

LEMMA TimerTypeOK == ASSUME TypeOK, NEW i \in Instances, Timer(i) PROVE TypeOK'
<1>1. PICK t \in Tests, kind \in TimerKinds : FireTimer(i, t, kind) BY DEF Timer
<1>2. JobShape(ReadStep("stop", t, {})) BY ReadStepType DEF JobShape, StepsOf
<1>3. JobsOK' BY <1>1, <1>2, ThreadProc, ReadStepType, JobUpdate DEF FireTimer
<1>4. TimersOK' BY <1>1 DEF FireTimer, TypeOK, TimersOK
<1> QED BY <1>1, <1>3, <1>4 DEF FireTimer, TypeOK, JobsOK, TimersOK, db, redis, budget

LEMMA RecoverTypeOK == ASSUME TypeOK, NEW i \in Instances, Recover(i) PROVE TypeOK'
<1> DEFINE p == <<i, "recovery">>
<1>0. p \in Procs /\ p[1] = i /\ job[p] \in Job /\ JobShape(job[p])
  BY ThreadProc, JobType
<1>1. CASE FindOrphans(i)
  <2> DEFINE j == [NoJob EXCEPT !.op = "loop", !.at = "next", !.todo = Orphans]
  <2>1. Orphans \in SUBSET Tests BY DEF Orphans
  <2>3. j \in Job /\ JobShape(j) BY <2>1, LoopHeadType
  <2>4. JobsOK' BY <1>0, <1>1, <2>3, JobUpdate DEF FindOrphans
  <2>5. scans' \in Nat BY <1>1, ConstantsAssumption DEF FindOrphans, TypeOK
  <2> QED BY <1>1, <2>4, <2>5 DEF FindOrphans, TypeOK, JobsOK, db, redis, memory
<1>2. CASE LockOrphan(i)
  <2>1. PICK t \in job[p].todo :
          \/ /\ recLock' = [recLock EXCEPT ![t] = i]
             /\ job' = [job EXCEPT ![p] = LoopStep("probe", t, job[p].todo \ {t})]
             /\ UNCHANGED faults
          \/ /\ job' = [job EXCEPT ![p] = LoopStep("next", NoTest, job[p].todo \ {t})]
             /\ (UNCHANGED recLock) \/ recLock' = [recLock EXCEPT ![t] = i]
             /\ Fault \/ UNCHANGED faults
    BY <1>2 DEF LockOrphan
  <2>2. t \in Tests /\ job[p].todo \ {t} \in SUBSET Tests BY <1>0, <2>1 DEF Job
  <2>3. JobsOK' BY <1>0, <2>1, <2>2, LoopStepType, JobUpdate
  <2>4. /\ recLock' \in [Tests -> Instances \cup {NoInstance}]
        /\ faults' \in 0 .. MaxFaults
    BY <2>1, <2>2, FaultType DEF TypeOK
  <2> QED BY <1>2, <2>3, <2>4 DEF LockOrphan, TypeOK, JobsOK, db, memory
<1>3. CASE Probe(i)
  <2>1. /\ job[p].test \in Tests /\ job[p].todo \in SUBSET Tests /\ job[p].op = "loop"
    BY <1>0, <1>3 DEF Probe, JobShape, StepsOf, Job, Ops
  <2>4. faults' \in 0 .. MaxFaults BY <1>3, FaultType DEF Probe, TypeOK
  <2>2. CASE Goto(p, "claim") /\ UNCHANGED <<timers, armed>>
    <3>1. JobsOK' BY <1>0, <2>1, <2>2, GotoType DEF Steps, StepsOf
    <3> QED BY <1>3, <2>2, <2>4, <3>1 DEF Probe, TypeOK, JobsOK, db, redis
  <2>3. CASE \/ BeginStop(p, job[p].test, job[p].todo)
             \/ BeginFail(p, job[p].test, job[p].todo)
    <3>1. JobsOK' /\ TimersOK' BY <1>0, <2>1, <2>3, BeginStopType, BeginFailType
    <3> QED BY <1>3, <2>4, <3>1 DEF Probe, TypeOK, JobsOK, TimersOK, db, redis
  <2> QED BY <1>3, <2>2, <2>3 DEF Probe
<1>4. CASE ClaimRecovery(i)
  <2>1. job[p].test \in Tests /\ job[p].op = "loop"
    BY <1>0, <1>4 DEF ClaimRecovery, JobShape, StepsOf, Job, Ops
  <2>2. JobsOK'
    <3>1. Goto(p, "register") BY <1>4 DEF ClaimRecovery
    <3> QED BY <1>0, <2>1, <3>1, GotoType DEF Steps, StepsOf
  <2>3. /\ owner' \in [Tests -> Instances \cup {NoInstance}]
        /\ hb' \in [Tests -> {"null", "fresh", "stale"}]
    <3>1. CASE UNCHANGED <<owner, hb>> BY <3>1 DEF TypeOK
    <3>2. CASE /\ owner' = [owner EXCEPT ![job[p].test] = i]
               /\ hb' = [hb EXCEPT ![job[p].test] = "fresh"]
      BY <2>1, <3>2 DEF TypeOK
    <3> QED BY <1>4, <3>1, <3>2 DEF ClaimRecovery
  <2>4. faults' \in 0 .. MaxFaults
    BY <1>4, FaultType DEF ClaimRecovery, TypeOK
  <2> QED BY <1>4, <2>2, <2>3, <2>4 DEF ClaimRecovery, TypeOK, JobsOK, redis, memory
<1>5. CASE RegisterRecoveredTimer(i)
  <2>1. job[p].test \in Tests
    BY <1>0, <1>5 DEF RegisterRecoveredTimer, JobShape, StepsOf, Job, Ops
  <2>2. JobsOK' BY <1>0, <1>5, <2>1, ReturnType DEF RegisterRecoveredTimer
  <2>3. TimersOK' /\ active' \in [Instances -> SUBSET Tests]
    BY <1>5, <2>1, setTimerType DEF RegisterRecoveredTimer, TimerKinds
  <2> QED BY <1>5, <2>2, <2>3
       DEF RegisterRecoveredTimer, TypeOK, JobsOK, TimersOK, db, redis, budget
<1>6. CASE ReleaseOrphan(i)
  <2>1. job[p].test \in Tests /\ job[p].todo \in SUBSET Tests
    BY <1>0, <1>6 DEF ReleaseOrphan, JobShape, StepsOf, Job, Ops
  <2>2. JobsOK' BY <1>0, <1>6, <2>1, LoopStepType, JobUpdate DEF ReleaseOrphan
  <2>3. recLock' \in [Tests -> Instances \cup {NoInstance}] /\ faults' \in 0 .. MaxFaults
    BY <1>6, <2>1, FaultType DEF ReleaseOrphan, TypeOK
  <2> QED BY <1>6, <2>2, <2>3 DEF ReleaseOrphan, TypeOK, JobsOK, db, memory
<1> QED BY <1>1, <1>2, <1>3, <1>4, <1>5, <1>6 DEF Recover

LEMMA TimeTypeOK == ASSUME TypeOK, Time PROVE TypeOK'
<1>1. ASSUME NEW t \in Tests, HeartbeatStale(t) PROVE TypeOK'
  BY <1>1 DEF HeartbeatStale, TypeOK, redis, memory, budget
<1>2. ASSUME NEW t \in Tests, RecoverLockExpires(t) PROVE TypeOK'
  BY <1>2 DEF RecoverLockExpires, TypeOK, db, memory, budget
<1>3. ASSUME NEW c \in Contestants, LockExpires(c) PROVE TypeOK'
  BY <1>3 DEF LockExpires, TypeOK, db, memory, budget
<1> QED BY <1>1, <1>2, <1>3 DEF Time

LEMMA CrashTypeOK == ASSUME TypeOK, NEW i \in Instances, Crash(i) PROVE TypeOK'
<1>1. JobsOK' BY NoJobType DEF Crash, TypeOK, JobsOK
<1>2. TimersOK' /\ active' \in [Instances -> SUBSET Tests]
  BY DEF Crash, TypeOK, TimersOK
<1>3. crashes' \in 0 .. MaxCrashes BY ConstantsAssumption DEF Crash, TypeOK
<1> QED BY <1>1, <1>2, <1>3 DEF Crash, TypeOK, JobsOK, TimersOK, db, redis

LEMMA InitTypeOK == Init => TypeOK
BY NoJobType, ConstantsAssumption DEF Init, TypeOK, Keys, TimerKinds

LEMMA NextTypeOK == TypeOK /\ [Next]_vars => TypeOK'
<1> SUFFICES ASSUME TypeOK, [Next]_vars PROVE TypeOK'
  OBVIOUS
<1>1. ASSUME NEW i \in Instances, NEW t \in Tests, Heartbeat(i, t) PROVE TypeOK'
  BY <1>1 DEF Heartbeat, TypeOK, redis, memory, budget
<1>2. CASE UNCHANGED vars
  BY <1>2 DEF vars, db, redis, memory, budget, TypeOK
<1> QED BY <1>1, <1>2, ApiTypeOK, ReportTypeOK, HandlerTypeOK, ConsumeTypeOK,
           TimerTypeOK, RecoverTypeOK, TimeTypeOK, CrashTypeOK DEF Next

\* For every set of tests, contestants and instances and every number of
\* crashes and faults, the variables keep their types and a goroutine only
\* compares-and-sets along a legal edge of the status it read.
THEOREM TypeCorrect == Spec => []TypeOK
BY InitTypeOK, NextTypeOK, PTL DEF Spec

-----------------------------------------------------------------------------
(* What one step of a handler can do *)

OthersKeepTheirJobs(p) == \A q \in Procs \ {p} : job'[q] = job[q]

\* A step of p's handler leaves the other goroutines alone, does not take the
\* recovery loop to another test, makes p a finisher only by the
\* compare-and-set, and writes the status only there.
HandlerStep(p) ==
  /\ OthersKeepTheirJobs(p)
  /\ p[2] = "recovery" => job'[p].test = job[p].test
  /\ \A t \in Tests : Finishing(p, t)' =>
       \/ Finishing(p, t)
       \/ /\ t = job[p].test /\ job[p].at = "cas" /\ SetStatus(p)
          /\ job[p].op \in {"complete", "fail"}
  /\ UNCHANGED status \/ (job[p].at = "cas" /\ SetStatus(p))
  /\ UNCHANGED <<recLock, request>>

\* A job a handler leaves behind when it is over, or starts to fail with.
LEMMA ReturnStep ==
  ASSUME TypeOK, NEW p \in Procs, Return(p)
  PROVE  /\ OthersKeepTheirJobs(p)
         /\ p[2] = "recovery" => job'[p].test = job[p].test
         /\ \A t \in Tests : ~Finishing(p, t)'
<1>1. job' = [job EXCEPT ![p] = After(p)] /\ job \in [Procs -> Job]
  BY DEF Return, TypeOK
<1>2. job'[p] = After(p) /\ OthersKeepTheirJobs(p) BY <1>1 DEF OthersKeepTheirJobs
<1>3. After(p).op \in {"none", "loop"} BY DEF After, NoJob
<1>4. p[2] = "recovery" => After(p).test = job[p].test BY DEF After, NoJob
<1> QED BY <1>2, <1>3, <1>4 DEF Finishing

LEMMA GotoStep ==
  ASSUME TypeOK, NEW p \in Procs, NEW step, Goto(p, step)
  PROVE  /\ OthersKeepTheirJobs(p)
         /\ job'[p].test = job[p].test /\ job'[p].op = job[p].op /\ job'[p].at = step
<1>1. job \in [Procs -> Job] /\ job[p] \in Job BY DEF TypeOK
<1>2. job' = [job EXCEPT ![p].at = step] BY DEF Goto
<1> QED BY <1>1, <1>2 DEF OthersKeepTheirJobs, Job

LEMMA ErrorStep ==
  ASSUME TypeOK, NEW p \in Procs, Error(p)
  PROVE  /\ OthersKeepTheirJobs(p)
         /\ p[2] = "recovery" => job'[p].test = job[p].test
         /\ \A t \in Tests : ~Finishing(p, t)'
<1>1. job \in [Procs -> Job] /\ job[p] \in Job BY DEF TypeOK
<1>2. CASE job[p].op = "start"
  <2>1. job' = [job EXCEPT ![p].op = "abort", ![p].at = "unlock"] BY <1>2 DEF Error
  <2>2. /\ OthersKeepTheirJobs(p)
        /\ job'[p].test = job[p].test /\ job'[p].op = "abort"
    BY <1>1, <2>1 DEF OthersKeepTheirJobs, Job
  <2> QED BY <2>2 DEF Finishing
<1>3. CASE job[p].op # "start" BY <1>3, ReturnStep DEF Error
<1> QED BY <1>2, <1>3

LEMMA BeginFailStep ==
  ASSUME TypeOK, NEW p \in Procs, NEW t \in Tests, NEW todo \in SUBSET Tests,
         BeginFail(p, t, todo)
  PROVE  /\ OthersKeepTheirJobs(p) /\ job'[p].test = t
         /\ \A u \in Tests : ~Finishing(p, u)'
<1> DEFINE j == [ReadStep("fail", t, todo) EXCEPT !.key = contestantFor(p[1], t)]
<1>1. job \in [Procs -> Job] /\ job' = [job EXCEPT ![p] = j] BY DEF TypeOK, BeginFail
<1>2. j.test = t /\ j.at = "read" BY DEF ReadStep, NoJob
<1>3. job'[p] = j BY <1>1
<1>4. OthersKeepTheirJobs(p) BY <1>1 DEF OthersKeepTheirJobs
<1>5. job'[p].test = t /\ job'[p].at = "read" BY <1>2, <1>3
<1> QED BY <1>4, <1>5 DEF Finishing

LEMMA BeginStopStep ==
  ASSUME TypeOK, NEW p \in Procs, NEW t \in Tests, NEW todo \in SUBSET Tests,
         BeginStop(p, t, todo)
  PROVE  /\ OthersKeepTheirJobs(p) /\ job'[p].test = t
         /\ \A u \in Tests : ~Finishing(p, u)'
<1> DEFINE j == ReadStep("stop", t, todo)
<1>1. job \in [Procs -> Job] /\ job' = [job EXCEPT ![p] = j] BY DEF TypeOK, BeginStop
<1>2. j.test = t /\ j.at = "read" BY DEF ReadStep, NoJob
<1>3. job'[p] = j BY <1>1
<1>4. OthersKeepTheirJobs(p) BY <1>1 DEF OthersKeepTheirJobs
<1>5. job'[p].test = t /\ job'[p].at = "read" BY <1>2, <1>3
<1> QED BY <1>4, <1>5 DEF Finishing

LEMMA HandlerSteps == ASSUME TypeOK, NEW p \in Procs, Handler(p) PROVE HandlerStep(p)
<1>0. /\ job \in [Procs -> Job] /\ job[p] \in Job
      /\ JobShape(job[p])
  BY DEF TypeOK
<1>a. job[p].op \notin {"none", "loop"} => job[p].test \in Tests
  BY <1>0 DEF JobShape, StepsOf, Job, Ops
<1>1. CASE AcquireLock(p)
  <2>0. job[p].op = "start" /\ job[p].test \in Tests
    BY <1>0, <1>1 DEF AcquireLock, JobShape, StepsOf, Job, Ops
  <2>1. CASE Goto(p, "read")
    BY <1>1, <2>0, <2>1, GotoStep DEF HandlerStep, AcquireLock, Finishing, db
  <2>2. CASE startRefused(p)
    BY <1>1, <2>2, ReturnStep DEF HandlerStep, AcquireLock, startRefused, db
  <2>3. CASE BeginFail(p, job[p].test, {})
    BY <1>1, <2>0, <2>3, BeginFailStep DEF HandlerStep, AcquireLock, db
  <2> QED BY <1>1, <2>1, <2>2, <2>3 DEF AcquireLock
<1>2. CASE ReadStatus(p)
  <2>1. CASE job' = [job EXCEPT ![p].at = "cas", ![p].from = status[job[p].test]]
    <3>1. OthersKeepTheirJobs(p) /\ job'[p].test = job[p].test /\ job'[p].at = "cas"
      BY <1>0, <2>1 DEF OthersKeepTheirJobs, Job
    <3> QED BY <1>2, <3>1 DEF HandlerStep, ReadStatus, Finishing, db, redis
  <2>2. CASE Error(p)
    BY <1>2, <2>2, ErrorStep DEF HandlerStep, ReadStatus, db, redis
  <2> QED BY <1>2, <2>1, <2>2 DEF ReadStatus
<1>3. CASE CASStatus(p)
  <2>0. /\ job[p].at = "cas" /\ UNCHANGED <<recLock, request>>
        /\ job[p].op \in {"start", "stop", "complete", "fail"}
    BY <1>0, <1>3 DEF CASStatus, JobShape, StepsOf, Job, Ops, redis
  <2>1. CASE /\ SetStatus(p)
             /\ job' = [job EXCEPT ![p].at = NextStep[job[p].op], ![p].from = "absent"]
    <3>1. /\ OthersKeepTheirJobs(p) /\ job'[p].test = job[p].test
          /\ job'[p].op = job[p].op
      BY <1>0, <2>1 DEF OthersKeepTheirJobs, Job
    <3>2. \A t \in Tests : Finishing(p, t)' => /\ t = job[p].test
                                               /\ job[p].op \in {"complete", "fail"}
      BY <3>1 DEF Finishing
    <3> QED BY <2>0, <2>1, <3>1, <3>2 DEF HandlerStep
  <2>2. CASE Lost(p) /\ UNCHANGED status
    <3>1. CASE job[p].op = "start"
      <4>1. Goto(p, "unlock") BY <2>2, <3>1 DEF Lost
      <4> QED BY <2>0, <2>2, <3>1, <4>1, GotoStep DEF HandlerStep, Finishing
    <3>2. CASE job[p].op # "start"
      <4>1. Return(p) BY <2>2, <3>2 DEF Lost
      <4> QED BY <2>0, <2>2, <4>1, ReturnStep DEF HandlerStep
    <3> QED BY <3>1, <3>2
  <2>3. CASE Error(p) /\ (SetStatus(p) \/ UNCHANGED <<status, owner>>)
    BY <2>0, <2>3, ErrorStep DEF HandlerStep
  <2> QED BY <1>3, <2>1, <2>2, <2>3 DEF CASStatus
<1>4. CASE Unlock(p)
  <2>0. job[p].test \in Tests
    BY <1>0, <1>4 DEF Unlock, JobShape, StepsOf, Job, Ops
  <2>1. CASE BeginFail(p, job[p].test, {})
    BY <1>4, <2>0, <2>1, BeginFailStep DEF HandlerStep, Unlock, db
  <2>2. CASE Return(p) BY <1>4, <2>2, ReturnStep DEF HandlerStep, Unlock, db
  <2> QED BY <1>4, <2>1, <2>2 DEF Unlock
<1>5. CASE Seed(p)
  <2>0. job[p].op = "start" BY <1>0, <1>5 DEF Seed, JobShape, StepsOf, Job, Ops
  <2>1. Goto(p, "publish") BY <1>5 DEF Seed
  <2> QED BY <1>5, <2>0, <2>1, GotoStep DEF HandlerStep, Seed, Finishing, db
<1>6. CASE Publish(p)
  <2> DEFINE keyed == IF job[p].op = "stop" THEN contestantFor(p[1], job[p].test)
                      ELSE job[p].key
             step  == [start |-> "arm", stop |-> "drain", fail |-> "finish"]
  <2>1. job' = [job EXCEPT ![p].at = step[job[p].op], ![p].key = keyed]
    BY <1>6 DEF Publish
  <2>2. /\ OthersKeepTheirJobs(p) /\ job'[p].test = job[p].test
        /\ job'[p].op = job[p].op /\ job[p].at = "publish"
    BY <1>0, <1>6, <2>1 DEF OthersKeepTheirJobs, Job, Publish
  <2>3. job[p].op \in {"start", "stop", "fail"}
    BY <1>0, <2>2 DEF JobShape, StepsOf, Job, Ops
  <2>4. \A t \in Tests : Finishing(p, t)' => Finishing(p, t)
    BY <2>2, <2>3 DEF Finishing
  <2> QED BY <1>6, <2>2, <2>4 DEF HandlerStep, Publish, db, redis
<1>7. CASE Arm(p)
  BY <1>7, ReturnStep DEF HandlerStep, Arm, db, redis
<1>8. CASE Drain(p)
  <2>1. job' = [job EXCEPT ![p].op = "complete", ![p].at = "read"] BY <1>8 DEF Drain
  <2>2. OthersKeepTheirJobs(p) /\ job'[p].test = job[p].test /\ job'[p].at = "read"
    BY <1>0, <2>1 DEF OthersKeepTheirJobs, Job
  <2> QED BY <1>8, <2>2 DEF HandlerStep, Drain, Finishing, db, redis
<1>9. CASE Mark(p)
  <2>0. job[p].op = "complete" /\ job[p].at = "mark"
    BY <1>0, <1>9 DEF Mark, JobShape, StepsOf, Job, Ops
  <2>1. Goto(p, "finish") BY <1>9 DEF Mark
  <2>2. \A t \in Tests : Finishing(p, t)' => Finishing(p, t)
    BY <2>0, <2>1, GotoStep DEF Finishing
  <2> QED BY <1>9, <2>1, <2>2, GotoStep DEF HandlerStep, Mark, redis
<1>10. CASE Finish(p)
  BY <1>10, ReturnStep DEF HandlerStep, Finish, db
<1> QED BY <1>1, <1>2, <1>3, <1>4, <1>5, <1>6, <1>7, <1>8, <1>9, <1>10 DEF Handler

-----------------------------------------------------------------------------
(* What the other actions can do *)

\* A step of the loops, the timers or the environment writes no status but
\* that of a new row, and makes nobody a finisher.
LoopStepFrame(p) ==
  /\ OthersKeepTheirJobs(p)
  /\ \A t \in Tests : ~Finishing(p, t)'
  /\ UNCHANGED <<status, request>>

LEMMA SetJobStep ==
  ASSUME TypeOK, NEW p \in Procs, NEW j \in Job, job' = [job EXCEPT ![p] = j],
         j.op \in {"none", "loop", "start", "stop"}
  PROVE  /\ OthersKeepTheirJobs(p) /\ job'[p] = j
         /\ \A t \in Tests : ~Finishing(p, t)'
<1>1. job \in [Procs -> Job] BY DEF TypeOK
<1>2. job'[p] = j /\ OthersKeepTheirJobs(p) BY <1>1 DEF OthersKeepTheirJobs
<1> QED BY <1>2 DEF Finishing

LEMMA ConsumeStep ==
  ASSUME TypeOK, NEW i \in Instances, Consume(i)
  PROVE  \/ LoopStepFrame(<<i, "consumer">>) \/ UNCHANGED <<job, status, request>>
         /\ UNCHANGED recLock
<1> DEFINE p == <<i, "consumer">>
<1>0. p \in Procs /\ job \in [Procs -> Job] /\ job[p] \in Job BY ThreadProc DEF TypeOK
<1>1. ASSUME NEW k \in Keys, ReceiveStart(i, k)
      PROVE  LoopStepFrame(p) /\ UNCHANGED recLock
  <2> DEFINE j == [NoJob EXCEPT !.op = "start", !.at = "lock", !.test = Head(topic[k]).test]
  <2>1. Head(topic[k]).test \in Tests BY <1>1, TakeType DEF ReceiveStart
  <2>2. j \in Job /\ j.op = "start" BY <2>1, StartJobType
  <2> QED BY <1>0, <1>1, <2>2, SetJobStep DEF ReceiveStart, LoopStepFrame, db, redis
<1>2. ASSUME NEW k \in Keys, ReceiveStop(i, k)
      PROVE  LoopStepFrame(p) /\ UNCHANGED recLock
  <2>1. Head(topic[k]).test \in Tests BY <1>2, TakeType DEF ReceiveStop
  <2> QED BY <1>0, <1>2, <2>1, BeginStopStep DEF ReceiveStop, LoopStepFrame, db, redis
<1>3. ASSUME NEW k \in Keys, ReceiveCrash(i, k)
      PROVE  LoopStepFrame(p) \/ UNCHANGED <<job, status, request>>
  <2> DEFINE hit == {t \in active[i] : ContestantOf[t] = Head(topic[k]).contestant}
             j == [NoJob EXCEPT !.op = "loop", !.at = "next", !.todo = hit]
  <2>1. hit \in SUBSET Tests BY DEF TypeOK
  <2>2. j \in Job BY <2>1, LoopHeadType
  <2>3. j.op = "loop" BY DEF NoJob
  <2> QED BY <1>0, <1>3, <2>2, <2>3, SetJobStep DEF ReceiveCrash, LoopStepFrame, db
<1>4. ASSUME NextCrashed(i) PROVE LoopStepFrame(p) /\ UNCHANGED recLock
  <2>1. PICK t \in job[p].todo : BeginFail(p, t, job[p].todo \ {t})
    BY <1>4 DEF NextCrashed
  <2>2. t \in Tests /\ job[p].todo \ {t} \in SUBSET Tests BY <1>0, <2>1 DEF Job
  <2> QED BY <1>0, <1>4, <2>1, <2>2, BeginFailStep DEF NextCrashed, LoopStepFrame, db, redis
<1> QED BY <1>1, <1>2, <1>3, <1>4 DEF Consume, ReceiveCrash, redis

LEMMA TimerStep ==
  ASSUME TypeOK, NEW i \in Instances, Timer(i)
  PROVE  \E t \in Tests : LoopStepFrame(<<i, t>>) /\ UNCHANGED recLock
<1>1. PICK t \in Tests, kind \in TimerKinds : FireTimer(i, t, kind) BY DEF Timer
<1>2. <<i, t>> \in Procs BY ThreadProc
<1>3. LoopStepFrame(<<i, t>>)
  <2>1. ReadStep("stop", t, {}) \in Job /\ ReadStep("stop", t, {}).op = "stop"
    BY ReadStepType
  <2>2. /\ job' = [job EXCEPT ![<<i, t>>] = ReadStep("stop", t, {})]
        /\ UNCHANGED <<status, request>>
    BY <1>1 DEF FireTimer, db
  <2> QED BY <1>2, <2>1, <2>2, SetJobStep DEF LoopStepFrame
<1> QED BY <1>1, <1>3 DEF FireTimer, redis

LEMMA LoopStepOp ==
  ASSUME NEW at, NEW t, NEW todo
  PROVE  LoopStep(at, t, todo).op \in {"none", "loop"}
BY DEF LoopStep, NoJob

LEMMA RecoverStep ==
  ASSUME TypeOK, NEW i \in Instances, Recover(i)
  PROVE  LoopStepFrame(<<i, "recovery">>)
<1> DEFINE p == <<i, "recovery">>
<1>0. p \in Procs /\ job \in [Procs -> Job] /\ job[p] \in Job /\ JobShape(job[p])
  BY ThreadProc DEF TypeOK
<1>1. CASE FindOrphans(i)
  <2> DEFINE j == [NoJob EXCEPT !.op = "loop", !.at = "next", !.todo = Orphans]
  <2>1. Orphans \in SUBSET Tests BY DEF Orphans
  <2>2. j \in Job BY <2>1, LoopHeadType
  <2>3. j.op = "loop" BY DEF NoJob
  <2> QED BY <1>0, <1>1, <2>2, <2>3, SetJobStep DEF FindOrphans, LoopStepFrame, db
<1>2. CASE LockOrphan(i)
  <2>1. PICK t \in job[p].todo :
          \/ job' = [job EXCEPT ![p] = LoopStep("probe", t, job[p].todo \ {t})]
          \/ job' = [job EXCEPT ![p] = LoopStep("next", NoTest, job[p].todo \ {t})]
    BY <1>2 DEF LockOrphan
  <2>2. t \in Tests /\ job[p].todo \ {t} \in SUBSET Tests BY <1>0, <2>1 DEF Job
  <2>3. /\ OthersKeepTheirJobs(p)
        /\ \A u \in Tests : ~Finishing(p, u)'
    BY <1>0, <2>1, <2>2, LoopStepType, LoopStepOp, SetJobStep
  <2> QED BY <1>2, <2>3 DEF LockOrphan, LoopStepFrame, db
<1>3. CASE Probe(i)
  <2>0. /\ job[p].op = "loop" /\ job[p].test \in Tests /\ job[p].todo \in SUBSET Tests
    BY <1>0, <1>3 DEF Probe, JobShape, StepsOf, Job, Ops
  <2>1. CASE Goto(p, "claim")
    BY <1>0, <1>3, <2>0, <2>1, GotoStep DEF Probe, LoopStepFrame, Finishing, db
  <2>2. CASE BeginStop(p, job[p].test, job[p].todo)
    BY <1>0, <1>3, <2>0, <2>2, BeginStopStep DEF Probe, LoopStepFrame, db
  <2>3. CASE BeginFail(p, job[p].test, job[p].todo)
    BY <1>0, <1>3, <2>0, <2>3, BeginFailStep DEF Probe, LoopStepFrame, db
  <2> QED BY <1>3, <2>1, <2>2, <2>3 DEF Probe
<1>4. CASE ClaimRecovery(i)
  <2>1. job[p].at = "claim" BY <1>4 DEF ClaimRecovery
  <2>2. job[p].op = "loop" BY <1>0, <2>1 DEF JobShape, StepsOf, Job, Ops
  <2> QED BY <1>0, <1>4, <2>2, GotoStep DEF ClaimRecovery, LoopStepFrame, Finishing
<1>5. CASE RegisterRecoveredTimer(i)
  BY <1>0, <1>5, ReturnStep DEF RegisterRecoveredTimer, LoopStepFrame, db
<1>6. CASE ReleaseOrphan(i)
  <2>1. job[p].todo \in SUBSET Tests BY <1>0 DEF Job
  <2>a. /\ LoopStep("next", NoTest, job[p].todo) \in Job
        /\ LoopStep("next", NoTest, job[p].todo).op \in {"none", "loop"}
    BY <2>1, LoopStepType, LoopStepOp
  <2>b. job' = [job EXCEPT ![p] = LoopStep("next", NoTest, job[p].todo)]
    BY <1>6 DEF ReleaseOrphan
  <2>2. /\ OthersKeepTheirJobs(p)
        /\ \A u \in Tests : ~Finishing(p, u)'
    BY <1>0, <2>a, <2>b, SetJobStep
  <2> QED BY <1>6, <2>2 DEF ReleaseOrphan, LoopStepFrame, db
<1> QED BY <1>1, <1>2, <1>3, <1>4, <1>5, <1>6 DEF Recover

-----------------------------------------------------------------------------
(* The status column implements TestLifecycle *)

\* A request that has not inserted its row has none: InsertTest creates it.
NoRowYet ==
  \A t \in Tests : request[t] \in {"new", "checked"} => status[t] = "absent"

LEMMA CASFromRow ==
  ASSUME TypeOK, NEW p \in Procs, job[p].at = "cas", SetStatus(p)
  PROVE  /\ job[p].test \in Tests
         /\ status' = [status EXCEPT ![job[p].test] = Target[job[p].op]]
         /\ Target[job[p].op] \in legalTransitions[status[job[p].test]]
         /\ job[p].op \in {"start", "stop", "complete", "fail"}
         /\ status[job[p].test] \in {"pending", "running", "stopping"}
<1>0. job[p] \in Job /\ JobShape(job[p]) BY JobType
<1>1. /\ job[p].test \in Tests /\ job[p].op \in {"start", "stop", "complete", "fail"}
  BY <1>0 DEF JobShape, StepsOf, Job, Ops
<1>2. /\ status' = [status EXCEPT ![job[p].test] = Target[job[p].op]]
      /\ status[job[p].test] = job[p].from
  BY DEF SetStatus
<1>3. Target[job[p].op] \in legalTransitions[status[job[p].test]]
  BY <1>0, <1>2 DEF JobShape
<1>4. status[job[p].test] \in Statuses BY <1>1 DEF TypeOK
<1>5. \A s \in Statuses : \A x \in legalTransitions[s] :
        s \in {"pending", "running", "stopping"}
  OBVIOUS
<1>6. status[job[p].test] \in {"pending", "running", "stopping"} BY <1>3, <1>4, <1>5
<1> QED BY <1>1, <1>2, <1>3, <1>6

\* Every step creates rows, moves one along an edge, or leaves them alone.
LEMMA StatusStep ==
  ASSUME TypeOK, [Next]_vars
  PROVE  \/ UNCHANGED status
         \/ \E t \in Tests : InsertTest(t)
         \/ \E p \in Procs : job[p].at = "cas" /\ SetStatus(p) /\ UNCHANGED request
<1>1. CASE Api
  BY <1>1 DEF Api, CheckNoActiveTest, PublishStart, db
<1>2. CASE \E c \in Contestants : ReportCrash(c) BY <1>2 DEF ReportCrash, db
<1>3. ASSUME NEW p \in Procs, Handler(p) PROVE UNCHANGED status \/
        (job[p].at = "cas" /\ SetStatus(p) /\ UNCHANGED request)
  BY <1>3, HandlerSteps DEF HandlerStep
<1>4. ASSUME NEW i \in Instances, Consume(i) \/ Timer(i) \/ Recover(i) \/ Crash(i)
      PROVE  UNCHANGED status
  BY <1>4, ConsumeStep, TimerStep, RecoverStep DEF LoopStepFrame, Crash, db
<1>5. CASE \E i \in Instances, t \in Tests : Heartbeat(i, t) BY <1>5 DEF Heartbeat
<1>6. CASE Time BY <1>6 DEF Time, HeartbeatStale, RecoverLockExpires, LockExpires, db
<1>7. CASE UNCHANGED vars BY <1>7 DEF vars, db
<1> QED BY <1>1, <1>2, <1>3, <1>4, <1>5, <1>6, <1>7 DEF Next

LEMMA RequestStep ==
  ASSUME TypeOK, [Next]_vars
  PROVE  UNCHANGED request \/ Api
<1>1. CASE \E c \in Contestants : ReportCrash(c) BY <1>1 DEF ReportCrash
<1>2. ASSUME NEW p \in Procs, Handler(p) PROVE UNCHANGED request
  BY <1>2, HandlerSteps DEF HandlerStep
<1>3. ASSUME NEW i \in Instances, Consume(i) \/ Timer(i) \/ Recover(i) \/ Crash(i)
      PROVE  UNCHANGED request
  BY <1>3, ConsumeStep, TimerStep, RecoverStep DEF LoopStepFrame, Crash
<1>4. CASE \E i \in Instances, t \in Tests : Heartbeat(i, t) BY <1>4 DEF Heartbeat
<1>5. CASE Time BY <1>5 DEF Time, HeartbeatStale, RecoverLockExpires, LockExpires
<1>6. CASE UNCHANGED vars BY <1>6 DEF vars
<1> QED BY <1>1, <1>2, <1>3, <1>4, <1>5, <1>6 DEF Next

LEMMA NoRowYetStep == TypeOK /\ NoRowYet /\ [Next]_vars => NoRowYet'
<1> SUFFICES ASSUME TypeOK, NoRowYet, [Next]_vars PROVE NoRowYet'
  OBVIOUS
<1>1. CASE Api
  <2>1. PICK t \in Tests : CheckNoActiveTest(t) \/ InsertTest(t) \/ PublishStart(t)
    BY <1>1 DEF Api
  <2> QED BY <2>1 DEF NoRowYet, TypeOK, CheckNoActiveTest, InsertTest, PublishStart, db
<1>2. CASE UNCHANGED request /\ ~Api
  <2>1. CASE UNCHANGED status BY <1>2, <2>1 DEF NoRowYet
  <2>2. ASSUME NEW p \in Procs, job[p].at = "cas", SetStatus(p) PROVE NoRowYet'
    <3>1. /\ job[p].test \in Tests /\ status \in [Tests -> Statuses]
          /\ status' = [status EXCEPT ![job[p].test] = Target[job[p].op]]
          /\ status[job[p].test] \in {"pending", "running", "stopping"}
      BY <2>2, CASFromRow DEF TypeOK
    <3> QED BY <1>2, <3>1 DEF NoRowYet
  <2>3. ~\E t \in Tests : InsertTest(t) BY <1>2 DEF Api
  <2> QED BY <2>1, <2>2, <2>3, StatusStep
<1> QED BY <1>1, <1>2, RequestStep

LEMMA LifecycleStep == TypeOK /\ NoRowYet /\ [Next]_vars => [Life!Next]_status
<1> SUFFICES ASSUME TypeOK, NoRowYet, [Next]_vars PROVE [Life!Next]_status
  OBVIOUS
<1>1. ASSUME NEW t \in Tests, InsertTest(t) PROVE Life!Create(t)
  BY <1>1 DEF NoRowYet, InsertTest, Life!Create
<1>2. ASSUME NEW p \in Procs, job[p].at = "cas", SetStatus(p) PROVE Life!Move(job[p].test)
  <2> DEFINE new == Target[job[p].op]
  <2>1. /\ new \in legalTransitions[status[job[p].test]]
        /\ status' = [status EXCEPT ![job[p].test] = new]
    BY <1>2, CASFromRow
  <2>2. \E s \in legalTransitions[status[job[p].test]] :
          status' = [status EXCEPT ![job[p].test] = s]
    BY <2>1
  <2> HIDE DEF legalTransitions, Life!legalTransitions
  <2>3. \E s \in Life!legalTransitions[status[job[p].test]] :
          status' = [status EXCEPT ![job[p].test] = s]
    BY <2>2 DEF legalTransitions
  <2> QED BY <2>3 DEF Life!Move
<1>3. ASSUME NEW p \in Procs, job[p].at = "cas", SetStatus(p) PROVE job[p].test \in Tests
  BY <1>3, CASFromRow
<1> QED BY <1>1, <1>2, <1>3, StatusStep DEF Life!Next

\* Whatever the instances do to a row at the same time, and wherever they
\* crash or a call fails, the status column follows legalTransitions one edge
\* at a time: the abstract life cycle is implemented.
THEOREM ImplementsLifecycle == Spec => Lifecycle
<1>1. Init => Life!Init /\ NoRowYet BY DEF Init, Life!Init, NoRowYet
<1>2. QED BY <1>1, TypeCorrect, NoRowYetStep, LifecycleStep, PTL
         DEF Spec, Lifecycle, Life!Spec

-----------------------------------------------------------------------------
(* One goroutine cleans up a test *)

\* The inductive strengthening of SingleFinisher: a test in a finisher's hands
\* has a final status, from which nobody can win another compare-and-set.
FinishersAreTerminal ==
  \A p \in Procs, t \in Tests : Finishing(p, t) => status[t] \in Terminal

\* A step makes at most the goroutine that just won the compare-and-set a
\* finisher; the others were finishers before.
LEMMA FinishingStep ==
  ASSUME TypeOK, [Next]_vars, NEW q \in Procs, NEW t \in Tests, Finishing(q, t)'
  PROVE  \/ Finishing(q, t)
         \/ /\ t = job[q].test /\ job[q].at = "cas" /\ SetStatus(q)
            /\ job[q].op \in {"complete", "fail"} /\ OthersKeepTheirJobs(q)
<1>1. ASSUME job'[q] = job[q] PROVE Finishing(q, t) BY <1>1 DEF Finishing
<1>2. ASSUME NEW p \in Procs, LoopStepFrame(p) PROVE Finishing(q, t)
  BY <1>1, <1>2 DEF LoopStepFrame, OthersKeepTheirJobs
<1>3. CASE Api
  BY <1>1, <1>3 DEF Api, CheckNoActiveTest, InsertTest, PublishStart
<1>4. CASE \E c \in Contestants : ReportCrash(c) BY <1>1, <1>4 DEF ReportCrash
<1>5. ASSUME NEW p \in Procs, Handler(p), ~Finishing(q, t)
      PROVE  /\ t = job[q].test /\ job[q].at = "cas" /\ SetStatus(q)
             /\ job[q].op \in {"complete", "fail"} /\ OthersKeepTheirJobs(q)
  <2>1. HandlerStep(p) BY <1>5, HandlerSteps
  <2>2. p = q BY <1>1, <1>5, <2>1 DEF HandlerStep, OthersKeepTheirJobs
  <2> QED BY <1>5, <2>1, <2>2 DEF HandlerStep
<1>6. ASSUME NEW i \in Instances, Consume(i) PROVE Finishing(q, t)
  BY <1>1, <1>2, <1>6, ConsumeStep, ThreadProc
<1>7. ASSUME NEW i \in Instances, Timer(i) PROVE Finishing(q, t)
  BY <1>2, <1>7, TimerStep, ThreadProc
<1>8. ASSUME NEW i \in Instances, Recover(i) PROVE Finishing(q, t)
  BY <1>2, <1>8, RecoverStep, ThreadProc
<1>9. ASSUME NEW i \in Instances, Crash(i) PROVE Finishing(q, t)
  <2>1. job'[q] = NoJob \/ job'[q] = job[q] BY <1>9 DEF Crash
  <2>2. job'[q] # NoJob BY DEF Finishing, NoJob
  <2> QED BY <1>1, <2>1, <2>2
<1>10. CASE \E i \in Instances, u \in Tests : Heartbeat(i, u)
  BY <1>1, <1>10 DEF Heartbeat
<1>11. CASE Time
  BY <1>1, <1>11 DEF Time, HeartbeatStale, RecoverLockExpires, LockExpires
<1>12. CASE UNCHANGED vars BY <1>1, <1>12 DEF vars
<1> QED BY <1>3, <1>4, <1>5, <1>6, <1>7, <1>8, <1>9, <1>10, <1>11, <1>12 DEF Next

\* A final status stays.
LEMMA TerminalStays ==
  ASSUME TypeOK, NoRowYet, [Next]_vars, NEW t \in Tests, status[t] \in Terminal
  PROVE  status'[t] = status[t]
<1>0. status \in [Tests -> Statuses] BY DEF TypeOK
<1>1. ASSUME NEW u \in Tests, InsertTest(u) PROVE status'[t] = status[t]
  <2>1. u # t BY <1>1 DEF InsertTest, NoRowYet
  <2> QED BY <1>0, <1>1, <2>1 DEF InsertTest
<1>2. ASSUME NEW p \in Procs, job[p].at = "cas", SetStatus(p) PROVE status'[t] = status[t]
  <2>1. /\ status' = [status EXCEPT ![job[p].test] = Target[job[p].op]]
        /\ status[job[p].test] \in {"pending", "running", "stopping"}
    BY <1>2, CASFromRow
  <2>2. job[p].test # t BY <2>1
  <2> QED BY <1>0, <2>1, <2>2
<1> QED BY <1>1, <1>2, StatusStep

LEMMA FinishersStep ==
  TypeOK /\ NoRowYet /\ FinishersAreTerminal /\ SingleFinisher /\ [Next]_vars
  => FinishersAreTerminal' /\ SingleFinisher'
<1> SUFFICES ASSUME TypeOK, NoRowYet, FinishersAreTerminal, SingleFinisher, [Next]_vars
             PROVE  FinishersAreTerminal' /\ SingleFinisher'
  OBVIOUS
\* The winner of the compare-and-set finds no finisher: its row was not final.
<1>1. ASSUME NEW q \in Procs, job[q].at = "cas", SetStatus(q), job[q].op \in {"complete", "fail"}
      PROVE  /\ status'[job[q].test] \in Terminal
             /\ \A p \in Procs : ~Finishing(p, job[q].test)
  <2>1. /\ job[q].test \in Tests
        /\ status' = [status EXCEPT ![job[q].test] = Target[job[q].op]]
        /\ status[job[q].test] \in {"pending", "running", "stopping"}
    BY <1>1, CASFromRow
  <2>2. status'[job[q].test] \in Terminal BY <1>1, <2>1 DEF TypeOK, Target
  <2> QED BY <2>1, <2>2 DEF FinishersAreTerminal
<1>2. ASSUME NEW q \in Procs, NEW t \in Tests, Finishing(q, t)'
      PROVE  status'[t] \in Terminal
  <2>1. CASE Finishing(q, t)
    BY <2>1, TerminalStays DEF FinishersAreTerminal
  <2>2. CASE ~Finishing(q, t) BY <1>1, <1>2, <2>2, FinishingStep
  <2> QED BY <2>1, <2>2
<1>3. ASSUME NEW p \in Procs, NEW q \in Procs, NEW t \in Tests,
             Finishing(p, t)', Finishing(q, t)'
      PROVE  p = q
  <2>1. CASE Finishing(p, t) /\ Finishing(q, t) BY <2>1 DEF SingleFinisher
  <2>2. CASE ~Finishing(q, t)
    <3>1. /\ t = job[q].test /\ OthersKeepTheirJobs(q)
          /\ \A r \in Procs : ~Finishing(r, t)
      BY <1>1, <1>3, <2>2, FinishingStep
    <3> QED BY <1>3, <3>1 DEF OthersKeepTheirJobs, Finishing
  <2>3. CASE ~Finishing(p, t)
    <3>1. /\ t = job[p].test /\ OthersKeepTheirJobs(p)
          /\ \A r \in Procs : ~Finishing(r, t)
      BY <1>1, <1>3, <2>3, FinishingStep
    <3> QED BY <1>3, <3>1 DEF OthersKeepTheirJobs, Finishing
  <2> QED BY <2>1, <2>2, <2>3
<1> QED BY <1>2, <1>3 DEF FinishersAreTerminal, SingleFinisher

\* Two goroutines, of one instance or of two, never clean up the same test,
\* so no releaseLock deletes the lock of the contestant's next test because
\* the clean-up ran twice.
THEOREM SingleFinisherHolds == Spec => []SingleFinisher
<1>1. Init => NoRowYet /\ FinishersAreTerminal /\ SingleFinisher
  BY DEF Init, NoRowYet, FinishersAreTerminal, SingleFinisher, Finishing, NoJob
<1>2. QED BY <1>1, TypeCorrect, NoRowYetStep, FinishersStep, PTL DEF Spec

-----------------------------------------------------------------------------
(* One instance recovers an orphan *)

\* The inductive strengthening of OneRecoverer.
RecoverersHoldTheLock ==
  \A i \in Instances, t \in Tests : Recovering(i, t) => recLock[t] = i

LEMMA RecoveryThreads ==
  ASSUME NEW i \in Instances, NEW k \in Instances
  PROVE  /\ <<i, "recovery">> # <<k, "consumer">>
         /\ \A t \in Tests : <<i, "recovery">> # <<k, t>>
         /\ <<i, "recovery">> = <<k, "recovery">> => i = k
BY ConstantsAssumption

\* What the recovery loop of i itself does to its orphan and to the locks.
LEMMA RecoverLockStep ==
  ASSUME TypeOK, RecoverersHoldTheLock, NEW i \in Instances, Recover(i)
  PROVE  RecoverersHoldTheLock'
<1> DEFINE p == <<i, "recovery">>
<1>0. /\ p \in Procs /\ job \in [Procs -> Job] /\ job[p] \in Job /\ JobShape(job[p])
      /\ recLock \in [Tests -> Instances \cup {NoInstance}]
  BY ThreadProc DEF TypeOK
<1>1. \A k \in Instances \ {i}, t \in Tests : Recovering(k, t)' => Recovering(k, t)
  <2>1. OthersKeepTheirJobs(p) BY RecoverStep DEF LoopStepFrame
  <2>2. \A k \in Instances \ {i} : job'[<<k, "recovery">>] = job[<<k, "recovery">>]
    BY <2>1, ThreadProc, RecoveryThreads DEF OthersKeepTheirJobs
  <2> QED BY <2>2 DEF Recovering
\* Enough: i keeps its orphan, or lets go, and nobody else's lock changes.
<1>2. ASSUME \A t \in Tests : Recovering(i, t)' => recLock'[t] = i,
             \A t \in Tests, k \in Instances \ {i} : recLock[t] = k => recLock'[t] = k
      PROVE  RecoverersHoldTheLock'
  BY <1>1, <1>2 DEF RecoverersHoldTheLock
<1>3. CASE FindOrphans(i)
  <2>1. job'[p].at = "next" /\ recLock' = recLock
    BY <1>0, <1>3 DEF FindOrphans, NoJob, redis
  <2> QED BY <1>2, <2>1 DEF Recovering
<1>4. CASE LockOrphan(i)
  <2>1. PICK t \in job[p].todo :
          \/ /\ recLock[t] = NoInstance
             /\ recLock' = [recLock EXCEPT ![t] = i]
             /\ job' = [job EXCEPT ![p] = LoopStep("probe", t, job[p].todo \ {t})]
          \/ /\ job' = [job EXCEPT ![p] = LoopStep("next", NoTest, job[p].todo \ {t})]
             /\ \/ recLock' = recLock
                \/ recLock[t] = NoInstance /\ recLock' = [recLock EXCEPT ![t] = i]
    BY <1>4 DEF LockOrphan, recoverLockFree
  <2>2. t \in Tests BY <1>0, <2>1 DEF Job
  <2>3. CASE /\ recLock[t] = NoInstance
             /\ recLock' = [recLock EXCEPT ![t] = i]
             /\ job' = [job EXCEPT ![p] = LoopStep("probe", t, job[p].todo \ {t})]
    <3>1. job'[p] = LoopStep("probe", t, job[p].todo \ {t}) BY <1>0, <2>3
    <3>2. job'[p].test = t BY <3>1 DEF LoopStep, NoJob
    <3>3. \A u \in Tests : Recovering(i, u)' => u = t BY <3>2 DEF Recovering
    <3> QED BY <1>0, <1>2, <2>2, <2>3, <3>3, ConstantsAssumption
  <2>4. CASE /\ job' = [job EXCEPT ![p] = LoopStep("next", NoTest, job[p].todo \ {t})]
             /\ \/ recLock' = recLock
                \/ recLock[t] = NoInstance /\ recLock' = [recLock EXCEPT ![t] = i]
    <3>1. job'[p] = LoopStep("next", NoTest, job[p].todo \ {t}) BY <1>0, <2>4
    <3>2. job'[p].test = NoTest BY <3>1 DEF LoopStep, NoJob
    <3>3. \A u \in Tests : ~Recovering(i, u)' BY <3>2, ConstantsAssumption DEF Recovering
    <3> QED BY <1>0, <1>2, <2>2, <2>4, <3>3, ConstantsAssumption
  <2> QED BY <2>1, <2>3, <2>4
<1>5. CASE Probe(i) \/ ClaimRecovery(i) \/ RegisterRecoveredTimer(i)
  <2>0. /\ job[p].at \in {"probe", "claim", "register"} /\ recLock' = recLock
    BY <1>5 DEF Probe, ClaimRecovery, RegisterRecoveredTimer, redis
  <2>1. job[p].test \in Tests /\ job[p].todo \in SUBSET Tests
    BY <1>0, <2>0 DEF JobShape, StepsOf, Job, Ops
  <2>2. job'[p].test = job[p].test
    <3>1. \/ Goto(p, "claim") \/ Goto(p, "register") \/ Return(p)
          \/ BeginStop(p, job[p].test, job[p].todo)
          \/ BeginFail(p, job[p].test, job[p].todo)
      BY <1>5 DEF Probe, ClaimRecovery, RegisterRecoveredTimer
    <3>2. p[2] = "recovery" OBVIOUS
    <3> QED BY <1>0, <2>1, <3>1, <3>2, GotoStep, ReturnStep, BeginStopStep, BeginFailStep
  <2>3. \A t \in Tests : Recovering(i, t)' => Recovering(i, t)
    BY <2>0, <2>2 DEF Recovering
  <2> QED BY <1>2, <2>0, <2>3 DEF RecoverersHoldTheLock
<1>6. CASE ReleaseOrphan(i)
  <2>1. job[p].at = "release" BY <1>6 DEF ReleaseOrphan
  <2>2. /\ \/ recLock' = [recLock EXCEPT ![job[p].test] = NoInstance]
           \/ recLock' = recLock
        /\ job' = [job EXCEPT ![p] = LoopStep("next", NoTest, job[p].todo)]
    BY <1>6 DEF ReleaseOrphan
  <2>3. job[p].test \in Tests BY <1>0, <2>1 DEF JobShape, StepsOf, Job, Ops
  <2>4. recLock[job[p].test] = i BY <2>1, <2>3 DEF Recovering, RecoverersHoldTheLock
  <2>5. job'[p] = LoopStep("next", NoTest, job[p].todo) BY <1>0, <2>2
  <2>6. job'[p].test = NoTest BY <2>5 DEF LoopStep, NoJob
  <2>7. \A t \in Tests : ~Recovering(i, t)' BY <2>6, ConstantsAssumption DEF Recovering
  <2>8. \A t \in Tests, k \in Instances \ {i} : recLock[t] = k => recLock'[t] = k
    BY <1>0, <2>2, <2>3, <2>4
  <2> QED BY <1>2, <2>7, <2>8
<1> QED BY <1>3, <1>4, <1>5, <1>6 DEF Recover

LEMMA RecoverersStep ==
  TypeOK /\ RecoverersHoldTheLock /\ [Next]_vars => RecoverersHoldTheLock'
<1> SUFFICES ASSUME TypeOK, RecoverersHoldTheLock, [Next]_vars
             PROVE  RecoverersHoldTheLock'
  OBVIOUS
<1>1. ASSUME recLock' = recLock,
             \A i \in Instances, t \in Tests : Recovering(i, t)' => Recovering(i, t)
      PROVE  RecoverersHoldTheLock'
  BY <1>1 DEF RecoverersHoldTheLock
<1>2. ASSUME job' = job, recLock' = recLock PROVE RecoverersHoldTheLock'
  BY <1>1, <1>2 DEF Recovering
<1>3. CASE Api
  BY <1>2, <1>3 DEF Api, CheckNoActiveTest, InsertTest, PublishStart, redis
<1>4. CASE \E c \in Contestants : ReportCrash(c) BY <1>2, <1>4 DEF ReportCrash, redis
<1>5. ASSUME NEW p \in Procs, Handler(p) PROVE RecoverersHoldTheLock'
  <2>1. HandlerStep(p) BY <1>5, HandlerSteps
  <2>2. /\ job[p] \in Job /\ JobShape(job[p]) /\ job[p].op # "loop"
    <3>1. job[p].at \in {"lock", "read", "cas", "unlock", "seed", "publish", "arm",
                         "drain", "mark", "finish"}
      BY <1>5 DEF Handler, AcquireLock, ReadStatus, CASStatus, Unlock, Seed, Publish,
                  Arm, Drain, Mark, Finish
    <3> QED BY <3>1, JobType DEF JobShape, StepsOf, Job, Ops
  <2>3. job[p].at # "next" BY <2>2 DEF JobShape, StepsOf, Job, Ops
  <2>4. ASSUME NEW i \in Instances, NEW t \in Tests, Recovering(i, t)'
        PROVE  Recovering(i, t)
    <3>1. <<i, "recovery">> \in Procs BY ThreadProc
    <3>2. CASE p = <<i, "recovery">>
      <4>1. p[2] = "recovery" BY <3>2
      <4>2. job'[p].test = job[p].test BY <2>1, <4>1 DEF HandlerStep
      <4> QED BY <2>3, <2>4, <3>2, <4>2 DEF Recovering
    <3>3. CASE p # <<i, "recovery">>
      BY <2>1, <2>4, <3>1, <3>3 DEF HandlerStep, OthersKeepTheirJobs, Recovering
    <3> QED BY <3>2, <3>3
  <2> QED BY <1>1, <2>1, <2>4 DEF HandlerStep
<1>6. ASSUME NEW p \in Procs, OthersKeepTheirJobs(p),
             \A i \in Instances : <<i, "recovery">> # p, recLock' = recLock
      PROVE  RecoverersHoldTheLock'
  <2>1. \A i \in Instances : job'[<<i, "recovery">>] = job[<<i, "recovery">>]
    BY <1>6, ThreadProc DEF OthersKeepTheirJobs
  <2> QED BY <1>1, <1>6, <2>1 DEF Recovering
<1>7. ASSUME NEW i \in Instances, Consume(i) PROVE RecoverersHoldTheLock'
  <2>1. <<i, "consumer">> \in Procs /\ \A k \in Instances : <<k, "recovery">> # <<i, "consumer">>
    BY ThreadProc, RecoveryThreads
  <2> QED BY <1>2, <1>6, <1>7, <2>1, ConsumeStep DEF LoopStepFrame
<1>8. ASSUME NEW i \in Instances, Timer(i) PROVE RecoverersHoldTheLock'
  <2>1. PICK t \in Tests : LoopStepFrame(<<i, t>>) /\ UNCHANGED recLock
    BY <1>8, TimerStep
  <2>2. <<i, t>> \in Procs /\ \A k \in Instances : <<k, "recovery">> # <<i, t>>
    BY ThreadProc, RecoveryThreads
  <2> QED BY <1>6, <2>1, <2>2 DEF LoopStepFrame
<1>9. ASSUME NEW i \in Instances, Recover(i) PROVE RecoverersHoldTheLock'
  BY <1>9, RecoverLockStep
<1>10. ASSUME NEW i \in Instances, Crash(i) PROVE RecoverersHoldTheLock'
  <2>1. \A k \in Instances : \/ job'[<<k, "recovery">>] = NoJob
                             \/ job'[<<k, "recovery">>] = job[<<k, "recovery">>]
    BY <1>10, ThreadProc DEF Crash
  <2>2. NoJob.test = NoTest BY DEF NoJob
  <2>3. recLock' = recLock BY <1>10 DEF Crash, redis
  <2> QED BY <1>1, <2>1, <2>2, <2>3, ConstantsAssumption DEF Recovering
<1>11. CASE \E i \in Instances, u \in Tests : Heartbeat(i, u)
  BY <1>2, <1>11 DEF Heartbeat, redis
<1>12. ASSUME NEW t \in Tests, HeartbeatStale(t) PROVE RecoverersHoldTheLock'
  BY <1>2, <1>12 DEF HeartbeatStale, redis
<1>13. ASSUME NEW c \in Contestants, LockExpires(c) PROVE RecoverersHoldTheLock'
  BY <1>2, <1>13 DEF LockExpires
<1>14. ASSUME NEW t \in Tests, RecoverLockExpires(t) PROVE RecoverersHoldTheLock'
  <2>1. /\ recLock' = [recLock EXCEPT ![t] = NoInstance] /\ job' = job
        /\ job[<<recLock[t], "recovery">>].test # t
    BY <1>14 DEF RecoverLockExpires
  <2>2. \A i \in Instances : ~Recovering(i, t)
    BY <2>1 DEF Recovering, RecoverersHoldTheLock
  <2> QED BY <2>1, <2>2 DEF RecoverersHoldTheLock, Recovering, TypeOK
<1>15. CASE UNCHANGED vars BY <1>2, <1>15 DEF vars, redis
<1> QED BY <1>3, <1>4, <1>5, <1>7, <1>8, <1>9, <1>10, <1>11, <1>12, <1>13, <1>14, <1>15
        DEF Next, Time

\* An orphan is in the hands of one instance at a time: the holder of
\* lock:recover:<test>.
THEOREM OneRecovererHolds == Spec => []OneRecoverer
<1>1. Init => RecoverersHoldTheLock
  <2>1. Init => \A i \in Instances : job[<<i, "recovery">>] = NoJob
    BY ThreadProc DEF Init
  <2>2. NoJob.test \notin Tests BY ConstantsAssumption DEF NoJob
  <2> QED BY <2>1, <2>2 DEF RecoverersHoldTheLock, Recovering
<1>2. RecoverersHoldTheLock => OneRecoverer
  BY DEF RecoverersHoldTheLock, OneRecoverer
<1>3. QED BY <1>1, <1>2, TypeCorrect, RecoverersStep, PTL DEF Spec

-----------------------------------------------------------------------------
(***************************************************************************)
(* What holds as long as nothing crashes and no call fails: a contestant   *)
(* has one test in progress and no START_TEST fails a run.                 *)
(*                                                                         *)
(* The argument: the contestant's lock names the test that is being        *)
(* started, in progress or cleaned up (Claims).  It stays, because some    *)
(* goroutine or timer has every test in progress in hand (Driven), so its  *)
(* TTL does not run out.  And nobody fails a test that is still pending,   *)
(* because every message, map entry and job names a test that is far       *)
(* enough for it (JobsFit, TopicTells, MapsName).                          *)
(***************************************************************************)
(* The invariants                                                          *)

Calm == MaxCrashes = 0 /\ MaxFaults = 0

\* The test has left pending, and so it will never be pending again.
Started(s, t) == s[t] \notin {"absent", "pending"}

\* What a goroutine p may be executing when the rows are s and the containers
\* of r are reported dead: only tests that have a row are started, only tests
\* that have run are stopped or failed, and the consumer fails one only after
\* the report of its container, or in vain.
Fits(s, r, p, j) ==
  /\ j.op = "start" => s[j.test] # "absent"
  /\ j.op = "start" /\ j.at \in {"seed", "publish", "arm"} => Started(s, j.test)
  /\ j.op \in {"abort", "stop", "complete", "fail"} => Started(s, j.test)
  /\ j.at \in {"probe", "claim", "register"} => Started(s, j.test)
  /\ \A u \in j.todo : Started(s, u)
  /\ j.op \in {"start", "abort"} => p[2] = "consumer" /\ j.todo = {}
  /\ p[2] = "consumer" /\ j.op = "fail" =>
       s[j.test] \in Terminal \/ ContestantOf[j.test] \in r
  /\ p[2] = "consumer" => \A u \in j.todo : ContestantOf[u] \in r
  /\ p[2] \in Tests => j.op \in {"none", "stop", "complete"} /\ j.todo = {}

Tells(s, r, e) ==
  /\ e.event = "START_TEST" => s[e.test] # "absent"
  /\ e.event = "STOP_TEST" => Started(s, e.test)
  /\ e.event = "CONTAINER_CRASHED" => e.contestant \in r

\* What the topic, the maps, the timers and the requests name.
TopicTells == \A k \in Keys : \A n \in 1 .. Len(topic[k]) : Tells(status, reported, topic[k][n])
MapsName ==
  \A i \in Instances : /\ \A t \in active[i] : Started(status, t)
                       /\ \A x \in armed[i] : Started(status, x[1])
RequestsLeaveRows ==
  \A t \in Tests : request[t] \in {"inserted", "done"} => status[t] # "absent"
JobsFit == \A p \in Procs : Fits(status, reported, p, job[p])

\* A StartTest that has the lock and has not set the test running.
Holds(j) ==
  \/ j.op = "start" /\ j.at \in {"read", "cas", "unlock"}
  \/ j.op = "abort"

\* The contestant's lock names the test that is being started, in progress or
\* cleaned up, and only one goroutine starts it.
Claims ==
  /\ \A p \in Procs : Holds(job[p]) =>
       /\ lock[ContestantOf[job[p].test]] = job[p].test
       /\ status[job[p].test] \notin InProgress
       /\ \A q \in Procs : ~Finishing(q, job[p].test)
  /\ \A p, q \in Procs : Holds(job[p]) /\ Holds(job[q]) /\ job[p].test = job[q].test => p = q
  /\ \A t \in Tests : status[t] \in InProgress => lock[ContestantOf[t]] = t
  /\ \A q \in Procs, t \in Tests : Finishing(q, t) => lock[ContestantOf[t]] = t

DrivesRun(j, t) ==
  /\ j.test = t
  /\ \/ j.op = "start" /\ j.at \in {"seed", "publish", "arm"}
     \/ j.op \in {"stop", "fail"} /\ j.at = "read"
     \/ j.op \in {"stop", "fail"} /\ j.at = "cas" /\ j.from = "running"

DrivesStop(j, t) ==
  /\ j.test = t
  /\ \/ j.op = "stop" /\ j.at \in {"publish", "drain"}
     \/ j.op = "complete" /\ j.at = "read"
     \/ j.op = "complete" /\ j.at = "cas" /\ j.from = "stopping"

\* The timer of StartTest, or a goroutine that will take the test further.
RunDriven(t) ==
  \/ \E i \in Instances : <<t, "start">> \in armed[i]
  \/ \E p \in Procs : DrivesRun(job[p], t)

\* A test in progress is never left alone, so its lock does not run out.
Driven ==
  \A t \in Tests :
    /\ status[t] = "running" => RunDriven(t)
    /\ status[t] = "stopping" => \E p \in Procs : DrivesStop(job[p], t)

LEMMA NothingFails ==
  ASSUME Calm, TypeOK
  PROVE  ~Fault /\ faults = 0 /\ crashes = 0 /\ \A i \in Instances : ~Crash(i)
BY DEF Calm, TypeOK, Fault, Crash

\* p turns to a step of a handler.
Turns(p, op, at, t, from, todo) ==
  /\ OthersKeepTheirJobs(p)
  /\ job'[p].op = op /\ job'[p].at = at /\ job'[p].test = t
  /\ job'[p].from = from /\ job'[p].todo = todo

\* The handler of p is over.
Over(p) ==
  /\ OthersKeepTheirJobs(p)
  /\ job'[p].op \in {"none", "loop"} /\ job'[p].at \in {"idle", "next", "release"}
  /\ job'[p].todo = job[p].todo /\ (p[2] \in Tests /\ job[p].todo = {} => job'[p].op = "none")

LEMMA GotoTurns ==
  ASSUME TypeOK, NEW p \in Procs, NEW step, Goto(p, step)
  PROVE  Turns(p, job[p].op, step, job[p].test, job[p].from, job[p].todo)
<1>1. job \in [Procs -> Job] /\ job[p] \in Job BY DEF TypeOK
<1>2. job' = [job EXCEPT ![p].at = step] BY DEF Goto
<1> QED BY <1>1, <1>2 DEF OthersKeepTheirJobs, Job, Turns

LEMMA ReturnIsOver ==
  ASSUME TypeOK, NEW p \in Procs, Return(p)
  PROVE  Over(p)
<1>1. job \in [Procs -> Job] /\ job' = [job EXCEPT ![p] = After(p)] BY DEF TypeOK, Return
<1>2. job'[p] = After(p) /\ OthersKeepTheirJobs(p) BY <1>1 DEF OthersKeepTheirJobs
<1>3. /\ After(p).op \in {"none", "loop"} /\ After(p).at \in {"idle", "next", "release"}
      /\ After(p).todo = job[p].todo
  BY DEF After, NoJob
<1>4. p[2] \in Tests /\ job[p].todo = {} => After(p).op = "none"
  BY ConstantsAssumption DEF After, NoJob
<1> QED BY <1>2, <1>3, <1>4 DEF Over

\* Only timers of t are disarmed.
Disarmed(t) ==
  \A k \in Instances : /\ armed'[k] \subseteq armed[k]
                       /\ \A x \in armed[k] : x \in armed'[k] \/ x[1] = t

LEMMA CancelDisarms ==
  ASSUME TypeOK, NEW i \in Instances, NEW t \in Tests, cancelTimer(i, t) PROVE Disarmed(t)
<1>1. armed \in [Instances -> SUBSET (Tests \X TimerKinds)]
      /\ armed' = [armed EXCEPT ![i] = armed[i] \ {<<t, timers[i][t]>>}]
  BY DEF TypeOK, cancelTimer
<1>2. ASSUME NEW k \in Instances
      PROVE  armed'[k] \subseteq armed[k] /\ \A x \in armed[k] : x \in armed'[k] \/ x = <<t, timers[i][t]>>
  BY <1>1, <1>2
<1> QED BY <1>2 DEF Disarmed

LEMMA FailTurns ==
  ASSUME TypeOK, NEW p \in Procs, NEW t \in Tests, NEW todo \in SUBSET Tests,
         BeginFail(p, t, todo)
  PROVE  Turns(p, "fail", "read", t, "absent", todo) /\ Disarmed(t)
<1> DEFINE j == [ReadStep("fail", t, todo) EXCEPT !.key = contestantFor(p[1], t)]
<1>1. job \in [Procs -> Job] /\ job' = [job EXCEPT ![p] = j] BY DEF TypeOK, BeginFail
<1>2. j.test = t /\ j.at = "read" /\ j.op = "fail" /\ j.from = "absent" /\ j.todo = todo
  BY DEF ReadStep, NoJob
<1>3. job'[p] = j /\ OthersKeepTheirJobs(p) BY <1>1 DEF OthersKeepTheirJobs
<1>4. Disarmed(t) BY CancelDisarms, ProcParts DEF BeginFail
<1> HIDE DEF j
<1> QED BY <1>2, <1>3, <1>4 DEF Turns

LEMMA StopTurns ==
  ASSUME TypeOK, NEW p \in Procs, NEW t \in Tests, NEW todo \in SUBSET Tests,
         BeginStop(p, t, todo)
  PROVE  Turns(p, "stop", "read", t, "absent", todo) /\ Disarmed(t)
<1> DEFINE j == ReadStep("stop", t, todo)
<1>1. job \in [Procs -> Job] /\ job' = [job EXCEPT ![p] = j] BY DEF TypeOK, BeginStop
<1>2. j.test = t /\ j.at = "read" /\ j.op = "stop" /\ j.from = "absent" /\ j.todo = todo
  BY DEF ReadStep, NoJob
<1>3. job'[p] = j /\ OthersKeepTheirJobs(p) BY <1>1 DEF OthersKeepTheirJobs
<1>4. Disarmed(t) BY CancelDisarms, ProcParts DEF BeginStop
<1> HIDE DEF j
<1> QED BY <1>2, <1>3, <1>4 DEF Turns

-----------------------------------------------------------------------------
(* What every step does, when all is calm *)

\* Rows stay, a test that has started does not go back, a final status stays,
\* and what was reported stays reported.
Grows ==
  /\ \A t \in Tests : /\ status[t] # "absent" => status'[t] # "absent"
                      /\ Started(status, t) => Started(status', t)
                      /\ status[t] \in Terminal => status'[t] \in Terminal
  /\ reported \subseteq reported'

LEMMA ReportedStays == ASSUME [Next]_vars PROVE reported \subseteq reported'
<1>1. CASE Api
  BY <1>1 DEF Api, CheckNoActiveTest, InsertTest, PublishStart, budget
<1>2. CASE \E c \in Contestants : ReportCrash(c) BY <1>2 DEF ReportCrash
<1>3. CASE \E p \in Procs : Handler(p)
  BY <1>3 DEF Handler, AcquireLock, ReadStatus, CASStatus, Unlock, Seed, Publish, Arm,
              Drain, Mark, Finish, budget
<1>4. CASE \E i \in Instances : Consume(i) \/ Timer(i) \/ Recover(i) \/ Crash(i)
  BY <1>4 DEF Consume, ReceiveStart, ReceiveStop, ReceiveCrash, NextCrashed, Timer,
              FireTimer, Recover, FindOrphans, LockOrphan, Probe, ClaimRecovery,
              RegisterRecoveredTimer, ReleaseOrphan, Crash, budget
<1>5. CASE \E i \in Instances, t \in Tests : Heartbeat(i, t) BY <1>5 DEF Heartbeat, budget
<1>6. CASE Time
  BY <1>6 DEF Time, HeartbeatStale, RecoverLockExpires, LockExpires, budget
<1>7. CASE UNCHANGED vars BY <1>7 DEF vars, budget
<1> QED BY <1>1, <1>2, <1>3, <1>4, <1>5, <1>6, <1>7 DEF Next

LEMMA Growth == ASSUME TypeOK, NoRowYet, [Next]_vars PROVE Grows
<1>0. status \in [Tests -> Statuses] BY DEF TypeOK
<1>1. CASE UNCHANGED status BY <1>1, ReportedStays DEF Grows, Started
<1>2. ASSUME NEW t \in Tests, InsertTest(t) PROVE Grows
  <2>1. status[t] = "absent" /\ status' = [status EXCEPT ![t] = "pending"]
    BY <1>2 DEF InsertTest, NoRowYet
  <2> QED BY <1>0, <2>1, ReportedStays DEF Grows, Started
<1>3. ASSUME NEW p \in Procs, job[p].at = "cas", SetStatus(p) PROVE Grows
  <2>1. /\ job[p].test \in Tests
        /\ status' = [status EXCEPT ![job[p].test] = Target[job[p].op]]
        /\ Target[job[p].op] \in {"running", "stopping", "completed", "failed"}
        /\ status[job[p].test] \in {"pending", "running", "stopping"}
    BY <1>3, CASFromRow DEF Target
  <2> QED BY <1>0, <2>1, ReportedStays DEF Grows, Started
<1> QED BY <1>1, <1>2, <1>3, StatusStep

LEMMA FitsGrows ==
  ASSUME TypeOK, Grows, NEW p \in Procs, Fits(status, reported, p, job[p])
  PROVE  Fits(status', reported', p, job[p])
<1>1. job[p] \in Job /\ JobShape(job[p]) BY JobType
<1>2. job[p].op \in {"start", "abort", "stop", "complete", "fail"} => job[p].test \in Tests
  BY <1>1 DEF JobShape, StepsOf, Job, Ops
<1>3. job[p].at \in {"probe", "claim", "register"} => job[p].test \in Tests
  BY <1>1 DEF JobShape, StepsOf, Job, Ops
<1>4. job[p].todo \subseteq Tests BY <1>1 DEF Job
<1> QED BY <1>2, <1>3, <1>4 DEF Fits, Grows

\* p wins the compare-and-set.
Wins(p) ==
  /\ job[p].at = "cas" /\ SetStatus(p)
  /\ Turns(p, job[p].op, NextStep[job[p].op], job[p].test, "absent", job[p].todo)

\* p takes the contestant's lock, or gives back the lock it has, or cleans up.
LockedBy(p) ==
  LET t == job[p].test  c == ContestantOf[t] IN
  \/ UNCHANGED lock
  \/ /\ t \in Tests /\ lock[c] = NoTest /\ lock' = [lock EXCEPT ![c] = t]
     /\ job'[p].test = t
  \/ /\ t \in Tests /\ lock' = [lock EXCEPT ![c] = NoTest]
     /\ Holds(job[p]) \/ Finishing(p, t)
     /\ ~Holds(job'[p]) /\ \A u \in Tests : ~Finishing(p, u)'

\* What a step of p may do to the rows, the lock and the tests that are driven.
CalmStep(p) ==
  /\ OthersKeepTheirJobs(p)
  /\ UNCHANGED status \/ (Wins(p) /\ UNCHANGED lock)
  /\ LockedBy(p)
  /\ Fits(status', reported', p, job'[p])
  /\ Holds(job'[p]) => \/ Holds(job[p]) /\ job'[p].test = job[p].test /\ UNCHANGED lock
                       \/ LET t == job'[p].test IN
                          /\ t \in Tests /\ lock[ContestantOf[t]] = NoTest
                          /\ lock' = [lock EXCEPT ![ContestantOf[t]] = t]
  /\ \A t \in Tests : DrivesRun(job[p], t) => RunDriven(t)' \/ status'[t] # "running"
  /\ \A t \in Tests : DrivesStop(job[p], t) => DrivesStop(job'[p], t) \/ status'[t] # "stopping"
  /\ \A i \in Instances, t \in Tests : <<t, "start">> \in armed[i] => RunDriven(t)'

LEMMA HolderTests ==
  ASSUME TypeOK, NEW p \in Procs, Holds(job[p]) PROVE job[p].test \in Tests
BY JobType DEF Holds, JobShape, StepsOf, Job, Ops

LEMMA JobsFitStep ==
  ASSUME TypeOK, Grows, JobsFit, NEW p \in Procs, CalmStep(p) PROVE JobsFit'
<1>1. ASSUME NEW q \in Procs PROVE Fits(status', reported', q, job'[q])
  <2>1. CASE q = p BY <2>1 DEF CalmStep
  <2>2. CASE q # p
    <3>1. job'[q] = job[q] BY <2>2 DEF CalmStep, OthersKeepTheirJobs
    <3> QED BY <3>1, FitsGrows DEF JobsFit
  <2> QED BY <2>1, <2>2
<1> QED BY <1>1 DEF JobsFit

\* A test is in progress because it was, or because p has just set it running.
LEMMA InProgressStep ==
  ASSUME TypeOK, NEW p \in Procs, CalmStep(p), NEW t \in Tests, status'[t] # status[t]
  PROVE  /\ Wins(p) /\ t = job[p].test /\ UNCHANGED lock
         /\ status'[t] = Target[job[p].op] /\ Target[job[p].op] \in legalTransitions[status[t]]
         /\ job[p].op \in {"start", "stop", "complete", "fail"}
         /\ status[t] \in {"pending", "running", "stopping"}
<1>1. Wins(p) /\ UNCHANGED lock BY DEF CalmStep
<1>2. job[p].at = "cas" /\ SetStatus(p) BY <1>1 DEF Wins
<1>3. /\ job[p].test \in Tests
      /\ status' = [status EXCEPT ![job[p].test] = Target[job[p].op]]
      /\ Target[job[p].op] \in legalTransitions[status[job[p].test]]
      /\ job[p].op \in {"start", "stop", "complete", "fail"}
      /\ status[job[p].test] \in {"pending", "running", "stopping"}
  BY <1>2, CASFromRow
<1>4. t = job[p].test BY <1>3 DEF TypeOK
<1> QED BY <1>1, <1>3, <1>4 DEF TypeOK

LEMMA DrivenStep ==
  ASSUME TypeOK, Driven, NEW p \in Procs, CalmStep(p) PROVE Driven'
<1>1. ASSUME NEW t \in Tests, status'[t] = "running" PROVE RunDriven(t)'
  <2>1. CASE status[t] = "running"
    <3>1. CASE \E i \in Instances : <<t, "start">> \in armed[i]
      BY <3>1 DEF CalmStep
    <3>2. ASSUME NEW q \in Procs, DrivesRun(job[q], t) PROVE RunDriven(t)'
      <4>1. CASE q = p BY <1>1, <3>2, <4>1 DEF CalmStep
      <4>2. CASE q # p
        <5>1. job'[q] = job[q] BY <4>2 DEF CalmStep, OthersKeepTheirJobs
        <5> QED BY <3>2, <5>1 DEF RunDriven
      <4> QED BY <4>1, <4>2
    <3> QED BY <2>1, <3>1, <3>2 DEF Driven, RunDriven
  <2>2. CASE status[t] # "running"
    <3>1. /\ Wins(p) /\ t = job[p].test /\ Target[job[p].op] = "running"
          /\ job[p].op \in {"start", "stop", "complete", "fail"}
      BY <1>1, <2>2, InProgressStep
    <3>2. job[p].op = "start" BY <3>1 DEF Target
    <3>3. job'[p].op = "start" /\ job'[p].at = "seed" /\ job'[p].test = t
      BY <3>1, <3>2 DEF Wins, Turns, NextStep
    <3>4. DrivesRun(job'[p], t) BY <3>3 DEF DrivesRun
    <3> QED BY <3>4 DEF RunDriven
  <2> QED BY <2>1, <2>2
<1>2. ASSUME NEW t \in Tests, status'[t] = "stopping"
      PROVE  \E q \in Procs : DrivesStop(job'[q], t)
  <2>1. CASE status[t] = "stopping"
    <3>1. PICK q \in Procs : DrivesStop(job[q], t) BY <2>1 DEF Driven
    <3>2. DrivesStop(job'[q], t)
      BY <1>2, <3>1 DEF CalmStep, OthersKeepTheirJobs
    <3> QED BY <3>2
  <2>2. CASE status[t] # "stopping"
    <3>1. /\ Wins(p) /\ t = job[p].test /\ Target[job[p].op] = "stopping"
          /\ job[p].op \in {"start", "stop", "complete", "fail"}
      BY <1>2, <2>2, InProgressStep
    <3>2. job[p].op = "stop" BY <3>1 DEF Target
    <3>3. job'[p].op = "stop" /\ job'[p].at = "publish" /\ job'[p].test = t
      BY <3>1, <3>2 DEF Wins, Turns, NextStep
    <3>4. DrivesStop(job'[p], t) BY <3>3 DEF DrivesStop
    <3> QED BY <3>4
  <2> QED BY <2>1, <2>2
<1> QED BY <1>1, <1>2 DEF Driven

LEMMA ClaimsStep ==
  ASSUME TypeOK, [Next]_vars, JobsFit, Claims, FinishersAreTerminal, SingleFinisher,
         NEW p \in Procs, CalmStep(p)
  PROVE  Claims'
<1>0. ContestantOf \in [Tests -> Contestants] /\ NoTest \notin Tests
      /\ lock \in [Contestants -> Tests \cup {NoTest}]
  BY ConstantsAssumption DEF TypeOK
<1>1. ASSUME NEW q \in Procs, Holds(job'[q])
      PROVE  \/ Holds(job[q]) /\ job'[q].test = job[q].test /\ (q = p => UNCHANGED lock)
             \/ /\ q = p /\ job'[q].test \in Tests
                /\ lock[ContestantOf[job'[q].test]] = NoTest
                /\ lock' = [lock EXCEPT ![ContestantOf[job'[q].test]] = job'[q].test]
                /\ UNCHANGED status
  BY <1>0, <1>1 DEF CalmStep, OthersKeepTheirJobs
<1>2. ASSUME NEW t \in Tests, status'[t] \in InProgress
      PROVE  \/ status[t] \in InProgress
             \/ /\ Holds(job[p]) /\ job[p].test = t /\ UNCHANGED lock
                /\ ~Holds(job'[p])
  <2>1. CASE status'[t] = status[t] BY <1>2, <2>1
  <2>2. CASE status'[t] # status[t] /\ status[t] \notin InProgress
    <3>1. /\ Wins(p) /\ t = job[p].test /\ UNCHANGED lock
          /\ Target[job[p].op] \in InProgress
          /\ job[p].op \in {"start", "stop", "complete", "fail"}
          /\ status[t] = "pending" /\ Target[job[p].op] \in legalTransitions[status[t]]
      BY <1>2, <2>2, InProgressStep
    <3>2. job[p].op = "start" BY <3>1 DEF Target
    <3>3. job[p].at = "cas" /\ job'[p].op = "start" /\ job'[p].at = "seed"
      BY <3>1, <3>2 DEF Wins, Turns, NextStep
    <3> QED BY <3>1, <3>2, <3>3 DEF Holds
  <2> QED BY <2>1, <2>2
<1>3. ASSUME NEW q \in Procs, NEW t \in Tests, Finishing(q, t)'
      PROVE  \/ Finishing(q, t)
             \/ status[t] \in InProgress
  <2>1. CASE ~Finishing(q, t)
    <3>1. /\ t = job[q].test /\ job[q].at = "cas" /\ SetStatus(q)
          /\ job[q].op \in {"complete", "fail"}
      BY <1>3, <2>1, FinishingStep
    <3>2. status[t] \in {"pending", "running", "stopping"} BY <3>1, CASFromRow
    <3>3. Started(status, t) BY <3>1 DEF JobsFit, Fits
    <3> QED BY <3>2, <3>3 DEF Started
  <2> QED BY <2>1
\* A lock that names a test goes only with the holder or the finisher.
<1>4. ASSUME NEW t \in Tests, lock[ContestantOf[t]] = t, lock'[ContestantOf[t]] # t
      PROVE  /\ job[p].test = t
             /\ Holds(job[p]) \/ Finishing(p, t)
             /\ ~Holds(job'[p]) /\ ~Finishing(p, t)'
  <2> DEFINE u == job[p].test
  <2>1. /\ u \in Tests /\ lock' = [lock EXCEPT ![ContestantOf[u]] = NoTest]
        /\ Holds(job[p]) \/ Finishing(p, u)
        /\ ~Holds(job'[p]) /\ \A v \in Tests : ~Finishing(p, v)'
    BY <1>0, <1>4 DEF CalmStep, LockedBy
  <2>2. lock[ContestantOf[u]] = u BY <2>1 DEF Claims
  <2>3. ContestantOf[u] = ContestantOf[t] BY <1>0, <1>4, <2>1
  <2> QED BY <1>4, <2>1, <2>2, <2>3
<1>5. ASSUME NEW t \in Tests, status'[t] \in InProgress PROVE lock'[ContestantOf[t]] = t
  <2>1. lock[ContestantOf[t]] = t BY <1>2, <1>5 DEF Claims
  <2>2. SUFFICES ASSUME lock'[ContestantOf[t]] # t PROVE FALSE
    OBVIOUS
  <2>3. job[p].test = t /\ (Holds(job[p]) \/ Finishing(p, t)) /\ status[t] \in InProgress
    BY <1>2, <1>4, <1>5, <2>1, <2>2
  <2> QED BY <2>3 DEF Claims, FinishersAreTerminal
<1>6. ASSUME NEW q \in Procs, NEW t \in Tests, Finishing(q, t)'
      PROVE  lock'[ContestantOf[t]] = t
  <2>1. lock[ContestantOf[t]] = t BY <1>3, <1>6 DEF Claims
  <2>2. SUFFICES ASSUME lock'[ContestantOf[t]] # t PROVE FALSE
    OBVIOUS
  <2>3. /\ job[p].test = t
        /\ Holds(job[p]) \/ Finishing(p, t)
        /\ ~Holds(job'[p]) /\ ~Finishing(p, t)'
    BY <1>4, <2>1, <2>2
  <2>4. CASE Finishing(q, t)
    BY <1>6, <2>3, <2>4 DEF Claims, SingleFinisher
  <2>5. CASE status[t] \in InProgress
    BY <2>3, <2>5 DEF Claims, FinishersAreTerminal
  <2> QED BY <1>3, <1>6, <2>4, <2>5
<1>7. ASSUME NEW q \in Procs, Holds(job'[q]), NEW t \in Tests, t = job'[q].test
      PROVE  /\ lock'[ContestantOf[t]] = t /\ status'[t] \notin InProgress
             /\ \A r \in Procs : ~Finishing(r, t)'
  <2>1. CASE Holds(job[q]) /\ t = job[q].test /\ (q = p => UNCHANGED lock)
    <3>1. /\ t \in Tests /\ lock[ContestantOf[t]] = t /\ status[t] \notin InProgress
          /\ \A r \in Procs : ~Finishing(r, t)
      BY <2>1, HolderTests DEF Claims
    <3>2. Holds(job[p]) /\ job[p].test = t => p = q BY <2>1 DEF Claims
    <3>3. lock'[ContestantOf[t]] = t BY <1>4, <1>7, <3>1, <3>2
    <3>4. status'[t] \notin InProgress BY <1>2, <1>7, <3>1, <3>2
    <3>5. \A r \in Procs : ~Finishing(r, t)' BY <1>3, <3>1
    <3> QED BY <3>3, <3>4, <3>5
  <2>2. CASE /\ t \in Tests /\ lock[ContestantOf[t]] = NoTest
             /\ lock' = [lock EXCEPT ![ContestantOf[t]] = t] /\ UNCHANGED status
    <3>1. lock'[ContestantOf[t]] = t BY <1>0, <2>2
    <3>2. status[t] \notin InProgress /\ \A r \in Procs : ~Finishing(r, t)
      BY <1>0, <2>2 DEF Claims
    <3>3. \A r \in Procs : ~Finishing(r, t)' BY <1>3, <2>2, <3>2
    <3> QED BY <2>2, <3>1, <3>2, <3>3
  <2> QED BY <1>1, <1>7, <2>1, <2>2
<1>8. ASSUME NEW q \in Procs, NEW r \in Procs, Holds(job'[q]), Holds(job'[r]),
             job'[q].test = job'[r].test, q # r
      PROVE  FALSE
  <2>1. CASE q # p /\ r # p
    BY <1>8, <2>1 DEF Claims, CalmStep, OthersKeepTheirJobs
  <2>2. ASSUME NEW o \in Procs, o # p, Holds(job'[p]), Holds(job'[o]), job'[p].test = job'[o].test
        PROVE  FALSE
    <3>1. Holds(job[o]) /\ job[o].test = job'[o].test
      BY <2>2 DEF CalmStep, OthersKeepTheirJobs
    <3>2. job[o].test \in Tests /\ lock[ContestantOf[job[o].test]] = job[o].test
      BY <3>1, HolderTests DEF Claims
    <3>3. Holds(job[p]) /\ job[p].test = job[o].test BY <1>0, <1>1, <2>2, <3>1, <3>2
    <3> QED BY <2>2, <3>1, <3>3 DEF Claims
  <2> QED BY <1>8, <2>1, <2>2
<1>9. \A q \in Procs : Holds(job'[q]) => job'[q].test \in Tests
  BY <1>1, HolderTests
<1>10. \A q \in Procs : Holds(job[q])' <=> Holds(job'[q]) BY DEF Holds
<1>11. ASSUME NEW q \in Procs, Holds(job[q])'
       PROVE  /\ lock'[ContestantOf[job'[q].test]] = job'[q].test
              /\ status'[job'[q].test] \notin InProgress
              /\ \A r \in Procs : ~Finishing(r, job[q].test)'
  <2>1. Holds(job'[q]) BY <1>10, <1>11
  <2>2. PICK t \in Tests : t = job'[q].test BY <1>9, <2>1
  <2>3. \A r \in Procs : Finishing(r, job[q].test)' => Finishing(r, t)'
    BY <2>2 DEF Finishing
  <2> QED BY <1>7, <2>1, <2>2, <2>3
<1> QED BY <1>5, <1>6, <1>8, <1>10, <1>11 DEF Claims

-----------------------------------------------------------------------------
(* Every action is such a step: the shapes they share *)

LEMMA ArmedStays ==
  ASSUME \A i \in Instances : armed[i] \subseteq armed'[i]
  PROVE  \A i \in Instances, t \in Tests : <<t, "start">> \in armed[i] => RunDriven(t)'
BY DEF RunDriven

LEMMA OverCalm ==
  ASSUME TypeOK, Grows, JobsFit, NEW p \in Procs, Over(p), UNCHANGED status, LockedBy(p),
         \A i \in Instances : armed[i] \subseteq armed'[i],
         \A t \in Tests : DrivesRun(job[p], t) => RunDriven(t)' \/ status[t] # "running",
         \A t \in Tests : DrivesStop(job[p], t) => status[t] # "stopping"
  PROVE  CalmStep(p)
<1>1. job[p].todo \subseteq Tests BY JobType DEF Job
<1>2. Fits(status, reported, p, job[p]) BY DEF JobsFit
<1>3. Fits(status', reported', p, job'[p]) BY <1>1, <1>2 DEF Fits, Over, Grows
<1>4. ~Holds(job'[p]) BY DEF Over, Holds
<1> QED BY <1>3, <1>4, ArmedStays DEF CalmStep, Over

\* A goroutine that is in no handler takes another job.
LEMMA TakesJobCalm ==
  ASSUME TypeOK, NEW p \in Procs, OthersKeepTheirJobs(p), job[p].op \in {"none", "loop"},
         ~Holds(job'[p]), Fits(status', reported', p, job'[p]),
         UNCHANGED <<status, lock>>, \A i \in Instances : armed[i] \subseteq armed'[i]
  PROVE  CalmStep(p)
<1>1. \A t \in Tests : ~DrivesRun(job[p], t) /\ ~DrivesStop(job[p], t)
  BY DEF DrivesRun, DrivesStop
<1>2. LockedBy(p) BY DEF LockedBy
<1> QED BY <1>1, <1>2, ArmedStays DEF CalmStep

\* StopTest or FailTest of t begins: what was armed for t is now in its hands.
LEMMA BeginsCalm ==
  ASSUME TypeOK, NEW p \in Procs, NEW op \in {"stop", "fail"}, NEW t \in Tests,
         NEW todo \in SUBSET Tests, Turns(p, op, "read", t, "absent", todo), Disarmed(t),
         UNCHANGED status, LockedBy(p), job[p].at \in {"idle", "next", "probe", "unlock"},
         Started(status, t), \A u \in todo : Started(status, u),
         p[2] = "consumer" => /\ op = "fail" => status[t] \in Terminal \/ ContestantOf[t] \in reported'
                              /\ \A u \in todo : ContestantOf[u] \in reported',
         p[2] \in Tests => op = "stop" /\ todo = {}
  PROVE  CalmStep(p)
<1>1. /\ OthersKeepTheirJobs(p) /\ job'[p].op = op /\ job'[p].at = "read"
      /\ job'[p].test = t /\ job'[p].todo = todo
  BY DEF Turns
<1>2. Fits(status', reported', p, job'[p]) BY <1>1 DEF Fits, Started
<1>3. ~Holds(job'[p]) BY <1>1 DEF Holds
<1>4. \A u \in Tests : ~DrivesRun(job[p], u) /\ ~DrivesStop(job[p], u)
  BY DEF DrivesRun, DrivesStop
<1>5. ASSUME NEW i \in Instances, NEW u \in Tests, <<u, "start">> \in armed[i]
      PROVE  RunDriven(u)'
  <2>1. <<u, "start">> \in armed'[i] \/ u = t BY <1>5 DEF Disarmed
  <2>2. DrivesRun(job'[p], t) BY <1>1 DEF DrivesRun
  <2> QED BY <2>1, <2>2 DEF RunDriven
<1> QED BY <1>1, <1>2, <1>3, <1>4, <1>5 DEF CalmStep

\* The handler goes on to its next step.
LEMMA SameOpFits ==
  ASSUME TypeOK, Grows, JobsFit, NEW p \in Procs, NEW at, NEW from,
         Turns(p, job[p].op, at, job[p].test, from, job[p].todo),
         job[p].op = "start" /\ at \in {"seed", "publish", "arm"} => Started(status', job[p].test),
         at \notin {"probe", "claim", "register"}
  PROVE  Fits(status', reported', p, job'[p])
<1>1. /\ job[p].todo \subseteq Tests
      /\ job[p].op \notin {"none", "loop"} => job[p].test \in Tests
  BY JobType DEF Job, JobShape, StepsOf, Ops
<1>2. Fits(status, reported, p, job[p]) BY DEF JobsFit
<1> QED BY <1>1, <1>2 DEF Fits, Turns, Grows

LEMMA HandlerTest ==
  ASSUME TypeOK, NEW p \in Procs,
         job[p].at \in {"lock", "read", "cas", "unlock", "seed", "publish", "arm", "drain",
                        "mark", "finish"}
  PROVE  job[p].test \in Tests /\ job[p].op \notin {"none", "loop"} /\ job[p] \in Job
         /\ job[p].at \in StepsOf[job[p].op]
BY JobType DEF JobShape, StepsOf, Job, Ops

-----------------------------------------------------------------------------
(* The steps of the handlers *)

LEMMA AcquireLockCalm ==
  ASSUME Calm, TypeOK, Grows, JobsFit, NEW p \in Procs, AcquireLock(p) PROVE CalmStep(p)
<1> DEFINE t == job[p].test
<1>0. /\ t \in Tests /\ job[p].op = "start" /\ job[p].at = "lock" /\ UNCHANGED status
  BY HandlerTest DEF AcquireLock, StepsOf, Ops, Job, db
<1>a. \A u \in Tests : ~DrivesRun(job[p], u) /\ ~DrivesStop(job[p], u)
  BY <1>0 DEF DrivesRun, DrivesStop
<1>1. CASE /\ lock[ContestantOf[t]] = NoTest /\ lock' = [lock EXCEPT ![ContestantOf[t]] = t]
           /\ Goto(p, "read") /\ UNCHANGED memory
  <2>1. Turns(p, "start", "read", t, job[p].from, job[p].todo) BY <1>0, <1>1, GotoTurns
  <2>2. Fits(status', reported', p, job'[p]) BY <1>0, <2>1, SameOpFits
  <2>3. OthersKeepTheirJobs(p) /\ job'[p].test = t BY <2>1 DEF Turns
  <2>4. LockedBy(p) BY <1>0, <1>1, <2>3 DEF LockedBy
  <2>5. \A i \in Instances, u \in Tests : <<u, "start">> \in armed[i] => RunDriven(u)'
    BY <1>1, ArmedStays DEF memory
  <2> QED BY <1>0, <1>a, <1>1, <2>2, <2>3, <2>4, <2>5 DEF CalmStep
<1>2. CASE Return(p) /\ UNCHANGED <<memory, lock>>
  <2>1. Over(p) /\ LockedBy(p) BY <1>2, ReturnIsOver DEF LockedBy
  <2> QED BY <1>0, <1>a, <1>2, <2>1, OverCalm DEF memory
<1> QED BY <1>1, <1>2, NothingFails DEF AcquireLock, lockFree, startRefused

LEMMA ReadStatusCalm ==
  ASSUME Calm, TypeOK, Grows, JobsFit, NEW p \in Procs, ReadStatus(p) PROVE CalmStep(p)
<1> DEFINE t == job[p].test
<1>0. /\ t \in Tests /\ job[p].op \in {"start", "stop", "complete", "fail"}
      /\ job[p].at = "read" /\ UNCHANGED <<status, lock, armed>> /\ job[p] \in Job
      /\ job \in [Procs -> Job] /\ status[t] \in Statuses
  BY HandlerTest DEF ReadStatus, StepsOf, Ops, Job, db, redis, memory, TypeOK
<1>a. LockedBy(p) BY <1>0 DEF LockedBy
<1>b. \A i \in Instances, u \in Tests : <<u, "start">> \in armed[i] => RunDriven(u)'
  BY <1>0, ArmedStays
<1>1. CASE job' = [job EXCEPT ![p].at = "cas", ![p].from = status[t]]
  <2>1. Turns(p, job[p].op, "cas", t, status[t], job[p].todo)
    BY <1>0, <1>1 DEF Turns, OthersKeepTheirJobs, Job
  <2>2. Fits(status', reported', p, job'[p]) BY <1>0, <2>1, SameOpFits
  <2>3. /\ OthersKeepTheirJobs(p) /\ job'[p].op = job[p].op /\ job'[p].at = "cas"
        /\ job'[p].test = t /\ job'[p].from = status[t]
    BY <2>1 DEF Turns
  <2>4. Holds(job'[p]) => Holds(job[p]) BY <1>0, <2>3 DEF Holds
  <2>5. ASSUME NEW u \in Tests, DrivesRun(job[p], u)
        PROVE  RunDriven(u)' \/ status'[u] # "running"
    <3>1. status[u] = "running" => DrivesRun(job'[p], u) BY <1>0, <2>3, <2>5 DEF DrivesRun
    <3> QED BY <1>0, <3>1 DEF RunDriven
  <2>6. \A u \in Tests : DrivesStop(job[p], u) => DrivesStop(job'[p], u) \/ status'[u] # "stopping"
    BY <1>0, <2>3 DEF DrivesStop
  <2> QED BY <1>0, <1>a, <1>b, <2>2, <2>3, <2>4, <2>5, <2>6 DEF CalmStep
\* StartTest gives up: its lock goes next.
<1>2. CASE ~Allowed("start", status[t]) /\ job[p].op = "start"
           /\ job' = [job EXCEPT ![p].op = "abort", ![p].at = "unlock"]
  <2>1. /\ OthersKeepTheirJobs(p) /\ job'[p].op = "abort" /\ job'[p].at = "unlock"
        /\ job'[p].test = t /\ job'[p].todo = job[p].todo
    BY <1>0, <1>2 DEF OthersKeepTheirJobs, Job
  <2>2. Fits(status, reported, p, job[p]) BY DEF JobsFit
  <2>3. Started(status, t)
    <3>1. status[t] # "absent" BY <1>2, <2>2 DEF Fits
    <3> QED BY <1>2, <3>1 DEF Started, Allowed, Target
  <2>4. Fits(status', reported', p, job'[p]) BY <1>0, <1>2, <2>1, <2>2, <2>3 DEF Fits
  <2>5. Holds(job[p]) BY <1>0, <1>2 DEF Holds
  <2>6. \A u \in Tests : ~DrivesRun(job[p], u) /\ ~DrivesStop(job[p], u)
    BY <1>0, <1>2 DEF DrivesRun, DrivesStop
  <2> QED BY <1>0, <1>a, <1>b, <2>1, <2>4, <2>5, <2>6 DEF CalmStep
<1>3. CASE ~Allowed(job[p].op, status[t]) /\ job[p].op # "start" /\ Return(p)
  <2>1. Over(p) BY <1>3, ReturnIsOver
  <2>2. \A u \in Tests : DrivesRun(job[p], u) => status[u] # "running"
    BY <1>0, <1>3 DEF DrivesRun, Allowed, Target
  <2>3. \A u \in Tests : DrivesStop(job[p], u) => status[u] # "stopping"
    BY <1>0, <1>3 DEF DrivesStop, Allowed, Target
  <2> QED BY <1>0, <1>a, <2>1, <2>2, <2>3, OverCalm
<1> QED BY <1>0, <1>1, <1>2, <1>3, NothingFails DEF ReadStatus, Error

LEMMA CASStatusCalm ==
  ASSUME Calm, TypeOK, Grows, JobsFit, NEW p \in Procs, CASStatus(p) PROVE CalmStep(p)
<1> DEFINE t == job[p].test
<1>0. /\ t \in Tests /\ job[p].op \in {"start", "stop", "complete", "fail"}
      /\ job[p].at = "cas" /\ UNCHANGED <<lock, armed>> /\ job[p] \in Job
      /\ job \in [Procs -> Job] /\ status \in [Tests -> Statuses]
  BY HandlerTest DEF CASStatus, StepsOf, Ops, Job, redis, memory, TypeOK
<1>a. LockedBy(p) BY <1>0 DEF LockedBy
<1>b. \A i \in Instances, u \in Tests : <<u, "start">> \in armed[i] => RunDriven(u)'
  BY <1>0, ArmedStays
<1>1. CASE SetStatus(p) /\ job' = [job EXCEPT ![p].at = NextStep[job[p].op], ![p].from = "absent"]
  <2>1. Turns(p, job[p].op, NextStep[job[p].op], t, "absent", job[p].todo)
    BY <1>0, <1>1 DEF Turns, OthersKeepTheirJobs, Job
  <2>2. Wins(p) BY <1>0, <1>1, <2>1 DEF Wins
  <2>3. status' = [status EXCEPT ![t] = Target[job[p].op]] BY <1>1 DEF SetStatus
  <2>4. NextStep[job[p].op] \in {"seed", "publish", "mark"} /\ Started(status', t)
    BY <1>0, <2>3 DEF NextStep, Target, Started
  <2>5. Fits(status', reported', p, job'[p]) BY <2>1, <2>4, SameOpFits
  <2>6. /\ OthersKeepTheirJobs(p) /\ job'[p].op = job[p].op
        /\ job'[p].at = NextStep[job[p].op]
    BY <2>1 DEF Turns
  <2>7. ~Holds(job'[p]) BY <1>0, <2>4, <2>6 DEF Holds
  <2>8. \A u \in Tests : DrivesRun(job[p], u) => status'[u] # "running"
    BY <1>0, <2>3 DEF DrivesRun, Target
  <2>9. \A u \in Tests : DrivesStop(job[p], u) => status'[u] # "stopping"
    BY <1>0, <2>3 DEF DrivesStop, Target
  <2> QED BY <1>0, <1>a, <1>b, <2>2, <2>5, <2>6, <2>7, <2>8, <2>9 DEF CalmStep
<1>2. CASE Lost(p) /\ UNCHANGED status /\ status[t] # job[p].from
  <2>1. CASE job[p].op = "start"
    <3>1. Goto(p, "unlock") BY <1>2, <2>1 DEF Lost
    <3>2. Turns(p, "start", "unlock", t, job[p].from, job[p].todo) BY <2>1, <3>1, GotoTurns
    <3>3. Fits(status', reported', p, job'[p]) BY <2>1, <3>2, SameOpFits
    <3>4. OthersKeepTheirJobs(p) /\ job'[p].test = t BY <3>2 DEF Turns
    <3>5. Holds(job[p]) BY <1>0, <2>1 DEF Holds
    <3>6. \A u \in Tests : ~DrivesRun(job[p], u) /\ ~DrivesStop(job[p], u)
      BY <1>0, <2>1 DEF DrivesRun, DrivesStop
    <3> QED BY <1>0, <1>a, <1>b, <1>2, <3>3, <3>4, <3>5, <3>6 DEF CalmStep
  <2>2. CASE job[p].op # "start"
    <3>1. Over(p) BY <1>2, <2>2, ReturnIsOver DEF Lost
    <3>2. \A u \in Tests : DrivesRun(job[p], u) => status[u] # "running"
      BY <1>0, <1>2, <2>2 DEF DrivesRun
    <3>3. \A u \in Tests : DrivesStop(job[p], u) => status[u] # "stopping"
      BY <1>0, <1>2 DEF DrivesStop
    <3> QED BY <1>0, <1>a, <1>2, <3>1, <3>2, <3>3, OverCalm
  <2> QED BY <2>1, <2>2
<1> QED BY <1>1, <1>2, NothingFails DEF CASStatus

LEMMA UnlockCalm ==
  ASSUME Calm, TypeOK, Grows, JobsFit, Claims, NEW p \in Procs, Unlock(p)
  PROVE  CalmStep(p)
<1> DEFINE t == job[p].test
<1>0. /\ t \in Tests /\ job[p].op \in {"start", "abort"} /\ job[p].at = "unlock"
      /\ UNCHANGED status /\ lock' = [lock EXCEPT ![ContestantOf[t]] = NoTest]
  BY HandlerTest, NothingFails DEF Unlock, releaseLock, db
<1>1. Holds(job[p]) /\ status[t] \notin InProgress BY <1>0 DEF Holds, Claims
<1>2. \A u \in Tests : ~DrivesRun(job[p], u) /\ ~DrivesStop(job[p], u)
  BY <1>0 DEF DrivesRun, DrivesStop
<1>3. Fits(status, reported, p, job[p]) BY DEF JobsFit
\* What StartTest refused had run before, and is over.
<1>4. CASE job[p].op = "abort" /\ BeginFail(p, t, {})
  <2>1. Turns(p, "fail", "read", t, "absent", {}) /\ Disarmed(t) BY <1>0, <1>4, FailTurns
  <2>2. Started(status, t) /\ p[2] = "consumer" BY <1>3, <1>4 DEF Fits
  <2>3. status[t] \in Terminal BY <1>0, <1>1, <2>2 DEF Started, TypeOK
  <2>4. ~Holds(job'[p]) /\ \A u \in Tests : ~Finishing(p, u)'
    BY <2>1 DEF Turns, Holds, Finishing
  <2>5. LockedBy(p) BY <1>0, <1>1, <2>4 DEF LockedBy
  <2>6. p[2] \notin Tests BY <2>2, ConstantsAssumption
  <2> QED BY <1>0, <2>1, <2>2, <2>3, <2>5, <2>6, BeginsCalm
<1>5. CASE job[p].op = "start" /\ Return(p) /\ UNCHANGED memory
  <2>1. Over(p) BY <1>5, ReturnIsOver
  <2>2. ~Holds(job'[p]) /\ \A u \in Tests : ~Finishing(p, u)'
    BY <2>1 DEF Over, Holds, Finishing
  <2>3. LockedBy(p) BY <1>0, <1>1, <2>2 DEF LockedBy
  <2> QED BY <1>0, <1>2, <1>5, <2>1, <2>3, OverCalm DEF memory
<1> QED BY <1>4, <1>5 DEF Unlock

\* The steps from one call to the next, with the rows and the lock untouched.
LEMMA PassesOnCalm ==
  ASSUME TypeOK, Grows, JobsFit, NEW p \in Procs, NEW at \in {"publish", "arm", "drain", "finish"},
         Turns(p, job[p].op, at, job[p].test, job[p].from, job[p].todo),
         UNCHANGED <<status, lock, armed>>,
         \/ job[p].op = "start" /\ job[p].at = "seed" /\ at = "publish"
         \/ job[p].op = "start" /\ job[p].at = "publish" /\ at = "arm"
         \/ job[p].op = "stop" /\ job[p].at = "publish" /\ at = "drain"
         \/ job[p].op = "fail" /\ job[p].at = "publish" /\ at = "finish"
         \/ job[p].op = "complete" /\ job[p].at = "mark" /\ at = "finish"
  PROVE  CalmStep(p)
<1>0. job[p].test \in Tests BY HandlerTest
<1>1. Fits(status, reported, p, job[p]) BY DEF JobsFit
<1>2. Fits(status', reported', p, job'[p])
  <2>1. job[p].op = "start" => Started(status', job[p].test)
    BY <1>0, <1>1 DEF Fits, Grows
  <2> QED BY <2>1, SameOpFits
<1>3. /\ OthersKeepTheirJobs(p) /\ job'[p].op = job[p].op /\ job'[p].at = at
      /\ job'[p].test = job[p].test
  BY DEF Turns
<1>4. ~Holds(job'[p]) /\ LockedBy(p) BY <1>3 DEF Holds, LockedBy
<1>5. ASSUME NEW u \in Tests, DrivesRun(job[p], u) PROVE RunDriven(u)'
  <2>1. DrivesRun(job'[p], u) BY <1>3, <1>5 DEF DrivesRun
  <2> QED BY <2>1 DEF RunDriven
<1>6. \A u \in Tests : DrivesStop(job[p], u) => DrivesStop(job'[p], u)
  BY <1>3 DEF DrivesStop
<1> QED BY <1>2, <1>3, <1>4, <1>5, <1>6, ArmedStays DEF CalmStep

LEMMA SeedCalm ==
  ASSUME TypeOK, Grows, JobsFit, NEW p \in Procs, Seed(p) PROVE CalmStep(p)
<1>1. job[p].at = "seed" /\ job[p].op = "start" BY HandlerTest DEF Seed, StepsOf, Job, Ops
<1>2. Turns(p, job[p].op, "publish", job[p].test, job[p].from, job[p].todo)
  BY GotoTurns DEF Seed
<1> QED BY <1>1, <1>2, PassesOnCalm DEF Seed, db, memory

LEMMA PublishCalm ==
  ASSUME TypeOK, Grows, JobsFit, NEW p \in Procs, Publish(p) PROVE CalmStep(p)
<1> DEFINE keyed == IF job[p].op = "stop" THEN contestantFor(p[1], job[p].test)
                    ELSE job[p].key
           step  == [start |-> "arm", stop |-> "drain", fail |-> "finish"]
<1>1. job' = [job EXCEPT ![p].at = step[job[p].op], ![p].key = keyed] BY DEF Publish
<1>2. /\ job[p].at = "publish" /\ job[p].op \in {"start", "stop", "fail"}
      /\ job[p] \in Job /\ job \in [Procs -> Job]
  <2>1. job[p].at = "publish" BY DEF Publish
  <2>2. job[p].at \in StepsOf[job[p].op] /\ job[p] \in Job BY <2>1, HandlerTest
  <2>3. job[p].op \in Ops BY <2>2 DEF Job
  <2>4. job[p].op \in {"start", "stop", "fail"} BY <2>1, <2>2, <2>3 DEF StepsOf, Ops
  <2> QED BY <2>1, <2>2, <2>4 DEF TypeOK
<1>3. /\ OthersKeepTheirJobs(p) /\ job'[p].op = job[p].op /\ job'[p].at = step[job[p].op]
      /\ job'[p].test = job[p].test /\ job'[p].from = job[p].from
      /\ job'[p].todo = job[p].todo
  BY <1>1, <1>2 DEF OthersKeepTheirJobs, Job
<1>4. Turns(p, job[p].op, step[job[p].op], job[p].test, job[p].from, job[p].todo)
  BY <1>3 DEF Turns
<1>5. UNCHANGED <<status, lock, armed>> BY DEF Publish, db, redis, memory
<1> QED BY <1>2, <1>4, <1>5, PassesOnCalm

LEMMA MarkCalm ==
  ASSUME TypeOK, Grows, JobsFit, NEW p \in Procs, Mark(p) PROVE CalmStep(p)
<1>1. job[p].at = "mark" /\ job[p].op = "complete"
  BY HandlerTest DEF Mark, StepsOf, Job, Ops
<1>2. Turns(p, job[p].op, "finish", job[p].test, job[p].from, job[p].todo)
  BY GotoTurns DEF Mark
<1> QED BY <1>1, <1>2, PassesOnCalm DEF Mark, redis, memory

LEMMA ArmCalm ==
  ASSUME TypeOK, Grows, JobsFit, NEW p \in Procs, Arm(p) PROVE CalmStep(p)
<1>0. PICK t \in Tests : t = job[p].test
  <2>1. job[p].at = "arm" BY DEF Arm
  <2> QED BY <2>1, HandlerTest
<1>1. /\ job[p].at = "arm" /\ job[p].op = "start"
      /\ UNCHANGED <<status, lock>> /\ p[1] \in Instances
  BY HandlerTest, ProcParts DEF Arm, StepsOf, Job, Ops, db, redis
<1>2. armed' = [armed EXCEPT ![p[1]] = armed[p[1]] \cup {<<t, "start">>}]
      /\ armed \in [Instances -> SUBSET (Tests \X TimerKinds)]
  BY <1>0 DEF Arm, setTimer, TypeOK
<1>3. \A i \in Instances : armed[i] \subseteq armed'[i] BY <1>1, <1>2
<1>4. <<t, "start">> \in armed'[p[1]] BY <1>1, <1>2
<1>5. RunDriven(t)' BY <1>1, <1>4 DEF RunDriven
<1>6. \A u \in Tests : DrivesRun(job[p], u) => u = t BY <1>0 DEF DrivesRun
<1>7. \A u \in Tests : ~DrivesStop(job[p], u) BY <1>1 DEF DrivesStop
<1>8. Over(p) /\ LockedBy(p) BY <1>1, ReturnIsOver DEF Arm, LockedBy
<1>9. \A u \in Tests : DrivesRun(job[p], u) => RunDriven(u)' BY <1>5, <1>6
<1> QED BY <1>1, <1>3, <1>7, <1>8, <1>9, OverCalm

LEMMA DrainCalm ==
  ASSUME TypeOK, Grows, JobsFit, NEW p \in Procs, Drain(p) PROVE CalmStep(p)
<1> DEFINE t == job[p].test
<1>1. /\ job[p].at = "drain" /\ job[p].op = "stop" /\ t \in Tests
      /\ UNCHANGED <<status, lock, armed>> /\ job[p] \in Job /\ job \in [Procs -> Job]
  BY HandlerTest DEF Drain, StepsOf, Job, Ops, db, redis, memory, TypeOK
<1>2. /\ OthersKeepTheirJobs(p) /\ job'[p].op = "complete" /\ job'[p].at = "read"
      /\ job'[p].test = t /\ job'[p].todo = job[p].todo
  BY <1>1 DEF Drain, OthersKeepTheirJobs, Job
<1>3. Fits(status, reported, p, job[p]) /\ job[p].todo \subseteq Tests
  BY <1>1 DEF JobsFit, Job
<1>4. Fits(status', reported', p, job'[p]) BY <1>1, <1>2, <1>3 DEF Fits, Grows
<1>5. \A u \in Tests : ~DrivesRun(job[p], u) BY <1>1 DEF DrivesRun
<1>6. \A u \in Tests : DrivesStop(job[p], u) => DrivesStop(job'[p], u)
  BY <1>2 DEF DrivesStop
<1>7. ~Holds(job'[p]) /\ LockedBy(p) BY <1>1, <1>2 DEF Holds, LockedBy
<1> QED BY <1>1, <1>2, <1>4, <1>5, <1>6, <1>7, ArmedStays DEF CalmStep

LEMMA FinishCalm ==
  ASSUME TypeOK, Grows, JobsFit, NEW p \in Procs, Finish(p) PROVE CalmStep(p)
<1> DEFINE t == job[p].test
<1>1. /\ job[p].at = "finish" /\ job[p].op \in {"complete", "fail"} /\ t \in Tests
      /\ UNCHANGED <<status, armed>>
  BY HandlerTest DEF Finish, StepsOf, Job, Ops, db
<1>2. Over(p) BY ReturnIsOver DEF Finish
<1>3. ~Holds(job'[p]) /\ \A u \in Tests : ~Finishing(p, u)'
  BY <1>2 DEF Over, Holds, Finishing
<1>4. Finishing(p, t) BY <1>1 DEF Finishing
<1>5. LockedBy(p) BY <1>1, <1>3, <1>4 DEF LockedBy, Finish, releaseLock
<1>6. \A u \in Tests : ~DrivesRun(job[p], u) /\ ~DrivesStop(job[p], u)
  BY <1>1 DEF DrivesRun, DrivesStop
<1> QED BY <1>1, <1>2, <1>5, <1>6, OverCalm

LEMMA HandlerCalm ==
  ASSUME Calm, TypeOK, Grows, JobsFit, Claims, NEW p \in Procs, Handler(p)
  PROVE  CalmStep(p)
BY AcquireLockCalm, ReadStatusCalm, CASStatusCalm, UnlockCalm, SeedCalm, PublishCalm,
   ArmCalm, DrainCalm, MarkCalm, FinishCalm DEF Handler

-----------------------------------------------------------------------------
(* The steps of the loops and the timers *)

LEMMA HeadTells ==
  ASSUME TypeOK, TopicTells, NEW i \in Instances, NEW k \in Keys, NEW kind, Take(i, k, kind)
  PROVE  Tells(status, reported, Head(topic[k])) /\ Head(topic[k]).event = kind
<1>1. topic[k] \in Seq(TestEvent \cup CrashEvent) /\ topic[k] # <<>>
  BY DEF TypeOK, Take
<1>2. 1 \in 1 .. Len(topic[k]) /\ Head(topic[k]) = topic[k][1] BY <1>1
<1> QED BY <1>2 DEF TopicTells, Take

LEMMA LoopThreads ==
  ASSUME NEW i \in Instances
  PROVE  /\ <<i, "consumer">>[2] = "consumer" /\ <<i, "recovery">>[2] = "recovery"
         /\ "consumer" \notin Tests /\ "recovery" \notin Tests
         /\ <<i, "consumer">>[1] = i /\ <<i, "recovery">>[1] = i
         /\ \A t \in Tests : <<i, t>>[2] = t /\ <<i, t>>[1] = i
                             /\ t # "consumer" /\ t # "recovery"
BY ConstantsAssumption

LEMMA SameLock == ASSUME NEW p \in Procs, UNCHANGED lock PROVE LockedBy(p)
BY DEF LockedBy

LEMMA ReceiveStartCalm ==
  ASSUME TypeOK, Grows, JobsFit, TopicTells, NEW i \in Instances, NEW k \in Keys,
         ReceiveStart(i, k)
  PROVE  CalmStep(<<i, "consumer">>)
<1> DEFINE t == Head(topic[k]).test
           j == [NoJob EXCEPT !.op = "start", !.at = "lock", !.test = t]
<1>0. PICK p \in Procs : p = <<i, "consumer">> BY ThreadProc
<1>1. Take(i, k, "START_TEST") /\ job' = [job EXCEPT ![p] = j]
  BY <1>0 DEF ReceiveStart
<1>2. t \in Tests /\ status[t] # "absent" BY <1>1, TakeType, HeadTells DEF Tells
<1>3. j.op = "start" /\ j.at = "lock" /\ j.test = t /\ j.todo = {} /\ j \in Job
  BY <1>2, StartJobType DEF NoJob
<1>4. job'[p] = j /\ OthersKeepTheirJobs(p) /\ job[p] = NoJob
  BY <1>0, <1>1 DEF TypeOK, OthersKeepTheirJobs, Take
<1> HIDE DEF j, t
<1>5. p[2] = "consumer" /\ p[2] \notin Tests BY <1>0, LoopThreads
<1>6. Fits(status', reported', p, job'[p]) BY <1>2, <1>3, <1>4, <1>5 DEF Fits, Grows
<1>7. ~Holds(job'[p]) /\ job[p].op = "none" BY <1>3, <1>4 DEF Holds, NoJob
<1> QED BY <1>0, <1>4, <1>6, <1>7, TakesJobCalm DEF ReceiveStart, db, redis, memory

LEMMA ReceiveStopCalm ==
  ASSUME TypeOK, Grows, JobsFit, TopicTells, NEW i \in Instances, NEW k \in Keys,
         ReceiveStop(i, k)
  PROVE  CalmStep(<<i, "consumer">>)
<1>0. PICK p \in Procs : p = <<i, "consumer">> BY ThreadProc
<1>1. Take(i, k, "STOP_TEST") /\ job[p] = NoJob BY <1>0 DEF ReceiveStop, Take
<1>2. PICK t \in Tests : t = Head(topic[k]).test BY <1>1, TakeType
<1>3. Started(status, t) BY <1>1, <1>2, HeadTells DEF Tells
<1>4. Turns(p, "stop", "read", t, "absent", {}) /\ Disarmed(t)
  BY <1>0, <1>2, StopTurns DEF ReceiveStop
<1>5. p[2] = "consumer" /\ p[2] \notin Tests /\ job[p].at = "idle"
  BY <1>0, <1>1, LoopThreads DEF NoJob
<1>6. UNCHANGED status /\ LockedBy(p) BY SameLock DEF ReceiveStop, db, redis
<1> QED BY <1>0, <1>3, <1>4, <1>5, <1>6, BeginsCalm

LEMMA ReceiveCrashCalm ==
  ASSUME TypeOK, Grows, JobsFit, TopicTells, MapsName, NEW i \in Instances, NEW k \in Keys,
         ReceiveCrash(i, k)
  PROVE  CalmStep(<<i, "consumer">>)
<1> DEFINE c == Head(topic[k]).contestant
           hit == {t \in active[i] : ContestantOf[t] = c}
           j == [NoJob EXCEPT !.op = "loop", !.at = "next", !.todo = hit]
<1>0. PICK p \in Procs : p = <<i, "consumer">> BY ThreadProc
<1>1. /\ Take(i, k, "CONTAINER_CRASHED") /\ job[p] = NoJob
      /\ job' = IF hit = {} THEN job ELSE [job EXCEPT ![p] = j]
  BY <1>0 DEF ReceiveCrash, Take
<1>2. c \in reported BY <1>1, HeadTells DEF Tells
<1>3. hit \subseteq Tests /\ \A u \in hit : Started(status, u) BY DEF MapsName, TypeOK
<1>4. \A u \in hit : ContestantOf[u] \in reported BY <1>2
<1>5. /\ j.op = "loop" /\ j.at = "next" /\ j.todo = hit
      /\ NoJob.op = "none" /\ NoJob.at = "idle" /\ NoJob.todo = {}
  BY DEF NoJob
<1>6. OthersKeepTheirJobs(p) /\ (job'[p] = j \/ job'[p] = NoJob)
  BY <1>0, <1>1 DEF TypeOK, OthersKeepTheirJobs
<1>7. p[2] = "consumer" /\ p[2] \notin Tests BY <1>0, LoopThreads
<1> HIDE DEF j, hit
<1>8. \A u \in hit : Started(status', u) /\ ContestantOf[u] \in reported'
  BY <1>3, <1>4 DEF Grows
<1>9. Fits(status', reported', p, job'[p])
  <2>1. /\ job'[p].op \in {"none", "loop"} /\ job'[p].at \in {"idle", "next"}
        /\ job'[p].todo = {} \/ job'[p].todo = hit
    BY <1>5, <1>6
  <2> QED BY <1>7, <1>8, <2>1 DEF Fits
<1>10. ~Holds(job'[p]) /\ job[p].op = "none" BY <1>1, <1>5, <1>6 DEF Holds
<1> QED BY <1>0, <1>6, <1>9, <1>10, TakesJobCalm DEF ReceiveCrash, db, redis, memory

LEMMA NextCrashedCalm ==
  ASSUME TypeOK, Grows, JobsFit, NEW i \in Instances, NextCrashed(i)
  PROVE  CalmStep(<<i, "consumer">>)
<1>0. PICK p \in Procs : p = <<i, "consumer">> BY ThreadProc
<1>1. job[p].at = "next" BY <1>0 DEF NextCrashed
<1>2. PICK t \in job[p].todo : BeginFail(p, t, job[p].todo \ {t}) BY <1>0 DEF NextCrashed
<1>3. job[p].todo \subseteq Tests BY JobType DEF Job
<1>4. Fits(status, reported, p, job[p]) BY DEF JobsFit
<1>5. p[2] = "consumer" /\ p[2] \notin Tests BY <1>0, LoopThreads
<1>6. \A u \in job[p].todo : Started(status, u) /\ ContestantOf[u] \in reported'
  BY <1>3, <1>4, <1>5 DEF Fits, Grows
<1>7. t \in Tests /\ job[p].todo \ {t} \in SUBSET Tests BY <1>3
<1>8. Turns(p, "fail", "read", t, "absent", job[p].todo \ {t}) /\ Disarmed(t)
  BY <1>2, <1>7, FailTurns
<1>9. UNCHANGED status /\ LockedBy(p) BY SameLock DEF NextCrashed, db, redis
<1> QED BY <1>0, <1>1, <1>5, <1>6, <1>7, <1>8, <1>9, BeginsCalm

LEMMA FireTimerCalm ==
  ASSUME TypeOK, Grows, JobsFit, MapsName, NEW i \in Instances, NEW t \in Tests,
         NEW kind \in TimerKinds, FireTimer(i, t, kind)
  PROVE  CalmStep(<<i, t>>)
<1> DEFINE j == ReadStep("stop", t, {})
<1>0. PICK p \in Procs : p = <<i, t>> BY ThreadProc
<1>1. /\ <<t, kind>> \in armed[i] /\ job[p] = NoJob
      /\ armed' = [armed EXCEPT ![i] = armed[i] \ {<<t, kind>>, <<t, timers[i][t]>>}]
      /\ job' = [job EXCEPT ![p] = j] /\ UNCHANGED <<status, lock>>
  BY <1>0 DEF FireTimer, db, redis
<1>2. Started(status, t) BY <1>1 DEF MapsName
<1>3. j.test = t /\ j.at = "read" /\ j.op = "stop" /\ j.from = "absent" /\ j.todo = {}
  BY DEF ReadStep, NoJob
<1>4. job'[p] = j /\ OthersKeepTheirJobs(p)
  BY <1>1 DEF OthersKeepTheirJobs, TypeOK
<1> HIDE DEF j
<1>5. Turns(p, "stop", "read", t, "absent", {}) BY <1>3, <1>4 DEF Turns
<1>6. Disarmed(t)
  <2>1. armed \in [Instances -> SUBSET (Tests \X TimerKinds)] BY DEF TypeOK
  <2>2. ASSUME NEW k \in Instances
        PROVE  /\ armed'[k] \subseteq armed[k]
               /\ \A x \in armed[k] : x \in armed'[k] \/ x = <<t, kind>> \/ x = <<t, timers[i][t]>>
    BY <1>1, <2>1
  <2> QED BY <2>2 DEF Disarmed
<1>7. p[2] = t /\ p[2] # "consumer" /\ job[p].at = "idle"
  BY <1>0, <1>1, LoopThreads DEF NoJob
<1>8. LockedBy(p) BY <1>1, SameLock
<1> QED BY <1>0, <1>1, <1>2, <1>5, <1>6, <1>7, <1>8, BeginsCalm

\* The recovery loop turns to the next orphan of its snapshot.
LEMMA LoopStepCalm ==
  ASSUME TypeOK, Grows, NEW p \in Procs, p[2] = "recovery", job[p].op \in {"none", "loop"},
         NEW at \in {"probe", "next"}, NEW t \in Tests \cup {NoTest}, NEW todo \in SUBSET Tests,
         at = "probe" => t \in Tests /\ Started(status, t),
         \A u \in todo : Started(status, u),
         job' = [job EXCEPT ![p] = LoopStep(at, t, todo)], UNCHANGED <<status, lock, armed>>
  PROVE  CalmStep(p)
<1> DEFINE j == LoopStep(at, t, todo)
<1>1. /\ j.op \in {"none", "loop"} /\ j.at \in {"idle", at}
      /\ j.at = "probe" => j.test = t
      /\ j.todo \subseteq todo
  BY DEF LoopStep, NoJob
<1>2. job'[p] = j /\ OthersKeepTheirJobs(p) BY DEF OthersKeepTheirJobs, TypeOK
<1> HIDE DEF j
<1>3. Fits(status', reported', p, job'[p])
  <2>1. p[2] # "consumer" /\ p[2] \notin Tests BY ConstantsAssumption
  <2>2. \A u \in j.todo : Started(status', u) BY <1>1 DEF Grows
  <2>3. j.at \in {"probe", "claim", "register"} => Started(status', j.test)
    BY <1>1 DEF Grows
  <2> QED BY <1>1, <1>2, <2>1, <2>2, <2>3 DEF Fits
<1>4. ~Holds(job'[p]) BY <1>1, <1>2 DEF Holds
<1> QED BY <1>2, <1>3, <1>4, TakesJobCalm

LEMMA FindOrphansCalm ==
  ASSUME TypeOK, Grows, NEW i \in Instances, FindOrphans(i)
  PROVE  CalmStep(<<i, "recovery">>)
<1>0. PICK p \in Procs : p = <<i, "recovery">> BY ThreadProc
<1> DEFINE j == [NoJob EXCEPT !.op = "loop", !.at = "next", !.todo = Orphans]
<1>1. /\ job' = [job EXCEPT ![p] = j] /\ job[p] = NoJob
      /\ UNCHANGED <<status, lock, armed>>
  BY <1>0 DEF FindOrphans, db, redis, memory
<1>2. \A u \in Orphans : Started(status', u) BY <1>1 DEF Orphans, Started
<1>3. j.op = "loop" /\ j.at = "next" /\ j.todo = Orphans /\ NoJob.op = "none"
  BY DEF NoJob
<1>4. job'[p] = j /\ OthersKeepTheirJobs(p) BY <1>1 DEF OthersKeepTheirJobs, TypeOK
<1>5. p[2] # "consumer" /\ p[2] \notin Tests BY <1>0, LoopThreads
<1> HIDE DEF j
<1>6. Fits(status', reported', p, job'[p]) /\ ~Holds(job'[p])
  BY <1>2, <1>3, <1>4, <1>5 DEF Fits, Holds
<1> QED BY <1>0, <1>1, <1>3, <1>4, <1>6, TakesJobCalm

\* The orphans the recovery loop has still to look at have started.
LEMMA SnapshotStarted ==
  ASSUME TypeOK, JobsFit, NEW p \in Procs
  PROVE  job[p].todo \subseteq Tests /\ \A u \in job[p].todo : Started(status, u)
<1>1. Fits(status, reported, p, job[p]) BY DEF JobsFit
<1> QED BY <1>1, JobType DEF Fits, Job

LEMMA LockOrphanCalm ==
  ASSUME Calm, TypeOK, Grows, JobsFit, NEW i \in Instances, LockOrphan(i)
  PROVE  CalmStep(<<i, "recovery">>)
<1>0. PICK p \in Procs : p = <<i, "recovery">> BY ThreadProc
<1>1. job[p].at = "next" /\ UNCHANGED <<status, lock, armed>>
  BY <1>0 DEF LockOrphan, db, memory
<1>2. PICK t \in job[p].todo :
        \/ job' = [job EXCEPT ![p] = LoopStep("probe", t, job[p].todo \ {t})]
        \/ job' = [job EXCEPT ![p] = LoopStep("next", NoTest, job[p].todo \ {t})]
  BY <1>0 DEF LockOrphan
<1>3. /\ t \in Tests /\ Started(status, t) /\ job[p].todo \ {t} \in SUBSET Tests
      /\ \A u \in job[p].todo \ {t} : Started(status, u)
  BY <1>2, SnapshotStarted
<1>4. p[2] = "recovery" /\ job[p].op = "loop"
  BY <1>0, <1>1, LoopThreads, JobType DEF JobShape, StepsOf, Job, Ops
<1> QED BY <1>0, <1>1, <1>2, <1>3, <1>4, LoopStepCalm

LEMMA ReleaseOrphanCalm ==
  ASSUME TypeOK, Grows, JobsFit, NEW i \in Instances, ReleaseOrphan(i)
  PROVE  CalmStep(<<i, "recovery">>)
<1>0. PICK p \in Procs : p = <<i, "recovery">> BY ThreadProc
<1>1. /\ job[p].at = "release" /\ UNCHANGED <<status, lock, armed>>
      /\ job' = [job EXCEPT ![p] = LoopStep("next", NoTest, job[p].todo)]
  BY <1>0 DEF ReleaseOrphan, db, memory
<1>2. p[2] = "recovery" /\ job[p].op = "loop"
  BY <1>0, <1>1, LoopThreads, JobType DEF JobShape, StepsOf, Job, Ops
<1> QED BY <1>0, <1>1, <1>2, SnapshotStarted, LoopStepCalm

\* What the recovery loop knows of the orphan in its hands.
LEMMA OrphanStarted ==
  ASSUME TypeOK, JobsFit, NEW p \in Procs, job[p].at \in {"probe", "claim", "register"}
  PROVE  job[p].test \in Tests /\ Started(status, job[p].test) /\ job[p].op = "loop"
<1>1. Fits(status, reported, p, job[p]) BY DEF JobsFit
<1>2. job[p].op = "loop" BY JobType DEF JobShape, StepsOf, Job, Ops
<1>3. job[p].test \in Tests BY <1>2, JobType DEF JobShape
<1> QED BY <1>1, <1>2, <1>3 DEF Fits

LEMMA ClaimOrphanCalm ==
  ASSUME TypeOK, Grows, JobsFit, NEW p \in Procs, NEW at \in {"claim", "register"},
         job[p].at \in {"probe", "claim"}, Goto(p, at), UNCHANGED <<status, lock, armed>>
  PROVE  CalmStep(p)
<1>1. /\ job[p].test \in Tests /\ Started(status, job[p].test) /\ job[p].op = "loop"
      /\ Fits(status, reported, p, job[p]) /\ job[p].todo \subseteq Tests
  BY OrphanStarted, SnapshotStarted DEF JobsFit
<1>2. Turns(p, "loop", at, job[p].test, job[p].from, job[p].todo) BY <1>1, GotoTurns
<1>3. Fits(status', reported', p, job'[p]) BY <1>1, <1>2 DEF Fits, Turns, Grows
<1>4. OthersKeepTheirJobs(p) /\ ~Holds(job'[p]) BY <1>2 DEF Turns, Holds
<1> QED BY <1>1, <1>3, <1>4, TakesJobCalm

LEMMA ProbeCalm ==
  ASSUME TypeOK, Grows, JobsFit, NEW i \in Instances, Probe(i)
  PROVE  CalmStep(<<i, "recovery">>)
<1>0. PICK p \in Procs : p = <<i, "recovery">> BY ThreadProc
<1>1. job[p].at = "probe" /\ UNCHANGED <<status, lock>> BY <1>0 DEF Probe, db, redis
<1>2. /\ job[p].test \in Tests /\ Started(status, job[p].test)
      /\ job[p].todo \in SUBSET Tests /\ \A u \in job[p].todo : Started(status, u)
  BY <1>1, OrphanStarted, SnapshotStarted
<1>3. p[2] # "consumer" /\ p[2] \notin Tests BY <1>0, LoopThreads
<1>4. CASE Goto(p, "claim") /\ UNCHANGED armed BY <1>0, <1>1, <1>4, ClaimOrphanCalm
<1>5. CASE BeginStop(p, job[p].test, job[p].todo)
  <2>1. Turns(p, "stop", "read", job[p].test, "absent", job[p].todo) /\ Disarmed(job[p].test)
    BY <1>2, <1>5, StopTurns
  <2> QED BY <1>0, <1>1, <1>2, <1>3, <2>1, SameLock, BeginsCalm
<1>6. CASE BeginFail(p, job[p].test, job[p].todo)
  <2>1. Turns(p, "fail", "read", job[p].test, "absent", job[p].todo) /\ Disarmed(job[p].test)
    BY <1>2, <1>6, FailTurns
  <2> QED BY <1>0, <1>1, <1>2, <1>3, <2>1, SameLock, BeginsCalm
<1> QED BY <1>0, <1>4, <1>5, <1>6 DEF Probe

LEMMA RegisterRecoveredTimerCalm ==
  ASSUME TypeOK, Grows, JobsFit, NEW i \in Instances, RegisterRecoveredTimer(i)
  PROVE  CalmStep(<<i, "recovery">>)
<1>0. PICK p \in Procs : p = <<i, "recovery">> BY ThreadProc
<1>1. /\ job[p].at = "register" /\ UNCHANGED <<status, lock>>
      /\ setTimer(i, job[p].test, "recovered") /\ Return(p)
  BY <1>0 DEF RegisterRecoveredTimer, db, redis
<1>2. \A k \in Instances : armed[k] \subseteq armed'[k] BY <1>1 DEF setTimer, TypeOK
<1>3. job[p].op = "loop" BY <1>1, OrphanStarted
<1>4. \A u \in Tests : ~DrivesRun(job[p], u) /\ ~DrivesStop(job[p], u)
  BY <1>3 DEF DrivesRun, DrivesStop
<1> QED BY <1>0, <1>1, <1>2, <1>4, SameLock, ReturnIsOver, OverCalm

\* A step of instance i is a calm step of one of its goroutines.
LEMMA InstanceCalm ==
  ASSUME Calm, TypeOK, Grows, JobsFit, TopicTells, MapsName, NEW i \in Instances,
         Consume(i) \/ Timer(i) \/ Recover(i)
  PROVE  \E p \in Procs : CalmStep(p)
<1>1. CASE Consume(i)
  BY <1>1, ThreadProc, ReceiveStartCalm, ReceiveStopCalm, ReceiveCrashCalm, NextCrashedCalm
     DEF Consume
<1>2. CASE Timer(i) BY <1>2, ThreadProc, FireTimerCalm DEF Timer
<1>3. CASE Recover(i)
  <2>1. ASSUME ClaimRecovery(i) PROVE CalmStep(<<i, "recovery">>)
    <3>0. PICK p \in Procs : p = <<i, "recovery">> BY ThreadProc
    <3>1. job[p].at = "claim" /\ Goto(p, "register") /\ UNCHANGED <<status, lock, armed>>
      BY <2>1, <3>0 DEF ClaimRecovery, redis, memory
    <3> QED BY <3>0, <3>1, ClaimOrphanCalm
  <2> QED BY <1>3, <2>1, ThreadProc, FindOrphansCalm, LockOrphanCalm, ProbeCalm,
             RegisterRecoveredTimerCalm, ReleaseOrphanCalm DEF Recover
<1> QED BY <1>1, <1>2, <1>3

-----------------------------------------------------------------------------
(* The topic, the maps and the requests *)

LEMMA TellsGrows ==
  ASSUME Grows, NEW e \in TestEvent \cup CrashEvent, Tells(status, reported, e)
  PROVE  Tells(status', reported', e)
BY DEF Grows, Tells, TestEvent, CrashEvent

LEMMA SentTells ==
  ASSUME TypeOK, Grows, TopicTells, NEW key \in Keys, NEW m \in TestEvent \cup CrashEvent,
         Send(key, m), Tells(status', reported', m)
  PROVE  TopicTells'
<1>1. ASSUME NEW k \in Keys, NEW n \in 1 .. Len(topic'[k])
      PROVE  Tells(status', reported', topic'[k][n])
  <2>1. /\ topic \in [Keys -> Seq(TestEvent \cup CrashEvent)]
        /\ topic' = [topic EXCEPT ![key] = Append(topic[key], m)]
    BY DEF TypeOK, Send
  <2>2. ASSUME NEW x \in 1 .. Len(topic[k]) PROVE Tells(status', reported', topic[k][x])
    <3>1. topic[k][x] \in TestEvent \cup CrashEvent BY <2>1
    <3> QED BY <3>1, TellsGrows DEF TopicTells
  <2>3. topic'[k][n] = m \/ (n \in 1 .. Len(topic[k]) /\ topic'[k][n] = topic[k][n])
    BY <2>1
  <2> QED BY <2>2, <2>3
<1> QED BY <1>1 DEF TopicTells

LEMMA TakenTells ==
  ASSUME TypeOK, Grows, TopicTells, NEW i \in Instances, NEW key \in Keys, NEW kind,
         Take(i, key, kind)
  PROVE  TopicTells'
<1>1. ASSUME NEW k \in Keys, NEW n \in 1 .. Len(topic'[k])
      PROVE  Tells(status', reported', topic'[k][n])
  <2>1. /\ topic \in [Keys -> Seq(TestEvent \cup CrashEvent)] /\ topic[key] # <<>>
        /\ topic' = [topic EXCEPT ![key] = Tail(topic[key])]
    BY DEF TypeOK, Take
  <2>2. \E x \in 1 .. Len(topic[k]) : topic'[k][n] = topic[k][x]
    <3>1. CASE k = key
      <4>1. n + 1 \in 1 .. Len(topic[k]) /\ topic'[k][n] = topic[k][n + 1] BY <2>1, <3>1
      <4> QED BY <4>1
    <3>2. CASE k # key BY <2>1, <3>2
    <3> QED BY <3>1, <3>2
  <2>3. PICK x \in 1 .. Len(topic[k]) : topic'[k][n] = topic[k][x] BY <2>2
  <2>4. topic[k][x] \in TestEvent \cup CrashEvent BY <2>1
  <2> QED BY <2>3, <2>4, TellsGrows DEF TopicTells
<1> QED BY <1>1 DEF TopicTells

LEMMA UntouchedTells ==
  ASSUME TypeOK, Grows, TopicTells, UNCHANGED topic PROVE TopicTells'
<1>1. ASSUME NEW k \in Keys, NEW n \in 1 .. Len(topic[k])
      PROVE  Tells(status', reported', topic[k][n])
  <2>1. topic[k][n] \in TestEvent \cup CrashEvent BY DEF TypeOK
  <2> QED BY <2>1, TellsGrows DEF TopicTells
<1> QED BY <1>1 DEF TopicTells

LEMMA PublishTells ==
  ASSUME Calm, TypeOK, Grows, JobsFit, TopicTells, NEW p \in Procs, Publish(p)
  PROVE  TopicTells'
<1> DEFINE t == job[p].test
           keyed == IF job[p].op = "stop" THEN contestantFor(p[1], t) ELSE job[p].key
           key == IF job[p].op = "start" \/ keyed THEN ContestantOf[t] ELSE NoKey
           event == IF job[p].op = "start" THEN "START_TEST" ELSE "STOP_TEST"
           m == [event |-> event, test |-> t]
<1>1. job[p].at = "publish" /\ Send(key, m) BY NothingFails DEF Publish
<1>2. t \in Tests /\ job[p].op \in {"start", "stop", "fail"}
  <2>1. t \in Tests /\ job[p].at \in StepsOf[job[p].op] /\ job[p] \in Job
    BY <1>1, HandlerTest
  <2>2. job[p].op \in Ops BY <2>1 DEF Job
  <2> QED BY <1>1, <2>1, <2>2 DEF StepsOf, Ops
<1>3. key \in Keys BY <1>2, ConstantsAssumption DEF Keys
<1>4. m \in TestEvent \cup CrashEvent /\ m.event = event /\ m.test = t
  BY <1>2 DEF TestEvent
<1>5. Started(status', t)
  <2>1. Fits(status, reported, p, job[p]) BY DEF JobsFit
  <2> QED BY <1>1, <1>2, <2>1 DEF Fits, Grows
<1>6. Tells(status', reported', m)
  BY <1>2, <1>4, <1>5 DEF Tells, Started
<1> HIDE DEF m, key
<1> QED BY <1>1, <1>3, <1>4, <1>6, SentTells

LEMMA TopicTellsStep ==
  ASSUME Calm, TypeOK, Grows, JobsFit, TopicTells, RequestsLeaveRows, [Next]_vars
  PROVE  TopicTells'
<1>1. ASSUME NEW t \in Tests, PublishStart(t) PROVE TopicTells'
  <2> DEFINE m == [event |-> "START_TEST", test |-> t]
  <2>1. Send(ContestantOf[t], m) /\ UNCHANGED status /\ request[t] = "inserted"
    BY <1>1, NothingFails DEF PublishStart, db
  <2>2. ContestantOf[t] \in Keys /\ m \in TestEvent BY ConstantsAssumption DEF Keys, TestEvent
  <2>3. Tells(status', reported', m) BY <2>1 DEF Tells, RequestsLeaveRows
  <2> HIDE DEF m
  <2> QED BY <2>1, <2>2, <2>3, SentTells
<1>2. CASE Api
  BY <1>1, <1>2, UntouchedTells DEF Api, CheckNoActiveTest, InsertTest
<1>3. ASSUME NEW c \in Contestants, ReportCrash(c) PROVE TopicTells'
  <2> DEFINE m == [event |-> "CONTAINER_CRASHED", contestant |-> c]
  <2>1. c \in Keys /\ m \in CrashEvent BY DEF Keys, CrashEvent
  <2>2. Send(c, m) /\ Tells(status', reported', m) BY <1>3 DEF ReportCrash, Tells
  <2> HIDE DEF m
  <2> QED BY <2>1, <2>2, SentTells
<1>4. ASSUME NEW p \in Procs, Handler(p) PROVE TopicTells'
  <2>1. Publish(p) \/ UNCHANGED topic
    BY <1>4 DEF Handler, AcquireLock, ReadStatus, CASStatus, Unlock, Seed, Arm, Drain,
                Mark, Finish
  <2> QED BY <2>1, PublishTells, UntouchedTells
<1>5. ASSUME NEW i \in Instances, Consume(i) \/ Timer(i) \/ Recover(i) PROVE TopicTells'
  <2>1. ASSUME NEW k \in Keys, ReceiveStart(i, k) \/ ReceiveStop(i, k) \/ ReceiveCrash(i, k)
        PROVE  TopicTells'
    BY <2>1, TakenTells DEF ReceiveStart, ReceiveStop, ReceiveCrash
  <2>2. CASE NextCrashed(i) \/ Timer(i) \/ Recover(i)
    BY <2>2, UntouchedTells
       DEF NextCrashed, Timer, FireTimer, Recover, FindOrphans, LockOrphan, Probe,
           ClaimRecovery, RegisterRecoveredTimer, ReleaseOrphan
  <2> QED BY <1>5, <2>1, <2>2 DEF Consume
<1>6. CASE \E i \in Instances, t \in Tests : Heartbeat(i, t)
  BY <1>6, UntouchedTells DEF Heartbeat
<1>7. CASE Time
  BY <1>7, UntouchedTells DEF Time, HeartbeatStale, RecoverLockExpires, LockExpires
<1>8. CASE UNCHANGED vars BY <1>8, UntouchedTells DEF vars
<1> QED BY <1>2, <1>3, <1>4, <1>5, <1>6, <1>7, <1>8, NothingFails DEF Next

\* What the maps and the timers name only shrinks, or a timer is set for a
\* test that has started.
LEMMA MapsShrink ==
  ASSUME TypeOK, Grows, MapsName,
         \A i \in Instances : active'[i] \subseteq active[i] /\ armed'[i] \subseteq armed[i]
  PROVE  MapsName'
<1>1. /\ active \in [Instances -> SUBSET Tests]
      /\ armed \in [Instances -> SUBSET (Tests \X TimerKinds)]
  BY DEF TypeOK
<1>2. ASSUME NEW i \in Instances, NEW x \in armed[i] PROVE Started(status', x[1])
  <2>1. x[1] \in Tests BY <1>1
  <2> QED BY <2>1 DEF MapsName, Grows
<1>3. ASSUME NEW i \in Instances, NEW t \in active[i] PROVE Started(status', t)
  BY <1>1 DEF MapsName, Grows
<1> QED BY <1>2, <1>3 DEF MapsName

LEMMA MapsSet ==
  ASSUME TypeOK, Grows, MapsName, NEW i \in Instances, NEW t \in Tests, NEW kind \in TimerKinds,
         setTimer(i, t, kind), Started(status, t)
  PROVE  MapsName'
<1>1. /\ active \in [Instances -> SUBSET Tests]
      /\ armed \in [Instances -> SUBSET (Tests \X TimerKinds)]
      /\ active' = [active EXCEPT ![i] = active[i] \cup {t}]
      /\ armed' = [armed EXCEPT ![i] = armed[i] \cup {<<t, kind>>}]
  BY DEF TypeOK, setTimer
<1>2. ASSUME NEW k \in Instances, NEW x \in armed'[k] PROVE Started(status', x[1])
  <2>1. x \in armed[k] \/ x = <<t, kind>> BY <1>1
  <2>2. x[1] \in Tests BY <1>1, <2>1
  <2>3. Started(status, x[1]) BY <2>1 DEF MapsName
  <2> QED BY <2>2, <2>3 DEF Grows
<1>3. ASSUME NEW k \in Instances, NEW u \in active'[k] PROVE Started(status', u)
  <2>1. u \in Tests /\ Started(status, u) BY <1>1 DEF MapsName
  <2> QED BY <2>1 DEF Grows
<1> QED BY <1>2, <1>3 DEF MapsName

LEMMA CancelShrinks ==
  ASSUME TypeOK, NEW i \in Instances, NEW t \in Tests, cancelTimer(i, t)
  PROVE  \A k \in Instances : armed'[k] \subseteq armed[k]
BY CancelDisarms DEF Disarmed

LEMMA MapsNameStep ==
  ASSUME Calm, TypeOK, Grows, JobsFit, MapsName, [Next]_vars PROVE MapsName'
<1>1. ASSUME UNCHANGED <<active, armed>> PROVE MapsName' BY <1>1, MapsShrink
<1>2. ASSUME NEW i \in Instances, NEW t \in Tests, cancelTimer(i, t), UNCHANGED active
      PROVE  MapsName'
  BY <1>2, CancelShrinks, MapsShrink
<1>3. CASE Api
  BY <1>1, <1>3 DEF Api, CheckNoActiveTest, InsertTest, PublishStart, memory
<1>4. CASE \E c \in Contestants : ReportCrash(c) BY <1>1, <1>4 DEF ReportCrash, memory
<1>5. ASSUME NEW p \in Procs, Handler(p) PROVE MapsName'
  <2>0. p[1] \in Instances BY ProcParts
  <2>1. CASE AcquireLock(p)
    BY <1>1, <2>1, NothingFails DEF AcquireLock, startRefused, memory
  <2>2. CASE Unlock(p)
    <3>1. job[p].test \in Tests BY <2>2, HandlerTest DEF Unlock
    <3> QED BY <1>1, <1>2, <2>0, <2>2, <3>1 DEF Unlock, BeginFail, memory
  <2>3. CASE Arm(p)
    <3>1. job[p].at = "arm" /\ setTimer(p[1], job[p].test, "start") BY <2>3 DEF Arm
    <3>2. job[p].test \in Tests /\ job[p].op = "start"
      BY <3>1, HandlerTest DEF StepsOf, Job, Ops
    <3>3. Started(status, job[p].test) BY <3>1, <3>2 DEF JobsFit, Fits
    <3> QED BY <2>0, <3>1, <3>2, <3>3, MapsSet DEF TimerKinds
  <2>4. CASE Finish(p)
    <3>1. \A k \in Instances : active'[k] \subseteq active[k] /\ armed'[k] = armed[k]
      BY <2>4 DEF Finish, TypeOK
    <3> QED BY <3>1, MapsShrink
  <2>5. CASE UNCHANGED memory BY <1>1, <2>5 DEF memory
  <2> QED BY <1>5, <2>1, <2>2, <2>3, <2>4, <2>5
          DEF Handler, ReadStatus, CASStatus, Seed, Publish, Drain, Mark
<1>6. ASSUME NEW i \in Instances, Consume(i) PROVE MapsName'
  <2>1. ASSUME NEW k \in Keys, ReceiveStop(i, k) PROVE MapsName'
    <3>1. Head(topic[k]).test \in Tests BY <2>1, TakeType DEF ReceiveStop
    <3> QED BY <1>2, <2>1, <3>1, LoopThreads DEF ReceiveStop, BeginStop
  <2>2. CASE NextCrashed(i)
    <3>1. PICK t \in job[<<i, "consumer">>].todo :
            BeginFail(<<i, "consumer">>, t, job[<<i, "consumer">>].todo \ {t})
      BY <2>2 DEF NextCrashed
    <3>2. t \in Tests BY <3>1, ThreadProc, JobType DEF Job
    <3> QED BY <1>2, <2>2, <3>1, <3>2, LoopThreads DEF NextCrashed, BeginFail
  <2> QED BY <1>1, <1>6, <2>1, <2>2 DEF Consume, ReceiveStart, ReceiveCrash, memory
<1>7. ASSUME NEW i \in Instances, Timer(i) PROVE MapsName'
  <2>1. \A k \in Instances : active'[k] = active[k] /\ armed'[k] \subseteq armed[k]
    BY <1>7 DEF Timer, FireTimer, TypeOK
  <2> QED BY <2>1, MapsShrink
<1>8. ASSUME NEW i \in Instances, Recover(i) PROVE MapsName'
  <2> DEFINE p == <<i, "recovery">>
  <2>0. p \in Procs /\ p[1] = i BY ThreadProc, LoopThreads
  <2>1. CASE Probe(i)
    <3>1. job[p].test \in Tests BY <2>0, <2>1, OrphanStarted DEF Probe
    <3>2. CASE UNCHANGED <<timers, armed>> BY <1>1, <2>1, <3>2 DEF Probe
    <3>3. CASE cancelTimer(i, job[p].test) BY <1>2, <2>1, <3>1, <3>3 DEF Probe
    <3> QED BY <2>0, <2>1, <3>2, <3>3 DEF Probe, BeginStop, BeginFail
  <2>2. CASE RegisterRecoveredTimer(i)
    <3>1. job[p].at = "register" /\ setTimer(i, job[p].test, "recovered")
      BY <2>2 DEF RegisterRecoveredTimer
    <3>2. job[p].test \in Tests /\ Started(status, job[p].test)
      BY <2>0, <3>1, OrphanStarted
    <3> QED BY <3>1, <3>2, MapsSet DEF TimerKinds
  <2> QED BY <1>1, <1>8, <2>1, <2>2
          DEF Recover, FindOrphans, LockOrphan, ClaimRecovery, ReleaseOrphan, memory
<1>9. CASE \E i \in Instances, t \in Tests : Heartbeat(i, t)
  BY <1>1, <1>9 DEF Heartbeat, memory
<1>10. CASE Time
  BY <1>1, <1>10 DEF Time, HeartbeatStale, RecoverLockExpires, LockExpires, memory
<1>11. CASE UNCHANGED vars BY <1>1, <1>11 DEF vars, memory
<1> QED BY <1>3, <1>4, <1>5, <1>6, <1>7, <1>8, <1>9, <1>10, <1>11, NothingFails DEF Next

LEMMA RequestsLeaveRowsStep ==
  ASSUME TypeOK, Grows, RequestsLeaveRows, [Next]_vars PROVE RequestsLeaveRows'
<1>1. CASE UNCHANGED request BY <1>1 DEF RequestsLeaveRows, Grows
<1>2. CASE Api
  <2>1. PICK t \in Tests : CheckNoActiveTest(t) \/ InsertTest(t) \/ PublishStart(t)
    BY <1>2 DEF Api
  <2> QED BY <2>1 DEF RequestsLeaveRows, Grows, TypeOK, CheckNoActiveTest, InsertTest,
                      PublishStart, db
<1> QED BY <1>1, <1>2, RequestStep

-----------------------------------------------------------------------------
(* One run per contestant *)

\* A step of the environment or of the clock that leaves goroutines, timers
\* and locks alone.
LEMMA StillKeeps ==
  ASSUME TypeOK, Grows, JobsFit, Claims, Driven, UNCHANGED <<job, armed, lock>>,
         \A t \in Tests : status'[t] \in InProgress => status'[t] = status[t]
  PROVE  JobsFit' /\ Claims' /\ Driven'
<1>1. JobsFit' BY FitsGrows DEF JobsFit
<1>2. \A p \in Procs, t \in Tests : Finishing(p, t)' <=> Finishing(p, t) BY DEF Finishing
<1>3. \A p \in Procs : Holds(job[p])' <=> Holds(job[p]) BY DEF Holds
<1>4. Claims'
  <2>1. ASSUME NEW p \in Procs, Holds(job[p])'
        PROVE  /\ lock'[ContestantOf[job'[p].test]] = job'[p].test
               /\ status'[job'[p].test] \notin InProgress
               /\ \A q \in Procs : ~Finishing(q, job[p].test)'
    <3>1. Holds(job[p]) /\ job[p].test \in Tests BY <1>3, <2>1, HolderTests
    <3>2. \A q \in Procs : Finishing(q, job[p].test)' => Finishing(q, job[p].test)
      BY DEF Finishing
    <3> QED BY <3>1, <3>2 DEF Claims
  <2> QED BY <1>2, <1>3, <2>1 DEF Claims
<1>5. Driven' BY DEF Driven, RunDriven
<1> QED BY <1>1, <1>4, <1>5

\* The lock does not run out on a test that is being started, in progress or
\* cleaned up.
LEMMA LockExpiresKeeps ==
  ASSUME Calm, TypeOK, Grows, JobsFit, Claims, Driven, NEW c \in Contestants, LockExpires(c)
  PROVE  JobsFit' /\ Claims' /\ Driven'
<1>0. /\ UNCHANGED <<job, armed, status>> /\ lock' = [lock EXCEPT ![c] = NoTest]
      /\ ~OnSchedule(lock[c])
  BY NothingFails DEF LockExpires, memory, db
<1>1. JobsFit' BY <1>0, FitsGrows DEF JobsFit
<1>2. Driven' BY <1>0 DEF Driven, RunDriven
<1>3. \A p \in Procs, t \in Tests : Finishing(p, t)' <=> Finishing(p, t)
  BY <1>0 DEF Finishing
<1>4. \A p \in Procs : Holds(job[p])' <=> Holds(job[p]) BY <1>0 DEF Holds
\* Whoever starts, runs or cleans up t is on schedule, so t's lock stays.
<1>5. ASSUME NEW t \in Tests, OnSchedule(t), lock[ContestantOf[t]] = t
      PROVE  lock'[ContestantOf[t]] = t
  BY <1>0, <1>5, ConstantsAssumption DEF TypeOK
<1>6. \A p \in Procs : Holds(job[p]) => OnSchedule(job[p].test)
  BY DEF Holds, OnSchedule
<1>7. \A p \in Procs, t \in Tests : Finishing(p, t) => OnSchedule(t)
  BY DEF Finishing, OnSchedule
<1>8. ASSUME NEW t \in Tests, status[t] \in InProgress PROVE OnSchedule(t)
  <2>1. \A p \in Procs : DrivesRun(job[p], t) \/ DrivesStop(job[p], t) => OnSchedule(t)
    BY DEF DrivesRun, DrivesStop, OnSchedule
  <2>2. RunDriven(t) => OnSchedule(t) BY <2>1 DEF RunDriven, OnSchedule
  <2> QED BY <1>8, <2>1, <2>2 DEF Driven
<1>9. Claims'
  <2>1. ASSUME NEW p \in Procs, Holds(job[p])'
        PROVE  /\ lock'[ContestantOf[job'[p].test]] = job'[p].test
               /\ status'[job'[p].test] \notin InProgress
               /\ \A q \in Procs : ~Finishing(q, job[p].test)'
    <3>1. Holds(job[p]) /\ job[p].test \in Tests BY <1>4, <2>1, HolderTests
    <3>2. \A q \in Procs : Finishing(q, job[p].test)' => Finishing(q, job[p].test)
      BY <1>0 DEF Finishing
    <3>3. lock'[ContestantOf[job[p].test]] = job[p].test BY <1>5, <1>6, <3>1 DEF Claims
    <3> QED BY <1>0, <3>1, <3>2, <3>3 DEF Claims
  <2>2. \A t \in Tests : status'[t] \in InProgress => lock'[ContestantOf[t]] = t
    BY <1>0, <1>5, <1>8 DEF Claims
  <2>3. \A q \in Procs, t \in Tests : Finishing(q, t)' => lock'[ContestantOf[t]] = t
    BY <1>3, <1>5, <1>7 DEF Claims
  <2> QED BY <1>0, <1>4, <2>1, <2>2, <2>3 DEF Claims
<1> QED BY <1>1, <1>2, <1>9

CalmInv ==
  /\ JobsFit /\ TopicTells /\ MapsName /\ RequestsLeaveRows
  /\ Claims /\ Driven

LEMMA CalmInvStep ==
  ASSUME Calm, TypeOK, NoRowYet, FinishersAreTerminal, SingleFinisher, CalmInv, [Next]_vars
  PROVE  CalmInv'
<1>0. Grows BY Growth
<1>1. ASSUME NEW p \in Procs, CalmStep(p) PROVE JobsFit' /\ Claims' /\ Driven'
  BY <1>0, <1>1, JobsFitStep, ClaimsStep, DrivenStep DEF CalmInv
<1>2. ASSUME UNCHANGED <<job, armed, lock, status>> PROVE JobsFit' /\ Claims' /\ Driven'
  BY <1>0, <1>2, StillKeeps DEF CalmInv
<1>3. CASE Api
  <2>1. UNCHANGED <<job, armed, lock>>
    BY <1>3 DEF Api, CheckNoActiveTest, InsertTest, PublishStart, redis, memory
  <2>2. \A t \in Tests : status'[t] \in InProgress => status'[t] = status[t]
    BY <1>3 DEF Api, CheckNoActiveTest, InsertTest, PublishStart, db, TypeOK
  <2> QED BY <1>0, <2>1, <2>2, StillKeeps, TopicTellsStep, MapsNameStep,
             RequestsLeaveRowsStep DEF CalmInv
<1>4. JobsFit' /\ Claims' /\ Driven'
  <2>1. CASE \E c \in Contestants : ReportCrash(c)
    BY <1>2, <2>1 DEF ReportCrash, db, redis, memory
  <2>2. CASE \E p \in Procs : Handler(p)
    BY <1>0, <1>1, <2>2, HandlerCalm DEF CalmInv
  <2>3. CASE \E i \in Instances : Consume(i) \/ Timer(i) \/ Recover(i)
    BY <1>0, <1>1, <2>3, InstanceCalm DEF CalmInv
  <2>4. CASE \E i \in Instances, t \in Tests : Heartbeat(i, t)
    BY <1>2, <2>4 DEF Heartbeat, redis, memory
  <2>5. CASE \E t \in Tests : HeartbeatStale(t) \/ RecoverLockExpires(t)
    BY <1>2, <2>5 DEF HeartbeatStale, RecoverLockExpires, db, redis, memory
  <2>6. CASE \E c \in Contestants : LockExpires(c)
    BY <1>0, <2>6, LockExpiresKeeps DEF CalmInv
  <2>7. CASE UNCHANGED vars BY <1>2, <2>7 DEF vars, db, redis, memory
  <2>8. CASE Api BY <1>3, <2>8 DEF CalmInv
  <2> QED BY <2>1, <2>2, <2>3, <2>4, <2>5, <2>6, <2>7, <2>8, NothingFails DEF Next, Time
<1> QED BY <1>0, <1>4, TopicTellsStep, MapsNameStep, RequestsLeaveRowsStep DEF CalmInv

LEMMA CalmInvInit == Init => CalmInv
<1> SUFFICES ASSUME Init PROVE CalmInv
  OBVIOUS
<1>1. \A p \in Procs : /\ job[p].op = "none" /\ job[p].at = "idle" /\ job[p].todo = {}
  BY DEF Init, NoJob
<1>2. JobsFit BY <1>1 DEF JobsFit, Fits
<1>3. TopicTells /\ MapsName /\ RequestsLeaveRows
  BY DEF Init, TopicTells, MapsName, RequestsLeaveRows
<1>4. Claims BY <1>1 DEF Claims, Holds, Finishing, Init
<1>5. Driven BY DEF Driven, Init
<1> QED BY <1>2, <1>3, <1>4, <1>5 DEF CalmInv

LEMMA CalmInvHolds ==
  ASSUME Calm
  PROVE  Spec => [](TypeOK /\ NoRowYet /\ FinishersAreTerminal /\ SingleFinisher /\ CalmInv)
<1>1. Init => NoRowYet /\ FinishersAreTerminal /\ SingleFinisher
  BY DEF Init, NoRowYet, FinishersAreTerminal, SingleFinisher, Finishing, NoJob
<1>2. TypeOK /\ NoRowYet /\ FinishersAreTerminal /\ SingleFinisher /\ CalmInv /\ [Next]_vars
      => CalmInv'
  BY CalmInvStep
<1>3. QED BY <1>1, <1>2, CalmInvInit, TypeCorrect, NoRowYetStep, FinishersStep, PTL DEF Spec

\* As long as nothing crashes and no call fails, lock:test:<contestant> does
\* what it is for: the contestant never has two tests in progress, although
\* both a second POST and the START_TEST that comes back may start a test, the
\* lock has a TTL, and releaseLock deletes it without asking whose it is.
THEOREM OneRunPerContestantHolds ==
  ASSUME MaxCrashes = 0, MaxFaults = 0 PROVE Spec => []OneRunPerContestant
<1>1. CalmInv => OneRunPerContestant BY DEF CalmInv, Claims, OneRunPerContestant
<1>2. Calm BY DEF Calm
<1>3. QED BY <1>1, <1>2, CalmInvHolds, PTL

\* As long as nothing crashes and no call fails, a START_TEST that comes twice
\* or late never fails the run it finds.
THEOREM StartNeverFailsARunHolds ==
  ASSUME MaxCrashes = 0, MaxFaults = 0 PROVE Spec => StartNeverFailsARun
<1>1. Calm BY DEF Calm
<1>2. ASSUME TypeOK, JobsFit, [Next]_vars, NEW t \in Tests,
             status[t] \in InProgress, status'[t] = "failed"
      PROVE  \/ ContestantOf[t] \in reported
             \/ \E i \in Instances : /\ job[<<i, "recovery">>].op = "fail"
                                    /\ job[<<i, "recovery">>].test = t
  <2>1. ASSUME NEW u \in Tests, InsertTest(u) PROVE FALSE
    BY <1>2, <2>1 DEF InsertTest, TypeOK
  <2>2. PICK p \in Procs : job[p].at = "cas" /\ SetStatus(p) BY <1>2, <2>1, StatusStep
  <2>3. /\ status' = [status EXCEPT ![job[p].test] = Target[job[p].op]]
        /\ job[p].op \in {"start", "stop", "complete", "fail"}
    BY <1>2, <2>2, CASFromRow
  <2>4. t = job[p].test /\ job[p].op = "fail" BY <1>2, <2>3 DEF TypeOK, Target
  <2>5. Fits(status, reported, p, job[p]) BY <1>2 DEF JobsFit
  <2>6. CASE p[2] = "consumer" BY <1>2, <2>4, <2>5, <2>6 DEF Fits
  <2>7. CASE p[2] = "recovery" BY <2>4, <2>7, ProcParts
  <2>8. CASE p[2] \in Tests BY <2>4, <2>5, <2>8 DEF Fits
  <2> QED BY <2>6, <2>7, <2>8, ProcParts DEF Threads
<1>3. TypeOK /\ CalmInv /\ [Next]_vars =>
        [\A t \in Tests :
           status[t] \in InProgress /\ status'[t] = "failed"
           => \/ ContestantOf[t] \in reported
              \/ \E i \in Instances : /\ job[<<i, "recovery">>].op = "fail"
                                     /\ job[<<i, "recovery">>].test = t]_vars
  BY <1>2 DEF CalmInv
<1>4. QED BY <1>1, <1>3, CalmInvHolds, PTL DEF Spec, StartNeverFailsARun
=============================================================================
