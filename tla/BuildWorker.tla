------------------------------ MODULE BuildWorker ------------------------------
(***************************************************************************)
(* One build-worker process: the consumer of build jobs and the goroutine  *)
(* it starts for each, the container manager's health monitor and cleanup  *)
(* job, the graceful shutdown, crash and restart.  Around it: the offsets  *)
(* of its consumer group, the submissions' rows, and the Docker daemon,    *)
(* which keeps its containers whatever happens to the process.             *)
(*                                                                         *)
(* Job j is the j-th message of the build-jobs topic and asks for the      *)
(* build of one submission.  A container is <<j, g>>, the g-th that was    *)
(* created for submission j; its name is the submission's, so there is one *)
(* at a time.  Left out: images, the Redis copy of a container's state,    *)
(* jobs that are not JSON, which the submission API does not send, and     *)
(* CONTAINER_READY, which the orchestrator ignores unless told to act.     *)
(***************************************************************************)
EXTENDS Naturals, FiniteSets

CONSTANTS
  NumJobs,             \* messages in the build-jobs topic
  MaxConcurrentBuild,  \* Config.MaxConcurrentBuild
  MaxMishaps           \* bound: crashes, SIGTERMs and failed calls, all together

ASSUME BuildWorkerAssumption ==
  NumJobs \in Nat /\ MaxConcurrentBuild \in Nat \ {0} /\ MaxMishaps \in Nat

Jobs == 1 .. NumJobs

VARIABLES
  committed,  \* the group's committed offset: the job a new reader starts at
  next,       \* the reader's position
  pc,         \* where ProcessBuild is with a job that was fetched
  status,     \* submissions.status
  known,      \* submissions.container_id (0: NULL)
  box,        \* the submission's container: none, up, or dead (exited, not removed)
  gen,        \* how many containers were created for the submission
  active,     \* ContainerManager.active (0: not in the map)
  watch,      \* checkAll: what is left of its snapshot
  sweep,      \* cleanupOrphans: its list, and how far it got
  drain,      \* StopAll: what is left of its snapshot
  life,       \* up, shutting (context cancelled), draining (in StopAll), down
  crashes, shutdowns, faults   \* how often that happened

offsets == <<committed, next>>
rows    == <<status, known>>
docker  == <<box, gen>>
jobs    == <<watch, sweep, drain>>   \* the background jobs
bounds  == <<crashes, shutdowns, faults>>
vars    == <<offsets, pc, rows, docker, active, jobs, life, bounds>>

Final == {"ready", "failed", "stopped"}
Idle  == [phase |-> "idle", ids |-> {}]

Init ==
  /\ committed = 1 /\ next = 1
  /\ pc = [j \in Jobs |-> "none"]
  /\ status = [j \in Jobs |-> "pending"] /\ known = [j \in Jobs |-> 0]
  /\ box = [j \in Jobs |-> "none"] /\ gen = [j \in Jobs |-> 0]
  /\ active = [j \in Jobs |-> 0]
  /\ watch = {} /\ sweep = Idle /\ drain = {}
  /\ life = "up"
  /\ crashes = 0 /\ shutdowns = 0 /\ faults = 0

MayFail   == crashes + shutdowns + faults < MaxMishaps
Alive     == life # "down"
Cancelled == life \in {"shutting", "draining"}

\* What becomes of a call made without, and one made with, the context of
\* run: it works or fails, and it fails once the context is cancelled.
Plainly    == {TRUE} \cup (IF MayFail THEN {FALSE} ELSE {})
UnderRun   == IF Cancelled THEN {FALSE} ELSE Plainly
Faulted(n) == faults' = faults + n
Charge(ok) == Faulted(IF ok \/ Cancelled THEN 0 ELSE 1)

IsUp(id) == box[id[1]] = "up" /\ gen[id[1]] = id[2]

-----------------------------------------------------------------------------
(* Consumer.Run, and ProcessBuild in a goroutine for each job. *)

Goto(j, p) == pc' = [pc EXCEPT ![j] = p]
At(j, p)   == Alive /\ pc[j] = p

\* The goroutines that hold a place of sem.
Building == {j \in Jobs : pc[j] \notin {"none", "fetched"}}

\* FetchMessage.  The reader has one message in hand at most.
Fetch(j) ==
  /\ life = "up" /\ j = next
  /\ \A k \in Jobs : pc[k] # "fetched"
  /\ next' = next + 1
  /\ Goto(j, "fetched")
  /\ UNCHANGED <<committed, rows, docker, active, jobs, life, bounds>>

\* c.sem <- struct{}{}, go func.
Begin(j) ==
  /\ At(j, "fetched")
  /\ Cardinality(Building) < MaxConcurrentBuild
  /\ Goto(j, "start")
  /\ UNCHANGED <<offsets, rows, docker, active, jobs, life, bounds>>

\* setStatus: the error of a write is logged and forgotten.
setStatus(j, s, ok) ==
  /\ ok \in UnderRun /\ Charge(ok)
  /\ status' = IF ok THEN [status EXCEPT ![j] = s] ELSE status

SetBuilding(j) ==
  /\ At(j, "start")
  /\ \E ok \in BOOLEAN : setStatus(j, "building", ok)
  /\ Goto(j, "download")
  /\ UNCHANGED <<offsets, known, docker, active, jobs, life, crashes, shutdowns>>

\* The contestant's code may fail any of the next steps, and a cancelled
\* context fails them all.
Attempt(j, p, then) ==
  /\ At(j, p)
  /\ \/ Goto(j, "fail")
     \/ ~Cancelled /\ Goto(j, then)
  /\ UNCHANGED <<offsets, rows, docker, active, jobs, life, bounds>>

\* downloadAndExtract, with its guards.
Download(j) == Attempt(j, "download", "build")

\* buildContainer and the scan of the image.
BuildImage(j) == Attempt(j, "build", "launch")

\* launchSandbox.  ContainerCreate fails when the name is taken, and may fail
\* otherwise.  A container that did not start, or whose inspection failed,
\* stays behind.
Launch(j) ==
  /\ At(j, "launch")
  /\ \/ Goto(j, "fail") /\ UNCHANGED docker
     \/ /\ ~Cancelled /\ box[j] = "none"
        /\ gen' = [gen EXCEPT ![j] = @ + 1]
        /\ \/ box' = [box EXCEPT ![j] = "up"] /\ \E p \in {"probe", "fail"} : Goto(j, p)
           \/ box' = [box EXCEPT ![j] = "dead"] /\ Goto(j, "fail")
  /\ UNCHANGED <<offsets, rows, active, jobs, life, bounds>>

\* StopContainer when its calls to Docker work (gone) and its update works
\* (told).  It forgets the container either way, and knows only those in the map.
StopContainer(j, gone, told) ==
  /\ box' = IF gone /\ active[j] = gen[j] THEN [box EXCEPT ![j] = "none"] ELSE box
  /\ status' = IF told THEN [status EXCEPT ![j] = "stopped"] ELSE status
  /\ active' = [active EXCEPT ![j] = 0]

\* waitHealthy.  The request does not carry the context: the first one is
\* sent, and may be answered, after it was cancelled.
Healthy(j) ==
  /\ At(j, "probe") /\ box[j] = "up"
  /\ Goto(j, "info")
  /\ UNCHANGED <<offsets, rows, docker, active, jobs, life, bounds>>

Unhealthy(j) ==
  /\ At(j, "probe")
  /\ IF active[j] = 0
       THEN UNCHANGED <<box, status, active, faults>>
       ELSE \E gone, told \in UnderRun : Charge(gone /\ told) /\ StopContainer(j, gone, told)
  /\ Goto(j, "fail")
  /\ UNCHANGED <<offsets, known, gen, jobs, life, crashes, shutdowns>>

setContainerInfo(j) ==
  /\ At(j, "info")
  /\ \E ok \in UnderRun :
       /\ Charge(ok)
       /\ known' = IF ok THEN [known EXCEPT ![j] = gen[j]] ELSE known
  /\ Goto(j, "ready")
  /\ UNCHANGED <<offsets, status, docker, active, jobs, life, crashes, shutdowns>>

SetReady(j) ==
  /\ At(j, "ready")
  /\ \E ok \in BOOLEAN : setStatus(j, "ready", ok)
  /\ Goto(j, "track")
  /\ UNCHANGED <<offsets, known, docker, active, jobs, life, crashes, shutdowns>>

Track(j) ==
  /\ At(j, "track")
  /\ active' = [active EXCEPT ![j] = gen[j]]
  /\ Goto(j, "commit")
  /\ UNCHANGED <<offsets, rows, docker, jobs, life, bounds>>

\* Mutated form of fail: the reason is logged and the row is not written.
failSilently(j) ==
  /\ At(j, "fail")
  /\ Goto(j, "commit")
  /\ UNCHANGED <<offsets, rows, docker, active, jobs, life, bounds>>

fail(j) ==
  /\ At(j, "fail")
  /\ \E ok \in BOOLEAN : setStatus(j, "failed", ok)
  /\ Goto(j, "commit")
  /\ UNCHANGED <<offsets, known, docker, active, jobs, life, crashes, shutdowns>>

\* CommitMessages with a context of its own.  The library sends what it is
\* given, so the committed offset may also go back.
Commit(j) ==
  /\ At(j, "commit")
  /\ \E ok \in Plainly :
       /\ Faulted(IF ok THEN 0 ELSE 1)
       /\ committed' = IF ok THEN j + 1 ELSE committed
  /\ Goto(j, "none")
  /\ UNCHANGED <<next, rows, docker, active, jobs, life, crashes, shutdowns>>

ProcessBuild(j) ==
  \/ Begin(j) \/ SetBuilding(j) \/ Download(j) \/ BuildImage(j) \/ Launch(j)
  \/ Healthy(j) \/ Unhealthy(j) \/ setContainerInfo(j) \/ SetReady(j) \/ Track(j)
  \/ fail(j) \/ Commit(j)

-----------------------------------------------------------------------------
(* MonitorHealth. *)

Tracked == {j \in Jobs : active[j] # 0}

\* The tick of checkAll takes a snapshot of the map.
MonitorTick ==
  /\ life = "up" /\ watch = {} /\ Tracked # {}
  /\ watch' = {<<j, active[j]>> : j \in Tracked}
  /\ UNCHANGED <<offsets, pc, rows, docker, active, sweep, drain, life, bounds>>

\* Mutated form of markDead: only the map is updated.
markForgotten(j, told) ==
  /\ status' = status
  /\ active' = [active EXCEPT ![j] = 0]

\* The row fails and the map forgets the submission, whichever container of
\* it the map holds by now.
markDead(j, told) ==
  /\ status' = IF told THEN [status EXCEPT ![j] = "failed"] ELSE status
  /\ active' = [active EXCEPT ![j] = 0]

\* A container that cannot be inspected is taken for dead; the failure that
\* keeps it from being inspected may hit the update too.
MonitorCheck(id) ==
  /\ Alive /\ id \in watch
  /\ watch' = watch \ {id}
  /\ \/ IsUp(id) /\ ~Cancelled /\ UNCHANGED <<status, active, faults>>
     \/ ~IsUp(id) /\ \E told \in UnderRun : Charge(told) /\ markDead(id[1], told)
     \/ /\ IsUp(id) /\ FALSE \in UnderRun /\ Charge(FALSE)
        /\ \E told \in BOOLEAN : (told => ~Cancelled) /\ markDead(id[1], told)
  /\ UNCHANGED <<offsets, pc, known, docker, sweep, drain, life, crashes, shutdowns>>

-----------------------------------------------------------------------------
(* RunCleanup: three looks, one after the other, then the removals. *)

Pass(phase, ids) == [phase |-> IF ids = {} THEN "idle" ELSE phase, ids |-> ids]

\* Mutated form of Listed: without All, only what runs.
ListedRunning == {<<j, gen[j]>> : j \in {k \in Jobs : box[k] = "up"}}

\* ContainerList with All: every container, also those that do not run.
Listed == {<<j, gen[j]>> : j \in {k \in Jobs : box[k] # "none"}}

SweepList ==
  /\ life = "up" /\ sweep.phase = "idle" /\ Listed # {}
  /\ sweep' = Pass("listed", Listed)
  /\ UNCHANGED <<offsets, pc, rows, docker, active, watch, drain, life, bounds>>

SweepTracked ==
  /\ Alive /\ sweep.phase = "listed"
  /\ sweep' = Pass("tracked", {id \in sweep.ids : active[id[1]] # id[2]})
  /\ UNCHANGED <<offsets, pc, rows, docker, active, watch, drain, life, bounds>>

\* When the query fails no row spares a container.
SweepReady ==
  /\ Alive /\ sweep.phase = "tracked"
  /\ \E ok \in UnderRun :
       /\ Charge(ok)
       /\ sweep' = Pass("remove", {id \in sweep.ids :
                     ~(ok /\ status[id[1]] = "ready" /\ known[id[1]] = id[2])})
  /\ UNCHANGED <<offsets, pc, rows, docker, active, watch, drain, life, crashes, shutdowns>>

SweepRemove(id) ==
  /\ Alive /\ sweep.phase = "remove" /\ id \in sweep.ids
  /\ sweep' = Pass("remove", sweep.ids \ {id})
  /\ \E ok \in UnderRun :
       /\ Charge(ok)
       /\ box' = IF ok /\ gen[id[1]] = id[2] THEN [box EXCEPT ![id[1]] = "none"] ELSE box
  /\ UNCHANGED <<offsets, pc, rows, gen, active, watch, drain, life, crashes, shutdowns>>

-----------------------------------------------------------------------------
(* The end and the start of the process, and of a container. *)

\* The contestant's program exits; its restart policy is "no".
ContainerDies(j) ==
  /\ box[j] = "up"
  /\ box' = [box EXCEPT ![j] = "dead"]
  /\ UNCHANGED <<offsets, pc, rows, gen, active, jobs, life, bounds>>

\* SIGTERM cancels the context; builds and background jobs go on under it.
Shutdown ==
  /\ life = "up" /\ MayFail
  /\ life' = "shutting" /\ shutdowns' = shutdowns + 1
  /\ UNCHANGED <<offsets, pc, rows, docker, active, jobs, crashes, faults>>

StopAll ==
  /\ life = "shutting"
  /\ life' = "draining" /\ drain' = Tracked
  /\ UNCHANGED <<offsets, pc, rows, docker, active, watch, sweep, bounds>>

\* StopAll has 30 seconds: they may run out before or after the removal,
\* and the removal may fail and the update work.
DrainOne(j) ==
  /\ life = "draining" /\ j \in drain
  /\ drain' = drain \ {j}
  /\ IF active[j] = 0
       THEN UNCHANGED <<box, status, active>>
       ELSE \E gone, told \in BOOLEAN : StopContainer(j, gone, told)
  /\ UNCHANGED <<offsets, pc, known, gen, watch, sweep, life, bounds>>

\* Mutated form of Gone: a new reader starts where the old one read to.
GoneAfterRead ==
  /\ life' = "down"
  /\ committed' = next /\ next' = next /\ pc' = [j \in Jobs |-> "none"]
  /\ active' = [j \in Jobs |-> 0]
  /\ watch' = {} /\ sweep' = Idle /\ drain' = {}
  /\ UNCHANGED <<rows, docker, faults>>

\* What a process leaves behind: rows, containers and the committed offset.
Gone ==
  /\ life' = "down"
  /\ next' = committed /\ pc' = [j \in Jobs |-> "none"]
  /\ active' = [j \in Jobs |-> 0]
  /\ watch' = {} /\ sweep' = Idle /\ drain' = {}
  /\ UNCHANGED <<committed, rows, docker, faults>>

\* run returns and waits for no build.
Exit ==
  /\ life = "draining" /\ drain = {}
  /\ Gone
  /\ UNCHANGED <<crashes, shutdowns>>

Crash ==
  /\ Alive /\ MayFail
  /\ crashes' = crashes + 1
  /\ Gone
  /\ UNCHANGED shutdowns

\* Mutated form of RecoverActive: what the process did not launch it does
\* not know.
RecoverNothing == {}

\* RecoverActive comes before everything else in run.
RecoverActive ==
  {j \in Jobs : status[j] = "ready" /\ known[j] # 0 /\ IsUp(<<j, known[j]>>)}

Start ==
  /\ life = "down"
  /\ life' = "up"
  /\ \E ok \in Plainly :
       /\ Faulted(IF ok THEN 0 ELSE 1)
       /\ active' = [j \in Jobs |-> IF ok /\ j \in RecoverActive THEN known[j] ELSE 0]
  /\ UNCHANGED <<offsets, pc, rows, docker, jobs, crashes, shutdowns>>

Monitor == MonitorTick \/ \E id \in watch : MonitorCheck(id)
Sweep   == SweepList \/ SweepTracked \/ SweepReady \/ \E id \in sweep.ids : SweepRemove(id)
Drain   == StopAll \/ (\E j \in drain : DrainOne(j)) \/ Exit

Next ==
  \/ \E j \in Jobs : Fetch(j) \/ ProcessBuild(j) \/ ContainerDies(j)
  \/ Monitor \/ Sweep \/ Drain
  \/ Shutdown \/ Crash \/ Start

Spec == Init /\ [][Next]_vars

\* Goroutines, tickers and the pod's restart go on; containers need not die
\* and nobody need stop the process.
FairSpec ==
  /\ Spec
  /\ WF_vars(\E j \in Jobs : Fetch(j)) /\ \A j \in Jobs : WF_vars(ProcessBuild(j))
  /\ WF_vars(Monitor) /\ WF_vars(Sweep) /\ WF_vars(Drain) /\ WF_vars(Start)

-----------------------------------------------------------------------------
Ids == {<<j, g>> : j \in Jobs, g \in Nat}

TypeOK ==
  /\ committed \in 1 .. NumJobs + 1 /\ next \in 1 .. NumJobs + 1
  /\ pc \in [Jobs -> {"none", "fetched", "start", "download", "build", "launch", "probe",
                      "info", "ready", "track", "fail", "commit"}]
  /\ status \in [Jobs -> {"pending", "building"} \cup Final]
  /\ known \in [Jobs -> Nat] /\ gen \in [Jobs -> Nat] /\ active \in [Jobs -> Nat]
  /\ box \in [Jobs -> {"none", "up", "dead"}]
  /\ \A id \in watch \cup sweep.ids : id[1] \in Jobs /\ id[2] \in Nat
  /\ sweep.phase \in {"idle", "listed", "tracked", "remove"}
  /\ drain \subseteq Jobs
  /\ life \in {"up", "shutting", "draining", "down"}
  /\ crashes \in Nat /\ shutdowns \in Nat /\ faults \in Nat
  /\ crashes + shutdowns + faults <= MaxMishaps

\* While no call fails, a process that is up watches every container that
\* runs under a ready row, also after a crash or a shutdown at any point:
\* only then does a contestant's dead engine show (checkAll), and only then
\* is a live one safe from cleanupOrphans.
ReadyIsWatched ==
  life = "up" /\ faults = 0 =>
    \A j \in Jobs : status[j] = "ready" /\ box[j] = "up" =>
      active[j] = gen[j] \/ pc[j] = "track"

\* "Offsets are committed only after ProcessBuild returns (at-least-once
\* delivery)", consumer.go:39: a job the reader is past, before or after a
\* crash, and no build has in hand, has its result in the row.  A shutdown
\* that cancels a build is left out: its result is not written either.
NoJobIsLost ==
  shutdowns + faults = 0 =>
    \A j \in Jobs : j < next /\ pc[j] = "none" => status[j] \in Final

\* Every job that was published gets a result that stays one (the row may
\* still go from ready to failed), unless the process was shut down or a call
\* failed.  With one build at a time that includes a crash; with more, see
\* NoJobIsLost.
EveryJobEnds == \A j \in Jobs : <>[](status[j] \in Final \/ shutdowns + faults > 0)

\* A ready row whose container is gone or dead does not stay ready, unless
\* the process was stopped or a call failed: checkAll finds it, whatever
\* cleanupOrphans and a build that is about to end do meanwhile.
DeadIsNoticed ==
  \A j \in Jobs : status[j] = "ready" /\ box[j] # "up"
                  ~> status[j] # "ready" \/ crashes + shutdowns + faults > 0

\* A container that nothing claims, no row, map or build, does not stay, not
\* even over crashes, shutdowns and failed calls: cleanupOrphans is the only
\* one to remove what a failed or interrupted build left behind.
Orphan(j) ==
  /\ box[j] # "none" /\ pc[j] = "none" /\ active[j] # gen[j]
  /\ ~(status[j] = "ready" /\ known[j] = gen[j])

OrphansGo == \A j \in Jobs : Orphan(j) ~> ~Orphan(j)
=============================================================================
