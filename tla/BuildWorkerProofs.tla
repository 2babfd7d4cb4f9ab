--------------------------- MODULE BuildWorkerProofs ---------------------------
(***************************************************************************)
(* Proofs about the build worker, for any number of jobs, of builds at a   *)
(* time and of mishaps: its types; that a running process tracks what runs *)
(* under a ready row; and, with one build at a time, that no job is lost.  *)
(***************************************************************************)
EXTENDS BuildWorker, FiniteSetTheorems, TLAPS

PCs == {"none", "fetched", "start", "download", "build", "launch", "probe",
        "info", "ready", "track", "fail", "commit"}

\* The type of what ProcessBuild, the background jobs and the end of the
\* process change, in the three parts their proofs need apart.
TypeJobs ==
  /\ committed \in 1 .. NumJobs + 1 /\ next \in 1 .. NumJobs + 1
  /\ pc \in [Jobs -> PCs]

TypeData ==
  /\ status \in [Jobs -> {"pending", "building"} \cup Final]
  /\ known \in [Jobs -> Nat] /\ gen \in [Jobs -> Nat] /\ active \in [Jobs -> Nat]
  /\ box \in [Jobs -> {"none", "up", "dead"}]

TypeProcess ==
  /\ \A id \in watch \cup sweep.ids : id[1] \in Jobs /\ id[2] \in Nat
  /\ sweep.phase \in {"idle", "listed", "tracked", "remove"}
  /\ drain \subseteq Jobs
  /\ life \in {"up", "shutting", "draining", "down"}

TypeBounds ==
  /\ crashes \in Nat /\ shutdowns \in Nat /\ faults \in Nat
  /\ crashes + shutdowns + faults <= MaxMishaps

LEMMA TypeParts == TypeOK <=> TypeJobs /\ TypeData /\ TypeProcess /\ TypeBounds
BY DEF TypeOK, TypeJobs, TypeData, TypeProcess, TypeBounds, PCs

\* A call that is charged for leaves the mishaps within their bound.
\* Two calls of which one may have failed are like one that may have.
LEMMA BothUnderRun ==
  ASSUME NEW gone \in UnderRun, NEW told \in UnderRun
  PROVE  (gone /\ told) \in UnderRun
<1>1. gone \in BOOLEAN /\ told \in BOOLEAN  BY DEF UnderRun, Plainly
<1>2. CASE gone = FALSE
  <2>1. (gone /\ told) = gone  BY <1>1, <1>2, Zenon
  <2> QED BY <2>1
<1>3. CASE gone = TRUE
  <2>1. (gone /\ told) = told  BY <1>1, <1>3, Zenon
  <2> QED BY <2>1
<1> QED BY <1>1, <1>2, <1>3, Zenon

LEMMA ChargeBounds ==
  ASSUME TypeBounds, NEW ok \in UnderRun, Charge(ok), UNCHANGED <<crashes, shutdowns>>
  PROVE  TypeBounds'
<1>0. MaxMishaps \in Nat BY BuildWorkerAssumption DEF BuildWorkerAssumption
<1>1. CASE ok \/ Cancelled
  <2>1. faults' = faults + 0 BY <1>1 DEF Charge, Faulted
  <2> QED BY <1>0, <2>1 DEF TypeBounds
<1>2. CASE ~ok /\ ~Cancelled
  <2>1. faults' = faults + 1 BY <1>2 DEF Charge, Faulted
  <2>2. MayFail BY <1>2 DEF UnderRun, Plainly
  <2> QED BY <1>0, <2>1, <2>2 DEF TypeBounds, MayFail
<1> QED BY <1>1, <1>2

LEMMA PlainBounds ==
  ASSUME TypeBounds, NEW ok \in Plainly, Faulted(IF ok THEN 0 ELSE 1),
         UNCHANGED <<crashes, shutdowns>>
  PROVE  TypeBounds'
<1>0. MaxMishaps \in Nat BY BuildWorkerAssumption DEF BuildWorkerAssumption
<1>1. CASE ok
  <2>1. faults' = faults + 0 BY <1>1 DEF Faulted
  <2> QED BY <1>0, <2>1 DEF TypeBounds
<1>2. CASE ~ok
  <2>1. faults' = faults + 1 BY <1>2 DEF Faulted
  <2>2. MayFail BY <1>2 DEF Plainly
  <2> QED BY <1>0, <2>1, <2>2 DEF TypeBounds, MayFail
<1> QED BY <1>1, <1>2

LEMMA TypeInit == Init => TypeOK
BY BuildWorkerAssumption DEF Init, TypeOK, Jobs, Idle, Final, BuildWorkerAssumption

\* The steps of one job's goroutine, and of the reader.
LEMMA TypeBuild ==
  ASSUME TypeOK, NEW j \in Jobs, Fetch(j) \/ ProcessBuild(j)
  PROVE  TypeOK'
<1> USE BuildWorkerAssumption DEF BuildWorkerAssumption
<1>0. TypeJobs /\ TypeData /\ TypeProcess /\ TypeBounds /\ j \in 1 .. NumJobs /\ j \in Nat
  BY TypeParts DEF Jobs
<1>1. SUFFICES TypeJobs' /\ TypeData' /\ TypeProcess' /\ TypeBounds'
  BY DEF TypeOK, TypeJobs, TypeData, TypeProcess, TypeBounds, PCs
<1> USE DEF offsets, rows, docker, jobs, bounds, Goto, At
<1>2. CASE Fetch(j)
  BY <1>0, <1>2 DEF Fetch, TypeJobs, TypeData, TypeProcess, TypeBounds, PCs
<1>3. CASE Begin(j)
  BY <1>0, <1>3 DEF Begin, TypeJobs, TypeData, TypeProcess, TypeBounds, PCs
<1>4. CASE SetBuilding(j)
  <2>1. TypeJobs' /\ TypeData' /\ TypeProcess'
    BY <1>0, <1>4 DEF SetBuilding, setStatus, Final, TypeJobs, TypeData, TypeProcess, PCs
  <2>2. TypeBounds'
    BY <1>0, <1>4, ChargeBounds DEF SetBuilding, setStatus
  <2> QED BY <2>1, <2>2
<1>5. CASE Download(j) \/ BuildImage(j)
  BY <1>0, <1>5
     DEF Download, BuildImage, Attempt, TypeJobs, TypeData, TypeProcess, TypeBounds, PCs
<1>6. CASE Launch(j)
  BY <1>0, <1>6 DEF Launch, TypeJobs, TypeData, TypeProcess, TypeBounds, PCs
<1>7. CASE Healthy(j)
  BY <1>0, <1>7 DEF Healthy, TypeJobs, TypeData, TypeProcess, TypeBounds, PCs
<1>8. CASE Unhealthy(j)
  <2>1. TypeJobs' /\ TypeData' /\ TypeProcess'
    BY <1>0, <1>8
       DEF Unhealthy, StopContainer, Final, TypeJobs, TypeData, TypeProcess, PCs
  <2>2. TypeBounds'
    <3>1. CASE UNCHANGED faults
      BY <1>0, <1>8, <3>1 DEF Unhealthy, TypeBounds
    <3>2. CASE \E gone, told \in UnderRun : Charge(gone /\ told)
      <4>1. PICK gone \in UnderRun, told \in UnderRun : Charge(gone /\ told)  BY <3>2
      <4> QED BY <1>0, <1>8, <4>1, BothUnderRun, ChargeBounds DEF Unhealthy
    <3> QED BY <1>8, <3>1, <3>2 DEF Unhealthy
  <2> QED BY <2>1, <2>2
<1>9. CASE setContainerInfo(j)
  <2>1. TypeJobs' /\ TypeData' /\ TypeProcess'
    BY <1>0, <1>9 DEF setContainerInfo, TypeJobs, TypeData, TypeProcess, PCs
  <2>2. TypeBounds'
    BY <1>0, <1>9, ChargeBounds DEF setContainerInfo
  <2> QED BY <2>1, <2>2
<1>10. CASE SetReady(j)
  <2>1. TypeJobs' /\ TypeData' /\ TypeProcess'
    BY <1>0, <1>10 DEF SetReady, setStatus, Final, TypeJobs, TypeData, TypeProcess, PCs
  <2>2. TypeBounds'
    BY <1>0, <1>10, ChargeBounds DEF SetReady, setStatus
  <2> QED BY <2>1, <2>2
<1>11. CASE Track(j)
  BY <1>0, <1>11 DEF Track, TypeJobs, TypeData, TypeProcess, TypeBounds, PCs
<1>12. CASE fail(j)
  <2>1. TypeJobs' /\ TypeData' /\ TypeProcess'
    BY <1>0, <1>12 DEF fail, setStatus, Final, TypeJobs, TypeData, TypeProcess, PCs
  <2>2. TypeBounds'
    BY <1>0, <1>12, ChargeBounds DEF fail, setStatus
  <2> QED BY <2>1, <2>2
<1>13. CASE Commit(j)
  <2>1. TypeJobs' /\ TypeData' /\ TypeProcess'
    BY <1>0, <1>13 DEF Commit, TypeJobs, TypeData, TypeProcess, PCs
  <2>2. TypeBounds'
    BY <1>0, <1>13, PlainBounds DEF Commit
  <2> QED BY <2>1, <2>2
<1> QED BY <1>2, <1>3, <1>4, <1>5, <1>6, <1>7, <1>8, <1>9, <1>10, <1>11, <1>12, <1>13
        DEF ProcessBuild

\* The steps of the background jobs.
LEMMA TypeBackground ==
  ASSUME TypeOK, Monitor \/ Sweep
  PROVE  TypeOK'
<1>0. TypeJobs /\ TypeData /\ TypeProcess /\ TypeBounds
  BY TypeParts
<1>1. SUFFICES TypeJobs' /\ TypeData' /\ TypeProcess' /\ TypeBounds'
  BY DEF TypeOK, TypeJobs, TypeData, TypeProcess, TypeBounds, PCs
<1> USE DEF offsets, rows, docker, bounds
<1>2. CASE MonitorTick
  BY <1>0, <1>2 DEF MonitorTick, Tracked, TypeJobs, TypeData, TypeProcess, TypeBounds
<1>3. ASSUME NEW id \in watch, MonitorCheck(id)
      PROVE  TypeJobs' /\ TypeData' /\ TypeProcess' /\ TypeBounds'
  <2>0. id[1] \in Jobs /\ id[2] \in Nat BY <1>0 DEF TypeProcess
  <2>1. TypeJobs' /\ TypeProcess'
    BY <1>0, <1>3 DEF MonitorCheck, TypeJobs, TypeProcess
  <2>2. TypeData'
    <3>1. known' = known /\ gen' = gen /\ box' = box
      BY <1>3 DEF MonitorCheck
    <3>2. CASE UNCHANGED <<status, active>>
      BY <1>0, <3>1, <3>2 DEF TypeData
    <3>3. ASSUME NEW told, markDead(id[1], told) PROVE TypeData'
      <4>1. active' \in [Jobs -> Nat]
        BY <1>0, <3>3 DEF markDead, TypeData
      <4>2. status' \in [Jobs -> {"pending", "building"} \cup Final]
        BY <1>0, <3>3 DEF markDead, TypeData, Final
      <4> QED BY <1>0, <3>1, <4>1, <4>2 DEF TypeData
    <3> QED BY <1>3, <3>2, <3>3 DEF MonitorCheck
  <2>3. TypeBounds'
    <3>1. CASE UNCHANGED faults
      BY <1>0, <1>3, <3>1 DEF MonitorCheck, TypeBounds
    <3>2. CASE \E ok \in UnderRun : Charge(ok)
      BY <1>0, <1>3, <3>2, ChargeBounds DEF MonitorCheck
    <3> QED BY <1>3, <3>1, <3>2 DEF MonitorCheck
  <2> QED BY <2>1, <2>2, <2>3
<1>4. CASE SweepList
  BY <1>0, <1>4 DEF SweepList, Pass, Listed, TypeJobs, TypeData, TypeProcess, TypeBounds
<1>5. CASE SweepTracked
  BY <1>0, <1>5 DEF SweepTracked, Pass, TypeJobs, TypeData, TypeProcess, TypeBounds
<1>6. CASE SweepReady
  <2>1. TypeJobs' /\ TypeData' /\ TypeProcess'
    BY <1>0, <1>6 DEF SweepReady, Pass, TypeJobs, TypeData, TypeProcess
  <2>2. TypeBounds'
    BY <1>0, <1>6, ChargeBounds DEF SweepReady
  <2> QED BY <2>1, <2>2
<1>7. ASSUME NEW id \in sweep.ids, SweepRemove(id)
      PROVE  TypeJobs' /\ TypeData' /\ TypeProcess' /\ TypeBounds'
  <2>1. TypeJobs' /\ TypeData' /\ TypeProcess'
    BY <1>0, <1>7 DEF SweepRemove, Pass, TypeJobs, TypeData, TypeProcess
  <2>2. TypeBounds'
    BY <1>0, <1>7, ChargeBounds DEF SweepRemove
  <2> QED BY <2>1, <2>2
<1> QED BY <1>2, <1>3, <1>4, <1>5, <1>6, <1>7 DEF Monitor, Sweep

\* The steps that end and start the process, and the death of a container.
LEMMA TypeLife ==
  ASSUME TypeOK, Drain \/ Shutdown \/ Crash \/ Start \/ \E j \in Jobs : ContainerDies(j)
  PROVE  TypeOK'
<1> USE BuildWorkerAssumption DEF BuildWorkerAssumption
<1>0. TypeJobs /\ TypeData /\ TypeProcess /\ TypeBounds
  BY TypeParts
<1>1. SUFFICES TypeJobs' /\ TypeData' /\ TypeProcess' /\ TypeBounds'
  BY DEF TypeOK, TypeJobs, TypeData, TypeProcess, TypeBounds, PCs
<1> USE DEF offsets, rows, docker, jobs, bounds
<1>2. CASE StopAll
  BY <1>0, <1>2 DEF StopAll, Tracked, TypeJobs, TypeData, TypeProcess, TypeBounds
<1>3. ASSUME NEW j \in drain, DrainOne(j)
      PROVE  TypeJobs' /\ TypeData' /\ TypeProcess' /\ TypeBounds'
  BY <1>0, <1>3
     DEF DrainOne, StopContainer, Final, TypeJobs, TypeData, TypeProcess, TypeBounds
<1>4. CASE Exit
  BY <1>0, <1>4 DEF Exit, Gone, Idle, TypeJobs, TypeData, TypeProcess, TypeBounds, PCs
<1>5. CASE Shutdown
  BY <1>0, <1>5 DEF Shutdown, MayFail, TypeJobs, TypeData, TypeProcess, TypeBounds
<1>6. CASE Crash
  BY <1>0, <1>6 DEF Crash, Gone, Idle, MayFail, TypeJobs, TypeData, TypeProcess, TypeBounds, PCs
<1>7. CASE Start
  <2>1. TypeJobs' /\ TypeData' /\ TypeProcess'
    BY <1>0, <1>7 DEF Start, RecoverActive, TypeJobs, TypeData, TypeProcess
  <2>2. TypeBounds'
    BY <1>0, <1>7, PlainBounds DEF Start
  <2> QED BY <2>1, <2>2
<1>8. ASSUME NEW j \in Jobs, ContainerDies(j)
      PROVE  TypeJobs' /\ TypeData' /\ TypeProcess' /\ TypeBounds'
  BY <1>0, <1>8 DEF ContainerDies, TypeJobs, TypeData, TypeProcess, TypeBounds
<1> QED BY <1>2, <1>3, <1>4, <1>5, <1>6, <1>7, <1>8 DEF Drain

LEMMA TypeNext == TypeOK /\ [Next]_vars => TypeOK'
<1> SUFFICES ASSUME TypeOK, [Next]_vars PROVE TypeOK'
  OBVIOUS
<1>1. CASE UNCHANGED vars
  BY <1>1 DEF vars, offsets, rows, docker, jobs, bounds, TypeOK
<1>2. CASE Next
  BY <1>2, TypeBuild, TypeBackground, TypeLife DEF Next
<1> QED BY <1>1, <1>2

\* Type correctness, for any number of jobs, places and mishaps.
THEOREM TypesHold == Spec => []TypeOK
<1> QED BY TypeInit, TypeNext, PTL DEF Spec

-----------------------------------------------------------------------------
\* Where ProcessBuild has written the row's status and not yet its result.
Unfinished == {"download", "build", "launch", "probe", "info", "ready"}

\* What keeps ReadyIsWatched, job by job: the row names the container that
\* runs under it, so that RecoverActive finds it, and a build that may still
\* create or rename a container has taken the row out of ready.
Claimed(j) ==
  /\ status[j] = "ready" /\ box[j] = "up" => known[j] = gen[j]
  /\ life = "up" /\ pc[j] \in Unfinished => status[j] # "ready"
  /\ life = "up" /\ pc[j] = "ready" => known[j] = gen[j]
  /\ life = "up" /\ status[j] = "ready" /\ box[j] = "up" =>
       active[j] = gen[j] \/ pc[j] = "track"

ClaimInv ==
  /\ life = "down" => \A j \in Jobs : pc[j] = "none"
  /\ \A j \in Jobs : next <= j => pc[j] = "none"
  /\ \A j \in Jobs : box[j] # "none" => gen[j] # 0
  /\ faults = 0 => \A j \in Jobs : Claimed(j)

LEMMA ClaimInit == Init => ClaimInv
BY DEF Init, ClaimInv, Claimed, Unfinished

\* A charged call did what it should, if nothing ever failed and the process
\* is not ending.
LEMMA Unharmed ==
  ASSUME TypeBounds, NEW ok \in UnderRun, Charge(ok), faults' = 0
  PROVE  faults = 0 /\ (life = "up" => ok = TRUE)
<1>1. CASE ok \/ Cancelled
  BY <1>1 DEF Charge, Faulted, TypeBounds, UnderRun, Plainly, Cancelled
<1>2. CASE ~ok /\ ~Cancelled
  BY <1>2 DEF Charge, Faulted, TypeBounds
<1> QED BY <1>1, <1>2

LEMMA BothUnharmed ==
  ASSUME TypeBounds, NEW gone \in UnderRun, NEW told \in UnderRun, Charge(gone /\ told),
         faults' = 0
  PROVE  faults = 0 /\ (life = "up" => gone = TRUE /\ told = TRUE)
<1>1. (gone /\ told) \in UnderRun  BY BothUnderRun
<1>2. faults = 0 /\ (life = "up" => (gone /\ told) = TRUE)  BY <1>1, Unharmed
<1>3. gone \in BOOLEAN /\ told \in BOOLEAN  BY DEF UnderRun, Plainly
<1> QED BY <1>2, <1>3, Zenon

LEMMA ClaimBuild ==
  ASSUME TypeOK, ClaimInv, NEW j \in Jobs, Fetch(j) \/ ProcessBuild(j)
  PROVE  ClaimInv'
<1>0. TypeJobs /\ TypeData /\ TypeProcess /\ TypeBounds
  BY TypeParts
<1> USE <1>0 DEF Jobs, offsets, rows, docker, jobs, bounds, Goto, At, Alive, ClaimInv, Claimed, Unfinished
<1>1. CASE Fetch(j)
  BY <1>1 DEF Fetch, TypeJobs
<1>2. CASE Begin(j)
  BY <1>2 DEF Begin, TypeJobs
<1>3. CASE SetBuilding(j)
  BY <1>3, Unharmed DEF SetBuilding, setStatus, TypeJobs, TypeData
<1>4. CASE Download(j) \/ BuildImage(j)
  BY <1>4 DEF Download, BuildImage, Attempt, TypeJobs
<1>5. CASE Launch(j)
  <2>0. /\ UNCHANGED <<next, life, faults, status, known, active>>
        /\ pc[j] = "launch" /\ life # "down"
        /\ \E p \in {"probe", "fail"} : pc' = [pc EXCEPT ![j] = p]
    BY <1>5 DEF Launch
  <2>1. CASE UNCHANGED docker
    BY <2>0, <2>1 DEF TypeJobs
  <2>2. CASE /\ ~Cancelled /\ gen' = [gen EXCEPT ![j] = @ + 1]
             /\ \E b \in {"up", "dead"} : box' = [box EXCEPT ![j] = b]
    <3>1. life = "up"
      BY <2>0, <2>2 DEF Cancelled, TypeProcess
    <3>2. faults = 0 => status[j] # "ready"
      BY <2>0, <3>1
    <3>3. ASSUME faults' = 0, NEW k \in Jobs PROVE Claimed(k)'
      BY <2>0, <2>2, <3>1, <3>2, <3>3 DEF TypeJobs, TypeData
    <3>4. \A k \in Jobs : box'[k] # "none" => gen'[k] # 0
      BY <2>2 DEF TypeData
    <3> QED BY <2>0, <3>1, <3>3, <3>4 DEF TypeJobs
  <2> QED BY <1>5, <2>1, <2>2 DEF Launch
<1>6. CASE Healthy(j)
  BY <1>6 DEF Healthy, TypeJobs
<1>7. CASE Unhealthy(j)
  <2>1. CASE UNCHANGED <<box, status, active, faults>>
    BY <1>7, <2>1 DEF Unhealthy, TypeJobs, TypeData
  <2>2. CASE \E gone, told \in UnderRun : Charge(gone /\ told) /\ StopContainer(j, gone, told)
    <3>1. PICK gone \in UnderRun, told \in UnderRun :
            Charge(gone /\ told) /\ StopContainer(j, gone, told)
      BY <2>2
    <3>2. faults' = 0 => faults = 0 /\ (life = "up" => gone = TRUE /\ told = TRUE)
      BY <3>1, BothUnharmed
    <3> QED BY <1>7, <3>1, <3>2 DEF Unhealthy, StopContainer, TypeJobs, TypeData
  <2> QED BY <1>7, <2>1, <2>2 DEF Unhealthy
<1>8. CASE setContainerInfo(j)
  BY <1>8, Unharmed DEF setContainerInfo, TypeJobs, TypeData
<1>9. CASE SetReady(j)
  <2>1. PICK ok \in BOOLEAN : setStatus(j, "ready", ok)
    BY <1>9 DEF SetReady
  <2>2. /\ pc[j] = "ready" /\ pc' = [pc EXCEPT ![j] = "track"]
        /\ UNCHANGED <<next, known, box, gen, active, life>>
    BY <1>9 DEF SetReady
  <2>3. faults' = 0 => faults = 0 /\ (life = "up" => ok)
    BY <2>1, Unharmed DEF setStatus
  <2>4. status' = IF ok THEN [status EXCEPT ![j] = "ready"] ELSE status
    BY <2>1 DEF setStatus
  <2>5. ASSUME ok PROVE life = "up"
    BY <1>9, <2>1, <2>5 DEF SetReady, setStatus, UnderRun, Cancelled, TypeProcess
  <2>6. ASSUME faults' = 0, NEW k \in Jobs PROVE Claimed(k)'
    <3>1. CASE k = j
      BY <2>2, <2>3, <2>4, <2>5, <2>6, <3>1 DEF TypeJobs, TypeData
    <3>2. CASE k # j
      BY <2>2, <2>3, <2>4, <2>6, <3>2 DEF TypeJobs, TypeData
    <3> QED BY <3>1, <3>2
  <2> QED BY <2>2, <2>6, <1>9 DEF TypeJobs
<1>10. CASE Track(j)
  BY <1>10 DEF Track, TypeJobs, TypeData
<1>11. CASE fail(j)
  BY <1>11, Unharmed DEF fail, setStatus, TypeJobs, TypeData
<1>12. CASE Commit(j)
  BY <1>12 DEF Commit, Plainly, Faulted, TypeJobs, TypeBounds
<1> QED BY <1>1, <1>2, <1>3, <1>4, <1>5, <1>6, <1>7, <1>8, <1>9, <1>10, <1>11, <1>12
        DEF ProcessBuild

LEMMA ClaimBackground ==
  ASSUME TypeOK, ClaimInv, Monitor \/ Sweep
  PROVE  ClaimInv'
<1>0. TypeJobs /\ TypeData /\ TypeProcess /\ TypeBounds
  BY TypeParts
<1> USE <1>0 DEF offsets, rows, docker, bounds, Alive, ClaimInv, Claimed, Unfinished
<1>1. CASE MonitorTick \/ SweepList \/ SweepTracked
  BY <1>1 DEF MonitorTick, SweepList, SweepTracked
<1>2. ASSUME NEW id \in watch, MonitorCheck(id) PROVE ClaimInv'
  <2>0. id[1] \in Jobs /\ UNCHANGED <<pc, next, known, box, gen, life>>
    BY <1>2 DEF MonitorCheck, TypeProcess
  <2>1. CASE UNCHANGED <<status, active, faults>>
    BY <2>0, <2>1
  <2>2. ASSUME NEW told, faults' = 0 => faults = 0 /\ (life = "up" => told), markDead(id[1], told)
        PROVE  ClaimInv'
    <3>1. ASSUME faults' = 0, NEW k \in Jobs PROVE Claimed(k)'
      <4>1. CASE k = id[1]
        BY <2>0, <2>2, <3>1, <4>1 DEF markDead, TypeData
      <4>2. CASE k # id[1]
        BY <2>0, <2>2, <3>1, <4>2 DEF markDead, TypeData
      <4> QED BY <4>1, <4>2
    <3> QED BY <2>0, <3>1
  <2>3. CASE \E told \in UnderRun : Charge(told) /\ markDead(id[1], told)
    BY <2>2, <2>3, Unharmed
  <2>4. CASE FALSE \in UnderRun /\ Charge(FALSE) /\ \E told \in BOOLEAN : markDead(id[1], told)
    <3>1. faults' = 0 => faults = 0 /\ life # "up"
      BY <2>4, Unharmed
    <3> QED BY <2>2, <2>4, <3>1
  <2> QED BY <1>2, <2>1, <2>3, <2>4 DEF MonitorCheck
<1>3. CASE SweepReady
  BY <1>3, Unharmed DEF SweepReady
<1>4. ASSUME NEW id \in sweep.ids, SweepRemove(id) PROVE ClaimInv'
  BY <1>4, Unharmed DEF SweepRemove, TypeData, TypeProcess
<1> QED BY <1>1, <1>2, <1>3, <1>4 DEF Monitor, Sweep

LEMMA ClaimLife ==
  ASSUME TypeOK, ClaimInv, Drain \/ Shutdown \/ Crash \/ Start \/ \E j \in Jobs : ContainerDies(j)
  PROVE  ClaimInv'
<1>0. TypeJobs /\ TypeData /\ TypeProcess /\ TypeBounds
  BY TypeParts
<1> USE <1>0 DEF offsets, rows, docker, jobs, bounds, Alive, ClaimInv, Claimed, Unfinished
<1>1. CASE StopAll \/ Shutdown
  BY <1>1 DEF StopAll, Shutdown
<1>2. ASSUME NEW j \in drain, DrainOne(j) PROVE ClaimInv'
  BY <1>2 DEF DrainOne, StopContainer, TypeData, TypeProcess
<1>3. CASE Exit \/ Crash
  BY <1>3 DEF Exit, Crash, Gone
<1>4. CASE Start
  <2>1. PICK ok \in Plainly :
          /\ Faulted(IF ok THEN 0 ELSE 1)
          /\ active' = [j \in Jobs |-> IF ok /\ j \in RecoverActive THEN known[j] ELSE 0]
    BY <1>4 DEF Start
  <2>2. /\ UNCHANGED <<next, pc, status, known, box, gen>>
        /\ \A j \in Jobs : pc[j] = "none"
    BY <1>4 DEF Start
  <2>3. faults' = 0 => faults = 0 /\ ok
    BY <2>1 DEF Faulted, Plainly, TypeBounds
  <2>4. ASSUME faults' = 0, NEW j \in Jobs, status[j] = "ready", box[j] = "up"
        PROVE  active'[j] = gen[j]
    <3>1. known[j] = gen[j] /\ known[j] # 0
      BY <2>3, <2>4
    <3>2. j \in RecoverActive
      BY <2>4, <3>1 DEF RecoverActive, IsUp
    <3> QED BY <2>1, <2>3, <2>4, <3>1, <3>2
  <2> QED BY <1>4, <2>2, <2>3, <2>4 DEF Start
<1>5. ASSUME NEW j \in Jobs, ContainerDies(j) PROVE ClaimInv'
  BY <1>5 DEF ContainerDies, TypeData
<1> QED BY <1>1, <1>2, <1>3, <1>4, <1>5 DEF Drain

LEMMA ClaimNext == TypeOK /\ ClaimInv /\ [Next]_vars => ClaimInv'
<1> SUFFICES ASSUME TypeOK, ClaimInv, [Next]_vars PROVE ClaimInv'
  OBVIOUS
<1>1. CASE UNCHANGED vars
  BY <1>1 DEF vars, offsets, rows, docker, jobs, bounds, ClaimInv, Claimed
<1>2. CASE Next
  BY <1>2, ClaimBuild, ClaimBackground, ClaimLife DEF Next
<1> QED BY <1>1, <1>2

\* While no call fails, a process that is up has every container that runs
\* under a ready row in its map, for any number of jobs, of builds at a time,
\* of crashes and of shutdowns.
THEOREM ReadyStaysWatched == Spec => []ReadyIsWatched
<1>1. ClaimInv => ReadyIsWatched
  BY DEF ClaimInv, Claimed, ReadyIsWatched
<1> QED BY <1>1, TypesHold, ClaimInit, ClaimNext, PTL DEF Spec

-----------------------------------------------------------------------------
\* The order that one build at a time gives: the job a goroutine builds comes
\* before the one the reader holds, and behind the committed offset there is
\* nothing but results.
Kept(j) ==
  /\ j < committed => pc[j] = "none"
  /\ pc[j] # "none" => j < next
  /\ j < next /\ pc[j] \in {"none", "track", "commit"} => status[j] \in Final
  /\ \A k \in Jobs : pc[j] # "none" /\ pc[k] # "none" /\ j # k =>
       (pc[j] = "fetched" <=> pc[k] # "fetched")
  /\ \A k \in Jobs : pc[j] \notin {"none", "fetched"} /\ pc[k] = "fetched" => j < k

InOrder ==
  /\ life = "down" => \A j \in Jobs : pc[j] = "none"
  /\ shutdowns = 0 => life \in {"up", "down"}
  /\ shutdowns + faults = 0 => committed <= next /\ \A j \in Jobs : Kept(j)

LEMMA OrderInit == Init => InOrder
BY BuildWorkerAssumption DEF Init, InOrder, Kept, Jobs, BuildWorkerAssumption

\* With one place a build begins when no other is under way.
LEMMA OnePlace ==
  ASSUME MaxConcurrentBuild = 1, Cardinality(Building) < MaxConcurrentBuild
  PROVE  Building = {}
<1>1. IsFiniteSet(Jobs)
  BY FS_Interval, BuildWorkerAssumption DEF Jobs, BuildWorkerAssumption
<1>2. IsFiniteSet(Building)
  BY <1>1, FS_Subset DEF Building
<1>3. Cardinality(Building) = 0
  BY <1>2, FS_CardinalityType
<1> QED BY <1>2, <1>3, FS_EmptySet

LEMMA OrderBuild ==
  ASSUME MaxConcurrentBuild = 1, TypeOK, InOrder, NEW j \in Jobs, Fetch(j) \/ ProcessBuild(j)
  PROVE  InOrder'
<1>0. TypeJobs /\ TypeData /\ TypeProcess /\ TypeBounds
  BY TypeParts
<1>17. shutdowns' = shutdowns /\ life' = life /\ life # "down"
  BY DEF ProcessBuild, Fetch, Begin, SetBuilding, Download, BuildImage, Attempt, Launch, Healthy,
         Unhealthy, setContainerInfo, SetReady, Track, fail, Commit, At, Alive, bounds
<1>18. ASSUME shutdowns' + faults' = 0 => committed' <= next' /\ \A i \in Jobs : Kept(i)'
      PROVE  InOrder'
  BY <1>17, <1>18 DEF InOrder
<1> SUFFICES ASSUME shutdowns' + faults' = 0
             PROVE  committed' <= next' /\ \A i \in Jobs : Kept(i)'
  BY <1>18
<1>2. life = "up" /\ shutdowns = 0 /\ faults' = 0
  <2>1. faults' \in Nat BY TypeBuild DEF TypeOK
  <2>2. shutdowns \in Nat BY <1>0 DEF TypeBounds
  <2>3. shutdowns + faults' = 0 BY <1>17
  <2>4. \A m, n \in Nat : m + n = 0 => m = 0 /\ n = 0 OBVIOUS
  <2>5. shutdowns = 0 /\ faults' = 0 BY <2>1, <2>2, <2>3, <2>4
  <2> QED BY <1>17, <2>5 DEF InOrder
<1> USE <1>0 DEF Jobs, offsets, rows, docker, jobs, bounds, Goto, At, Kept, TypeJobs, TypeData
<1>3. ASSUME faults = 0, NEW p \in PCs \ {"none", "fetched"},
             pc[j] \notin {"none", "fetched"}, pc' = [pc EXCEPT ![j] = p],
             status'[j] \in Final \/ p \notin {"track", "commit"},
             \A i \in Jobs : i # j => status'[i] = status[i],
             UNCHANGED <<committed, next>>
      PROVE  committed' <= next' /\ \A i \in Jobs : Kept(i)'
  BY <1>2, <1>3 DEF InOrder, TypeBounds, PCs
<1>4. CASE Fetch(j)
  BY <1>2, <1>4 DEF Fetch, InOrder, TypeBounds
<1>5. CASE Begin(j)
  <2>1. Building = {}
    BY <1>5, OnePlace DEF Begin
  <2> QED BY <1>2, <1>5, <2>1 DEF Begin, Building, InOrder, TypeBounds
<1>6. CASE SetBuilding(j)
  BY <1>2, <1>3, <1>6, Unharmed DEF SetBuilding, setStatus, PCs
<1>7. CASE Download(j) \/ BuildImage(j)
  BY <1>2, <1>3, <1>7 DEF Download, BuildImage, Attempt, PCs
<1>8. CASE Launch(j)
  BY <1>2, <1>3, <1>8 DEF Launch, PCs
<1>9. CASE Healthy(j)
  BY <1>2, <1>3, <1>9 DEF Healthy, PCs
<1>10. CASE Unhealthy(j)
  <2>1. CASE UNCHANGED <<box, status, active, faults>>
    BY <1>2, <1>3, <1>10, <2>1 DEF Unhealthy, PCs
  <2>2. CASE \E gone, told \in UnderRun : Charge(gone /\ told) /\ StopContainer(j, gone, told)
    <3>1. PICK gone \in UnderRun, told \in UnderRun :
            Charge(gone /\ told) /\ StopContainer(j, gone, told)
      BY <2>2
    <3>2. faults' = 0 => faults = 0
      BY <3>1, BothUnharmed
    <3> QED BY <1>2, <1>3, <1>10, <3>1, <3>2 DEF Unhealthy, StopContainer, PCs
  <2> QED BY <1>10, <2>1, <2>2 DEF Unhealthy
<1>11. CASE setContainerInfo(j)
  BY <1>2, <1>3, <1>11, Unharmed DEF setContainerInfo, PCs
<1>12. CASE SetReady(j)
  BY <1>2, <1>3, <1>12, Unharmed DEF SetReady, setStatus, Final, PCs
<1>13. CASE Track(j)
  <2>1. faults = 0 /\ status[j] \in Final
    BY <1>2, <1>13 DEF Track, InOrder, TypeBounds
  <2> QED BY <1>2, <1>3, <1>13, <2>1 DEF Track, PCs
<1>14. CASE fail(j)
  BY <1>2, <1>3, <1>14, Unharmed DEF fail, setStatus, Final, PCs
<1>15. CASE Commit(j)
  <2>1. faults = 0 /\ committed' = j + 1
    BY <1>2, <1>15 DEF Commit, Plainly, Faulted, TypeBounds
  <2> QED BY <1>2, <1>15, <2>1 DEF Commit, InOrder, TypeBounds
<1> QED BY <1>4, <1>5, <1>6, <1>7, <1>8, <1>9, <1>10, <1>11, <1>12, <1>13, <1>14, <1>15
        DEF ProcessBuild

LEMMA ChargeAdds ==
  ASSUME TypeBounds, NEW ok, Charge(ok)
  PROVE  faults' = faults \/ faults' = faults + 1
<1>1. CASE ok \/ Cancelled
  BY <1>1 DEF Charge, Faulted, TypeBounds
<1>2. CASE ~ok /\ ~Cancelled
  BY <1>2 DEF Charge, Faulted
<1> QED BY <1>1, <1>2

\* The rest leaves the reader and the builds alone, or ends them all, and
\* writes nothing but results.
LEMMA OrderRest ==
  ASSUME TypeOK, InOrder,
         \/ Monitor \/ Sweep \/ Drain \/ Shutdown \/ Crash \/ Start
         \/ \E j \in Jobs : ContainerDies(j)
  PROVE  InOrder'
<1>0. TypeJobs /\ TypeData /\ TypeProcess /\ TypeBounds
  BY TypeParts
<1> USE <1>0 DEF offsets, rows, docker, jobs, bounds, Alive, InOrder, Kept, Jobs, TypeJobs,
                 TypeBounds
<1>1. CASE MonitorTick \/ SweepList \/ SweepTracked
  BY <1>1 DEF MonitorTick, SweepList, SweepTracked
<1>10. CASE SweepReady
  BY <1>10, ChargeAdds DEF SweepReady
<1>2. ASSUME NEW id \in watch, MonitorCheck(id) PROVE InOrder'
  <2>1. /\ UNCHANGED <<committed, next, pc, life, shutdowns>>
        /\ faults' = faults \/ faults' = faults + 1
    BY <1>2, ChargeAdds DEF MonitorCheck
  <2>2. \A i \in Jobs : status'[i] = status[i] \/ status'[i] \in Final
    BY <1>2 DEF MonitorCheck, markDead, Final, TypeData
  <2> QED BY <2>1, <2>2
<1>3. ASSUME NEW id \in sweep.ids, SweepRemove(id) PROVE InOrder'
  BY <1>3, ChargeAdds DEF SweepRemove
<1>4. CASE StopAll \/ Shutdown
  BY <1>4 DEF StopAll, Shutdown
<1>5. ASSUME NEW i \in drain, DrainOne(i) PROVE InOrder'
  BY <1>5 DEF DrainOne
<1>6. CASE Exit
  BY <1>6 DEF Exit, Gone
<1>7. CASE Crash
  BY <1>7 DEF Crash, Gone
<1>8. CASE Start
  BY <1>8 DEF Start, Faulted
<1>9. ASSUME NEW i \in Jobs, ContainerDies(i) PROVE InOrder'
  BY <1>9 DEF ContainerDies
<1> QED BY <1>1, <1>2, <1>3, <1>4, <1>5, <1>6, <1>7, <1>8, <1>9, <1>10
        DEF Monitor, Sweep, Drain

LEMMA OrderNext ==
  ASSUME MaxConcurrentBuild = 1
  PROVE  TypeOK /\ InOrder /\ [Next]_vars => InOrder'
<1> SUFFICES ASSUME TypeOK, InOrder, [Next]_vars PROVE InOrder'
  OBVIOUS
<1>1. CASE UNCHANGED vars
  BY <1>1 DEF vars, offsets, rows, docker, jobs, bounds, InOrder, Kept
<1>2. CASE Next
  BY <1>2, OrderBuild, OrderRest DEF Next
<1> QED BY <1>1, <1>2

\* Built one at a time, no job is lost to a crash, for any number of jobs and
\* of crashes.
THEOREM OneAtATimeLosesNothing ==
  ASSUME MaxConcurrentBuild = 1
  PROVE  Spec => []NoJobIsLost
<1>1. TypeOK /\ InOrder => NoJobIsLost
  BY DEF TypeOK, InOrder, Kept, NoJobIsLost, Jobs
<1> QED BY <1>1, TypesHold, OrderInit, OrderNext, PTL DEF Spec
=============================================================================
