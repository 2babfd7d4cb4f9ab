------------------------- MODULE MCOrchestratorLive -------------------------
(***************************************************************************)
(* What must eventually happen, in two kinds of behaviours: one test whose *)
(* instance or else whose container may crash, with scans for orphans      *)
(* without end, and two tests of one contestant that compete for its lock, *)
(* without a crash of the instance or a scan.  A behaviour is of the kind  *)
(* `part` names.                                                           *)
(***************************************************************************)
EXTENDS MCOrchestrator

CONSTANT t2   \* the second test

VARIABLE part

mcVars == <<vars, part>>

MCInit == part \in {"alone", "rivals"} /\ Init

\* What goes on in both kinds.
Duty ==
  \/ \E p \in Procs : Handler(p)
  \/ \E i \in Instances : Consume(i) \/ Timer(i)
  \/ \E i \in Instances, t \in Tests : Heartbeat(i, t)
  \/ Time

Reports == \E c \in Contestants : ReportCrash(c)

AloneNext ==
  \/ \E t \in Tests \ {t2} : CheckNoActiveTest(t) \/ InsertTest(t) \/ PublishStart(t)
  \/ Reports
  \/ \E i \in Instances : Crash(i)
  \/ \E i \in Instances : Recover(i)
  \/ Duty

RivalNext == Api \/ Reports \/ Duty

AloneStep == part = "alone" /\ AloneNext /\ UNCHANGED part
RivalStep == part = "rivals" /\ RivalNext /\ UNCHANGED part
MCNext    == AloneStep \/ RivalStep

\* The fairness of Orchestrator; no rival is scanned for.
MCSpec ==
  /\ MCInit /\ [][MCNext]_mcVars
  /\ DutyFairness
  /\ \A i \in Instances : WF_vars(part = "alone" /\ Recover(i))
=============================================================================
