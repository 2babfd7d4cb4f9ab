-------------------------------- MODULE MCFleet --------------------------------
(***************************************************************************)
(* The bot fleet without its bots' trading: the telemetry producer, the    *)
(* registry of runners, and the circuit breaker the bots of a test share.  *)
(* They share no state: a behaviour moves the one `part` names.            *)
(***************************************************************************)
EXTENDS Producer, TestRegistry, CircuitBreaker

CONSTANT Contestant

VARIABLE part

mcVars == <<vars, fleetVars, breakerVars, part>>

\* Every test is the one contestant's.
MCOwner == [t \in Tests |-> Contestant]

MCInit ==
  part \in {"producer", "registry", "breaker"} /\ Init /\ FleetInit /\ BreakerInit

ProducerStep == part = "producer" /\ Next /\ UNCHANGED <<fleetVars, breakerVars, part>>
RegistryStep == part = "registry" /\ FleetNext /\ UNCHANGED <<vars, breakerVars, part>>
BreakerStep  == part = "breaker" /\ BreakerNext /\ UNCHANGED <<vars, fleetVars, part>>
MCNext       == ProducerStep \/ RegistryStep \/ BreakerStep

OfProducer(A) == part = "producer" /\ A
OfRegistry(A) == part = "registry" /\ A
OfBreaker(A)  == part = "breaker" /\ A

\* The fairness of Producer, TestRegistry and CircuitBreaker, each for its
\* part.
MCSpec ==
  /\ MCInit /\ [][MCNext]_mcVars
  /\ WF_vars(OfProducer(Collect)) /\ WF_vars(OfProducer(Tick)) /\ WF_vars(OfProducer(Finish))
  /\ WF_fleetVars(OfRegistry(Start)) /\ WF_fleetVars(OfRegistry(Spawn))
  /\ WF_fleetVars(OfRegistry(EndCommand))
  /\ \A s \in Stoppers :
       WF_fleetVars(OfRegistry(StopSome(s))) /\ WF_fleetVars(OfRegistry(EndStop(s)))
  /\ WF_fleetVars(OfRegistry(Close)) /\ WF_fleetVars(OfRegistry(EndClose))
  /\ \A b \in Bot :
       /\ WF_breakerVars(OfBreaker(Allow(b))) /\ WF_breakerVars(OfBreaker(Answer(b)))
       /\ WF_breakerVars(OfBreaker(Record(b)))
  /\ WF_breakerVars(OfBreaker(Cool)) /\ WF_breakerVars(OfBreaker(AgeWindow))
=============================================================================
