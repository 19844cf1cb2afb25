------------------------------- MODULE EventBus -------------------------------
(***************************************************************************)
(* The bus of a deployment: main.rs reads the environment, builds the      *)
(* producer it selects, and every event of the service goes to that one.   *)
(* This module composes Configuration with the two transports and with the *)
(* producer that drops everything.                                         *)
(***************************************************************************)
EXTENDS PubSubTransport, Configuration

CONSTANTS
    Environments,
    Records,        \* the events published while Redpanda is the bus
    QueueLimit, KafkaTimeout, Retries, KafkaFaults

VARIABLES
    environment,    \* the environment, until it has been read
    bus,            \* the EventProducer in use
    asked,          \* history: the environment asked for a bus
    dropped,        \* the events given to NoopProducer
    kstep, kleft, kretries, klog

kafka == <<kstep, kleft, kretries, klog>>

K == INSTANCE KafkaTransport
     WITH Events <- Records, Timeout <- KafkaTimeout, Faults <- KafkaFaults,
          step <- kstep, left <- kleft, retries <- kretries, log <- klog

ASSUME EventBusAssumption ==
    /\ K!KafkaAssumption
    /\ Environments \subseteq EnvironmentType

wiring  == <<environment, bus, asked>>
busVars == <<vars, wiring, dropped, kafka>>

Producers == {"unwired", "refused", "pubsub", "redpanda", "none", "unbuilt"}

\* A deployment asks for a bus when it names one, or the brokers of one.
AsksForBus(env) ==
    \/ Given(env.event_bus) /\ env.event_bus \notin NoneWords
    \/ ~Given(env.event_bus) /\ Given(env.redpanda_brokers)

BusInit ==
    /\ Init
    /\ K!Init
    /\ \E env \in Environments : environment = {env} /\ auth = Credentials(env)
    /\ bus = "unwired"
    /\ asked = FALSE
    /\ dropped = {}

\* The boot ends in a panic.
Refuse(env) ==
    /\ ~Boots(env)
    /\ bus' = "refused"
    /\ UNCHANGED <<environment, asked>>

\* producer_from_config: a client that cannot be built is replaced by
\* NoopProducer, which is logged as an error.
Build(env) ==
    /\ Boots(env)
    /\ LET transport == SelectEventBus(env).transport IN
       \/ bus' = transport
       \/ transport # "none" /\ bus' = "unbuilt"
    /\ asked' = AsksForBus(env)
    /\ environment' = {}

Wire ==
    /\ bus = "unwired"
    /\ \E env \in environment : Refuse(env) \/ Build(env)
    /\ UNCHANGED <<vars, dropped, kafka>>

\* The platform starts the same revision again.
Restart ==
    /\ bus = "refused"
    /\ bus' = "unwired"
    /\ UNCHANGED <<environment, asked, vars, dropped, kafka>>

\* NoopProducer answers Ok.
Drop(e) ==
    /\ bus \in {"none", "unbuilt"}
    /\ e \notin dropped
    /\ dropped' = dropped \cup {e}
    /\ UNCHANGED <<vars, wiring, kafka>>

Silent ==
    /\ dropped = Events
    /\ UNCHANGED busVars

\* A step of the one transport in use.
OverPubSub(step_of_it) ==
    bus = "pubsub" /\ step_of_it /\ UNCHANGED <<wiring, dropped, kafka>>

OverKafka(step_of_it) ==
    bus = "redpanda" /\ step_of_it /\ UNCHANGED <<wiring, dropped, vars>>

BusNext ==
    \/ Wire \/ Restart
    \/ \E e \in Events : Drop(e)
    \/ Silent
    \/ OverPubSub(Next)
    \/ OverKafka(K!Next)

BusSpec == BusInit /\ [][BusNext]_busVars

\* Each transport under the fairness that its own module assumes.
BusFairSpec ==
    /\ BusSpec
    /\ WF_busVars(OverPubSub(Tick))
    /\ \A e \in Events : WF_busVars(OverPubSub(Runs(e)))
    /\ WF_busVars(OverKafka(K!Tick))
    /\ \A r \in Records : WF_busVars(OverKafka(K!Report(r)))

-----------------------------------------------------------------------------
\* Every variable of the composition keeps its type, those of the transports
\* included.
BusTypeOK ==
    /\ TypeOK
    /\ K!TypeOK
    /\ environment \subseteq Environments
    /\ bus \in Producers
    /\ asked \in BOOLEAN
    /\ dropped \subseteq Events

\* ADR-002, "four months of events into a no-op producer": a service whose
\* deployment asked for a bus drops no event, unless the client of that bus
\* could not be built, which the log says at ERROR.
DropsOnlyWhatNobodyAskedFor == dropped # {} /\ bus # "unbuilt" => ~asked

\* "editor-events is the name of the resource whatever carries it": a
\* deployment that moves from Redpanda to Pub/Sub, and names no other topic,
\* keeps the topic its consumers read.
TopicSurvivesTheMove(env) ==
    LET moved == [env EXCEPT !.event_bus = "pubsub",
                             !.gcp_project_id = "given",
                             !.pubsub_topic = "absent"]
    IN  SelectEventBus(env).transport = "redpanda" =>
            SelectEventBus(moved).topic = SelectEventBus(env).topic

\* "the value that was validated must be the value that applies": whatever the
\* environment sets is in force once the service runs, or the service does not
\* run; nothing that was set is replaced by a default.
WhatIsSetApplies ==
    \A env \in environment : Boots(env) =>
        /\ env.size.kind # "unset" =>
             MaxDocumentBytes(env.size) \in {env.size.mb * BytesPerMb, MaxUsize}
             /\ env.size.mb > 0
        /\ env.rsa_key # "absent" => Verifier(env) = "rsa"
        /\ Given(env.event_bus) =>
             \/ SelectEventBus(env).transport = "pubsub" /\ env.event_bus \in PubSubWords
             \/ SelectEventBus(env).transport = "redpanda" /\ env.event_bus \in KafkaWords
             \/ SelectEventBus(env).transport = "none" /\ env.event_bus \in NoneWords
        /\ TopicSurvivesTheMove(env)

\* The Redpanda transport's promise and its liveness, in this composition:
\* no event is dropped in silence, and an outage leaves no message in memory.
KafkaDeliversOrLogs   == K!DeliversOrLogs
KafkaEveryMessageEnds == K!EveryMessageEnds
=============================================================================
