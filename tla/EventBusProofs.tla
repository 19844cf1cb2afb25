---------------------------- MODULE EventBusProofs ----------------------------
(* What the transports promise each on its own they promise in the service  *)
(* that selects one of them; and the service drops only what nobody asked   *)
(* a bus for.                                                               *)
EXTENDS EventBus, PubSubTransportProofs

KP == INSTANCE KafkaTransportProofs
      WITH Events <- Records, Timeout <- KafkaTimeout, Faults <- KafkaFaults,
           step <- kstep, left <- kleft, retries <- kretries, log <- klog

-----------------------------------------------------------------------------
(* A step of the service is a step of each transport, or a stutter of it.   *)

LEMMA StepsOfPubSub == [BusNext]_busVars => [Next]_vars
BY DEF BusNext, busVars, Wire, Restart, Drop, Silent, OverPubSub, OverKafka

LEMMA StepsOfKafka == [BusNext]_busVars => [K!Next]_kafka
BY DEF BusNext, busVars, kafka, Wire, Restart, Drop, Silent, OverPubSub, OverKafka

LEMMA RunsPubSub == BusSpec => Spec
<1>1. BusInit => Init
  BY DEF BusInit
<1> QED
  BY <1>1, StepsOfPubSub, PTL DEF BusSpec, Spec

\* Counting is the same in both instances of KafkaTransport.
LEMMA SameCount == \A S : K!Cardinality(S) = KP!Cardinality(S)
BY DEF K!Cardinality, KP!Cardinality

LEMMA RunsKafka == BusSpec => KP!Spec
<1>1. BusInit => KP!Init
  BY DEF BusInit, K!Init, KP!Init
<1>2. [BusNext]_busVars => [KP!Next]_(KP!vars)
  BY StepsOfKafka, SameCount
  DEF kafka, K!Next, K!Publish, K!Transmit, K!AppendMessage, K!Retry, K!Report,
      K!Stop, K!Tick, K!Goto, K!Backlog, K!Held, KP!Next, KP!vars, KP!Publish,
      KP!Transmit, KP!AppendMessage, KP!Retry, KP!Report, KP!Stop, KP!Tick,
      KP!Goto, KP!Backlog, KP!Held
<1> QED
  BY <1>1, <1>2, PTL DEF BusSpec, KP!Spec

LEMMA KafkaAssumed == KP!KafkaAssumption
BY EventBusAssumption DEF K!KafkaAssumption, KP!KafkaAssumption

-----------------------------------------------------------------------------
\* What the broker's transport reports is the same in both instances.
LEMMA SamePromise == KP!DeliversOrLogs => KafkaDeliversOrLogs
<1>1. \A s : KP!FateOf(s) = K!FateOf(s)
  BY DEF KP!FateOf, K!FateOf, KP!Held, K!Held
<1>2. /\ KP!Promise!Init => K!Promise!Init
      /\ [KP!Promise!Next]_(KP!Promise!vars) => [K!Promise!Next]_(K!Promise!vars)
  BY <1>1
  DEF KP!Promise!Init, KP!Promise!Next, KP!Promise!vars, KP!Promise!Take,
      KP!Promise!Refuse, KP!Promise!Arrive, KP!Promise!Confirm,
      KP!Promise!GiveUp, KP!Promise!Stop, KP!Promise!Becomes,
      K!Promise!Init, K!Promise!Next, K!Promise!vars, K!Promise!Take,
      K!Promise!Refuse, K!Promise!Arrive, K!Promise!Confirm,
      K!Promise!GiveUp, K!Promise!Stop, K!Promise!Becomes
<1> QED
  BY <1>2, PTL
  DEF KafkaDeliversOrLogs, K!DeliversOrLogs, K!Promise!Spec, KP!DeliversOrLogs,
      KP!Promise!Spec

\* No event is dropped in silence through Redpanda, in the service that
\* selected it.
THEOREM RedpandaKeepsThePromise == BusSpec => KafkaDeliversOrLogs
<1>1. KP!Spec => KP!DeliversOrLogs
  BY KafkaAssumed, KP!KafkaKeepsThePromise
<1> QED
  BY <1>1, RunsKafka, SamePromise, PTL

\* ... and none through Pub/Sub.
THEOREM PubSubPromiseHolds == BusSpec => DeliversOrLogs
BY RunsPubSub, PubSubKeepsThePromise, PTL

\* "so a token never expires mid-flight", whatever the environment says.
THEOREM TokensLastInTheService == BusSpec => []NeverExpiresMidFlight
BY RunsPubSub, TokensNeverExpireMidFlight, PTL

-----------------------------------------------------------------------------
(* The wiring.                                                              *)

WiringTypes ==
    /\ environment \subseteq Environments
    /\ bus \in Producers
    /\ asked \in BOOLEAN
    /\ dropped \subseteq Events

LEMMA WiringTypesHold == BusSpec => []WiringTypes
<1>1. BusInit => WiringTypes
  BY DEF BusInit, WiringTypes, Producers
<1>2. ASSUME WiringTypes, [BusNext]_busVars
      PROVE  WiringTypes'
  <2> USE <1>2 DEF WiringTypes, wiring
  <2>1. CASE Wire
    <3>1. PICK env \in environment : Refuse(env) \/ Build(env)
      BY <2>1 DEF Wire
    <3>2. SelectEventBus(env).transport \in {"pubsub", "redpanda", "none", "refused"}
      BY DEF SelectEventBus, SelectByBrokers, SelectPubSub, Over, Disabled, Refused
    <3> QED
      BY <2>1, <3>1, <3>2 DEF Wire, Refuse, Build, Producers, AsksForBus
  <2>2. CASE Restart
    BY <2>2 DEF Restart, Producers
  <2>3. ASSUME NEW e \in Events, Drop(e)
        PROVE  WiringTypes'
    BY <2>3 DEF Drop
  <2>4. CASE UNCHANGED <<wiring, dropped>>
    BY <2>4
  <2> QED
    BY <2>1, <2>2, <2>3, <2>4 DEF BusNext, busVars, Silent, OverPubSub, OverKafka
<1> QED
  BY <1>1, <1>2, PTL DEF BusSpec

\* Every variable of the service's bus keeps its type.
THEOREM BusTypesHold == BusSpec => []BusTypeOK
<1>1. BusSpec => []KP!TypeOK
  <2>1. KP!Spec => []KP!TypeOK
    BY KafkaAssumed, KP!KafkaTypeCorrect
  <2> QED
    BY <2>1, RunsKafka, PTL
<1>2. KP!TypeOK => K!TypeOK
  BY DEF KP!TypeOK, K!TypeOK, KP!Steps, K!Steps, KP!Held, K!Held, KP!Ended, K!Ended
<1>3. TypeOK /\ K!TypeOK /\ WiringTypes => BusTypeOK
  BY DEF WiringTypes, BusTypeOK
<1> QED
  BY <1>1, <1>2, <1>3, RunsPubSub, TransportTypeCorrect, WiringTypesHold, PTL

-----------------------------------------------------------------------------
(* Nothing is dropped that a bus was asked for.                             *)

\* Only NoopProducer drops, and nothing is published before it is in use.
OnlyNoopDrops == dropped # {} => bus \in {"none", "unbuilt"}

\* A producer that was built is one nobody asked a bus for, or the bus that was
\* asked for, or what stands in for it since its client could not be built.
BuiltAsAsked ==
    /\ bus = "none" => ~asked
    /\ bus \in {"pubsub", "redpanda", "unbuilt"} => asked

Silence == OnlyNoopDrops /\ BuiltAsAsked

LEMMA NoneIsUnasked ==
    ASSUME NEW env, SelectEventBus(env).transport = "none"
    PROVE  ~AsksForBus(env)
BY DEF SelectEventBus, SelectByBrokers, SelectPubSub, Over, Disabled, Refused,
       AsksForBus, Given, KafkaWords, NoneWords, PubSubWords

LEMMA BusIsAsked ==
    ASSUME NEW env, SelectEventBus(env).transport \in {"pubsub", "redpanda"}
    PROVE  AsksForBus(env)
BY DEF SelectEventBus, SelectByBrokers, SelectPubSub, Over, Disabled, Refused,
       AsksForBus, Given, KafkaWords, NoneWords, PubSubWords

\* producer_from_config, for every environment there is: only NoopProducer drops,
\* and it is in use only where nobody asked for a bus, or, which is the one
\* exception, where the client of the bus that was asked for could not be built.
THEOREM NothingAskedForIsDropped ==
    BusSpec => [](DropsOnlyWhatNobodyAskedFor /\ OnlyNoopDrops /\ BuiltAsAsked)
<1>1. BusInit => Silence
  BY DEF BusInit, Silence, OnlyNoopDrops, BuiltAsAsked
<1>2. ASSUME Silence, [BusNext]_busVars
      PROVE  Silence'
  <2> USE <1>2 DEF Silence, OnlyNoopDrops, BuiltAsAsked, wiring
  <2>1. CASE Wire
    <3>1. PICK env \in environment : Refuse(env) \/ Build(env)
      BY <2>1 DEF Wire
    <3>2. dropped = {} /\ dropped' = dropped
      BY <2>1 DEF Wire
    <3>3. CASE Refuse(env)
      BY <3>2, <3>3 DEF Refuse
    <3>4. CASE Build(env)
      <4>1. SelectEventBus(env).transport \in {"pubsub", "redpanda", "none"}
        BY <3>4 DEF Build, Boots, SelectEventBus, SelectByBrokers, SelectPubSub,
                    Over, Disabled, Refused
      <4>2. asked' = AsksForBus(env)
        BY <3>4 DEF Build
      <4>3. CASE bus' = SelectEventBus(env).transport
        BY <3>2, <4>1, <4>2, <4>3, NoneIsUnasked, BusIsAsked
      <4>4. CASE SelectEventBus(env).transport # "none" /\ bus' = "unbuilt"
        BY <3>2, <4>1, <4>2, <4>4, BusIsAsked
      <4> QED
        BY <3>4, <4>3, <4>4 DEF Build
    <3> QED
      BY <3>1, <3>3, <3>4
  <2>2. CASE Restart
    BY <2>2 DEF Restart
  <2>3. ASSUME NEW e \in Events, Drop(e)
        PROVE  Silence'
    BY <2>3 DEF Drop
  <2>4. CASE UNCHANGED <<wiring, dropped>>
    BY <2>4
  <2> QED
    BY <2>1, <2>2, <2>3, <2>4 DEF BusNext, busVars, Silent, OverPubSub, OverKafka
<1>3. Silence => DropsOnlyWhatNobodyAskedFor /\ OnlyNoopDrops /\ BuiltAsAsked
  BY DEF Silence, OnlyNoopDrops, BuiltAsAsked, DropsOnlyWhatNobodyAskedFor
<1> QED
  BY <1>1, <1>2, <1>3, PTL DEF BusSpec

-----------------------------------------------------------------------------
(* The settings.                                                            *)

LEMMA CeilingFollowsSetting ==
    ASSUME NEW size \in SizeSettings, SizeMb(size) > 0, size.kind # "unset"
    PROVE  /\ MaxDocumentBytes(size) \in {size.mb * BytesPerMb, MaxUsize}
           /\ size.mb > 0
<1>1. SizeMb(size) = size.mb
  BY DEF SizeMb, SizeSettings
<1> QED
  BY <1>1 DEF MaxDocumentBytes, Saturated

LEMMA TopicKept ==
    ASSUME NEW env \in EnvironmentType
    PROVE  TopicSurvivesTheMove(env)
<1> DEFINE moved == [env EXCEPT !.event_bus = "pubsub",
                                !.gcp_project_id = "given",
                                !.pubsub_topic = "absent"]
<1>1. /\ moved.event_bus = "pubsub" /\ moved.gcp_project_id = "given"
      /\ moved.pubsub_topic = "absent"
      /\ moved.redpanda_topic = env.redpanda_topic
  BY DEF EnvironmentType
<1> HIDE DEF moved
<1>2. SelectEventBus(moved).topic =
        FirstGiven("absent", env.redpanda_topic, DefaultTopic)
  BY <1>1 DEF SelectEventBus, SelectPubSub, Over, Given, PubSubWords
<1>3. SelectEventBus(env).transport = "redpanda" =>
        SelectEventBus(env).topic =
            FirstGiven(env.redpanda_topic, "absent", DefaultTopic)
  BY DEF SelectEventBus, SelectByBrokers, SelectPubSub, Over, Disabled, Refused
<1>4. FirstGiven("absent", env.redpanda_topic, DefaultTopic)
        = FirstGiven(env.redpanda_topic, "absent", DefaultTopic)
  BY DEF FirstGiven, Given
<1> QED
  BY <1>2, <1>3, <1>4 DEF TopicSurvivesTheMove, moved

\* Whatever the environment sets is in force once the service runs, or the
\* service does not run, for every environment there is.
THEOREM WhatIsSetAlwaysApplies == BusSpec => []WhatIsSetApplies
<1>1. ASSUME NEW env \in Environments, Boots(env)
      PROVE  /\ env.size.kind # "unset" =>
                  MaxDocumentBytes(env.size) \in {env.size.mb * BytesPerMb, MaxUsize}
                  /\ env.size.mb > 0
             /\ env.rsa_key # "absent" => Verifier(env) = "rsa"
             /\ Given(env.event_bus) =>
                  \/ SelectEventBus(env).transport = "pubsub" /\ env.event_bus \in PubSubWords
                  \/ SelectEventBus(env).transport = "redpanda" /\ env.event_bus \in KafkaWords
                  \/ SelectEventBus(env).transport = "none" /\ env.event_bus \in NoneWords
             /\ TopicSurvivesTheMove(env)
  <2>1. env \in EnvironmentType
    BY EventBusAssumption
  <2>2. env.size \in SizeSettings
    BY <2>1 DEF EnvironmentType
  <2>3. env.rsa_key # "absent" => Verifier(env) = "rsa"
    BY <1>1 DEF Boots, Verifier
  <2>4. Given(env.event_bus) =>
          \/ SelectEventBus(env).transport = "pubsub" /\ env.event_bus \in PubSubWords
          \/ SelectEventBus(env).transport = "redpanda" /\ env.event_bus \in KafkaWords
          \/ SelectEventBus(env).transport = "none" /\ env.event_bus \in NoneWords
    BY <1>1 DEF Boots, SelectEventBus, SelectByBrokers, SelectPubSub, Over, Disabled
  <2> QED
    BY <1>1, <2>1, <2>2, <2>3, <2>4, CeilingFollowsSetting, TopicKept DEF Boots
<1>2. WiringTypes => WhatIsSetApplies
  BY <1>1 DEF WiringTypes, WhatIsSetApplies
<1> QED
  BY <1>2, WiringTypesHold, PTL
=============================================================================
