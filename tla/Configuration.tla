---------------------------- MODULE Configuration ----------------------------
(***************************************************************************)
(* config.rs and what main.rs makes of it: the environment is read once,   *)
(* before anything runs.  A choice the service cannot honour ends the boot *)
(* instead of being replaced by another one.                               *)
(*                                                                         *)
(* A variable of the environment is "absent", "blank" (nothing is left of  *)
(* it once trimmed) or a word; what is not Unicode is absent.  Words are   *)
(* compared without regard to case.                                        *)
(***************************************************************************)
EXTENDS Naturals

CONSTANTS
    MaxUsize,       \* usize::MAX
    BytesPerMb      \* BYTES_PER_MB

ASSUME ConfigurationAssumption ==
    /\ MaxUsize \in Nat
    /\ BytesPerMb \in Nat \ {0}

DefaultTopic  == "editor-events"
DefaultSizeMb == 2

Given(v) == v \notin {"absent", "blank"}

FirstGiven(v, w, default) ==
    IF Given(v) THEN v ELSE IF Given(w) THEN w ELSE default

-----------------------------------------------------------------------------
(* The bus.                                                                 *)

PubSubWords == {"pubsub", "pub/sub", "google-pubsub"}
KafkaWords  == {"redpanda", "kafka"}
NoneWords   == {"none", "noop", "off"}

\* EventBus: a transport and the topic it publishes to.
Over(transport, topic_name) == [transport |-> transport, topic |-> topic_name]
Disabled == Over("none", "none")
Refused  == Over("refused", "none")

\* Without an explicit choice the brokers select; as the only way to choose, a
\* broken variant: the code until ADR-011.
SelectByBrokers(env) ==
    IF Given(env.redpanda_brokers)
    THEN Over("redpanda", FirstGiven(env.redpanda_topic, "absent", DefaultTopic))
    ELSE Disabled

\* Broken variant: each transport falls back to a topic of its own.
SelectWithOwnTopics(env) ==
    IF env.event_bus \in PubSubWords /\ Given(env.gcp_project_id)
    THEN Over("pubsub", FirstGiven(env.pubsub_topic, "absent", DefaultTopic))
    ELSE SelectByBrokers(env)

SelectPubSub(env) ==
    IF Given(env.gcp_project_id)
    THEN Over("pubsub",
              FirstGiven(env.pubsub_topic, env.redpanda_topic, DefaultTopic))
    ELSE Refused

SelectEventBus(env) ==
    IF ~Given(env.event_bus) THEN SelectByBrokers(env)
    ELSE IF env.event_bus \in PubSubWords THEN SelectPubSub(env)
    ELSE IF env.event_bus \in NoneWords THEN Disabled
    ELSE IF env.event_bus \in KafkaWords /\ Given(env.redpanda_brokers)
         THEN SelectByBrokers(env)
    ELSE Refused

\* endpoints_from_env: where tokens come from.
Credentials(env) == IF Given(env.emulator_host) THEN "emulator" ELSE "metadata"

-----------------------------------------------------------------------------
(* The document ceiling.                                                    *)

\* MAX_DOCUMENT_SIZE_MB: absent or blank, a number that fits a usize, or
\* anything else.
SizeSetting(kind, mb) == [kind |-> kind, mb |-> mb]
SizeSettings == [kind : {"unset", "number", "garbled"}, mb : Nat]

\* parse_max_document_size_mb; zero stands for its refusal.
\* Broken variant: parse().unwrap_or(default).
SizeMbOrDefault(size) ==
    IF size.kind = "number" /\ size.mb > 0 THEN size.mb ELSE DefaultSizeMb

SizeMb(size) ==
    IF size.kind = "unset" THEN DefaultSizeMb
    ELSE IF size.kind = "number" THEN size.mb ELSE 0

\* saturating_mul, saturating_add
Saturated(n) == IF n > MaxUsize THEN MaxUsize ELSE n

\* Broken variant: a plain product, which wraps on a release build.
MaxDocumentBytesWrapping(size) == (SizeMb(size) * BytesPerMb) % (MaxUsize + 1)

MaxDocumentBytes(size) == Saturated(SizeMb(size) * BytesPerMb)

-----------------------------------------------------------------------------
(* The key that tokens are verified with.                                   *)

\* Broken variant: a key that cannot be used falls back to the other kind.
VerifierFallingBack(env) ==
    IF env.rsa_key = "pem" THEN "rsa"
    ELSE IF env.allow_hs256 \in {"true", "1"} /\ env.jwt_secret # "absent" THEN "hs256"
    ELSE "refused"

\* build_jwt_config
Verifier(env) ==
    IF env.rsa_key = "pem" THEN "rsa"
    ELSE IF /\ env.rsa_key = "absent" /\ env.allow_hs256 \in {"true", "1"}
            /\ env.jwt_secret # "absent"
    THEN "hs256" ELSE "refused"

\* What is read of the environment.
EnvironmentType ==
    [event_bus : STRING, redpanda_brokers : STRING, redpanda_topic : STRING,
     pubsub_topic : STRING, gcp_project_id : STRING, emulator_host : STRING,
     size : SizeSettings, rsa_key : STRING, allow_hs256 : STRING,
     jwt_secret : STRING, database_url : STRING, server_port : STRING]

\* AppConfig::from_env and build_jwt_config, each of which may panic.
Boots(env) ==
    /\ env.database_url # "absent"
    /\ env.server_port # "garbled"
    /\ SelectEventBus(env) # Refused
    /\ SizeMb(env.size) > 0
    /\ Verifier(env) # "refused"
=============================================================================
