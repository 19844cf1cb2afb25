------------------------------ MODULE MCEventBus ------------------------------
(* An instance of EventBus small enough for TLC. *)
EXTENDS EventBus, TLC

CONSTANTS e1, e2, e3, d1

\* All the events of a run are about one document.
OneDocument == [e \in Events |-> d1]

Usual == [event_bus |-> "absent", redpanda_brokers |-> "absent",
          redpanda_topic |-> "absent", pubsub_topic |-> "absent",
          gcp_project_id |-> "absent", emulator_host |-> "absent",
          size |-> SizeSetting("unset", 0), rsa_key |-> "pem",
          allow_hs256 |-> "absent", jwt_secret |-> "absent",
          database_url |-> "given", server_port |-> "absent"]

Settings == {"absent", "blank", "given"}

\* Every way to choose a bus, the rest being as usual.
BusEnvironments ==
    {[Usual EXCEPT !.event_bus = w, !.redpanda_brokers = b, !.gcp_project_id = p,
                   !.redpanda_topic = rt, !.pubsub_topic = pt] :
        w \in {"absent", "blank", "google-pubsub", "kafka", "off", "kinesis"},
        b \in Settings, p \in Settings,
        rt \in {"absent", "blank", "records"}, pt \in {"absent", "blank", "messages"}}

Emulated == [Usual EXCEPT !.event_bus = "pubsub", !.gcp_project_id = "given",
                          !.emulator_host = "given"]

\* Every way to set the rest, without a bus.
OtherEnvironments ==
    {[Usual EXCEPT !.size = s, !.rsa_key = k, !.allow_hs256 = a, !.jwt_secret = j,
                   !.database_url = d, !.server_port = sp] :
        s \in {SizeSetting("unset", 0), SizeSetting("garbled", 0)}
              \cup {SizeSetting("number", n) : n \in {0, 1, 7, 8, 9}},
        k \in {"absent", "pem", "garbled"}, a \in {"absent", "true", "yes"},
        j \in {"absent", "given"}, d \in {"absent", "given"},
        sp \in {"absent", "garbled"}}

AllEnvironments == BusEnvironments \cup OtherEnvironments \cup {Emulated}
=============================================================================
