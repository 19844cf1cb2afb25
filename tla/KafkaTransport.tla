---------------------------- MODULE KafkaTransport ----------------------------
(***************************************************************************)
(* RedpandaProducer: an event goes into librdkafka's bounded queue, or is  *)
(* refused on the spot; a task of its own waits for the delivery report    *)
(* and logs a failure.  The producer is configured without idempotence, so *)
(* a request that fails is sent again and may be appended twice.           *)
(***************************************************************************)
EXTENDS Naturals, FiniteSets

CONSTANTS
    Events,
    QueueLimit,     \* queue.buffering.max.messages
    Timeout,        \* message.timeout.ms
    Retries,        \* bound: how often the model sends one message again
    Faults          \* which failures may happen: a request's, a refusal, a stop

\* In the code the queue holds 100000 messages for 10 s.
KafkaAssumption ==
    /\ QueueLimit \in Nat \ {0} /\ Timeout \in Nat \ {0} /\ Retries \in Nat
    /\ Faults \subseteq {"request", "refusal", "stop"}

VARIABLES
    step,       \* how far each event has come
    left,       \* the time left to each message in librdkafka's hands
    retries,    \* how often each has been sent again
    log         \* the messages the broker has appended, some more than once

vars == <<step, left, retries, log>>

\* A message is in flight until the broker appends it, and then until its
\* acknowledgement arrives.  One given up in flight may still be appended.
Held  == {"queued", "inflight", "appended"}
Ended == {"delivered", "logged", "strayed", "lost", "adrift"}
Steps == {"unpublished"} \cup Held \cup Ended

Init ==
    /\ step = [e \in Events |-> "unpublished"]
    /\ left = [e \in Events |-> 0]
    /\ retries = [e \in Events |-> 0]
    /\ log = {}

Goto(e, s) == step' = [step EXCEPT ![e] = s]

Backlog == {e \in Events : step[e] \in Held}

\* Broken variant: a full queue is answered Ok and the event forgotten.
PublishSilently(e) ==
    /\ step[e] = "unpublished"
    /\ \/ /\ Cardinality(Backlog) < QueueLimit
          /\ Goto(e, "queued")
          /\ left' = [left EXCEPT ![e] = Timeout]
       \/ /\ Cardinality(Backlog) >= QueueLimit
          /\ Goto(e, "delivered")
          /\ UNCHANGED left
    /\ UNCHANGED <<retries, log>>

\* send_result enqueues, or returns the error which the service logs.
Publish(e) ==
    /\ step[e] = "unpublished"
    /\ \/ /\ Cardinality(Backlog) < QueueLimit
          /\ Goto(e, "queued")
          /\ left' = [left EXCEPT ![e] = Timeout]
       \/ /\ Cardinality(Backlog) >= QueueLimit
          /\ Goto(e, "logged")
          /\ UNCHANGED left
    /\ UNCHANGED <<retries, log>>

-----------------------------------------------------------------------------
(* librdkafka and the broker.                                              *)

\* Messages leave the queue without waiting for the ones before them to be
\* acknowledged.
Transmit(e) ==
    /\ step[e] = "queued"
    /\ Goto(e, "inflight")
    /\ UNCHANGED <<left, retries, log>>

AppendMessage(e) ==
    /\ \/ step[e] = "inflight" /\ Goto(e, "appended")
       \/ step[e] = "strayed" /\ Goto(e, "logged")
       \/ step[e] = "adrift" /\ Goto(e, "lost")
    /\ log' = log \cup {e}
    /\ UNCHANGED <<left, retries>>

\* The request or its acknowledgement is lost; the message is queued again.
Retry(e) ==
    /\ "request" \in Faults
    /\ step[e] \in {"inflight", "appended"}
    /\ retries[e] < Retries
    /\ retries' = [retries EXCEPT ![e] = @ + 1]
    /\ Goto(e, "queued")
    /\ UNCHANGED <<left, log>>

-----------------------------------------------------------------------------
\* Broken variant: a message without message.timeout.ms.
ReportAnswersOnly(e) ==
    /\ \/ step[e] = "appended" /\ Goto(e, "delivered")
       \/ /\ "refusal" \in Faults
          /\ step[e] = "inflight" /\ Goto(e, "logged")
    /\ left' = [left EXCEPT ![e] = 0]
    /\ UNCHANGED <<retries, log>>

\* The delivery report: Ok, a refusal, or the message's timeout.
Report(e) ==
    /\ \/ step[e] = "appended" /\ Goto(e, "delivered")
       \/ /\ "refusal" \in Faults
          /\ step[e] = "inflight" /\ Goto(e, "logged")
       \/ /\ left[e] = 0
          /\ \/ step[e] \in {"queued", "appended"} /\ Goto(e, "logged")
             \/ step[e] = "inflight" /\ Goto(e, "strayed")
    /\ left' = [left EXCEPT ![e] = 0]
    /\ UNCHANGED <<retries, log>>

Stop ==
    /\ "stop" \in Faults
    /\ Backlog # {}
    /\ step' = [e \in Events |-> IF step[e] = "inflight" THEN "adrift"
                                 ELSE IF step[e] \in Held THEN "lost"
                                 ELSE step[e]]
    /\ left' = [e \in Events |-> 0]
    /\ UNCHANGED <<retries, log>>

Tick ==
    /\ \A e \in Backlog : left[e] > 0
    /\ left' = [e \in Events |-> IF left[e] > 0 THEN left[e] - 1 ELSE 0]
    /\ UNCHANGED <<step, retries, log>>

Next ==
    \/ \E e \in Events :
         Publish(e) \/ Transmit(e) \/ AppendMessage(e) \/ Retry(e) \/ Report(e)
    \/ Stop
    \/ Tick

Spec == Init /\ [][Next]_vars

\* Time passes and librdkafka delivers its reports; the broker owes nothing.
FairSpec == Spec /\ WF_vars(Tick) /\ \A e \in Events : WF_vars(Report(e))

-----------------------------------------------------------------------------
\* Every variable keeps its type.
TypeOK ==
    /\ step \in [Events -> Steps]
    /\ left \in [Events -> 0..Timeout]
    /\ retries \in [Events -> 0..Retries]
    /\ log \subseteq Events

FateOf(s) ==
    CASE s = "unpublished"           -> "unpublished"
      [] s \in Held                  -> "pending"
      [] s = "delivered"             -> "delivered"
      [] s \in {"logged", "strayed"} -> "logged"
      [] s \in {"lost", "adrift"}    -> "lost"

\* No event is dropped in silence, a full queue and an expired message
\* included: what is reported as delivered is in the log, the rest is logged.
Promise == INSTANCE EventDelivery
           WITH fate    <- [e \in Events |-> FateOf(step[e])],
                arrived <- log

DeliversOrLogs == Promise!Spec

\* An outage of the broker never leaves a message in memory for good: the
\* backlog drains into logged failures.
EveryMessageEnds == \A e \in Events : step[e] = "queued" ~> step[e] \in Ended
=============================================================================
