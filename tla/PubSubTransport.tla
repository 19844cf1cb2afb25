--------------------------- MODULE PubSubTransport ---------------------------
(***************************************************************************)
(* events/pubsub.rs: one spawned task per event, each of which takes an    *)
(* access token from a cache the tasks share, or asks the metadata server  *)
(* for one, and POSTs the event to Pub/Sub.                                *)
(*                                                                         *)
(* Time is what remains of each interval: the time left before a request   *)
(* is given up, a token's remaining life and the remaining time the cache  *)
(* calls it good.  Tick passes one unit on all of them and never passes a  *)
(* deadline, so a timer that is due fires before time moves on.            *)
(***************************************************************************)
EXTENDS Naturals, Sequences, FiniteSets

CONSTANTS
    Events,
    Documents,
    Subject,        \* the document each event is about, its ordering key
    Timeout,        \* REQUEST_TIMEOUT: the client's, for each request
    Margin,         \* RENEW_MARGIN
    Lifetimes,      \* what the metadata server may say of a token: expires_in
    Faults          \* which failures may happen: a server's refusal, a stop

\* In the code the timeout is 10 s and the margin 60 s.
ASSUME TransportAssumption ==
    /\ Subject \in [Events -> Documents]
    /\ Timeout \in Nat \ {0}
    /\ Margin \in Nat /\ Margin >= 2 * Timeout
    /\ Lifetimes \subseteq Nat
    /\ Faults \subseteq {"refusal", "stop"}

VARIABLES
    auth,       \* PubSubAuth: where tokens come from, settled at the boot
    step,       \* how far each event has come
    left,       \* the time left to the open request of each task
    token,      \* the token each task was granted or presents
    cache,      \* the CachedToken
    handed,     \* the events in the order the service published them
    topic       \* the events in the order Pub/Sub accepted them

vars == <<auth, step, left, token, cache, handed, topic>>

\* A request is answered by its server (granted, accepted, refused) before
\* the answer reaches the task.  A POST its task has logged as failed, or left
\* behind as the process stopped, may still arrive: it is "strayed", "adrift".
Asking  == {"asking", "granted", "denied"}
Posting == {"posting", "accepted", "refused"}
Waiting == Asking \cup Posting
Active  == {"spawned"} \cup Waiting
Ended   == {"delivered", "logged", "strayed", "lost", "adrift"}
Steps   == {"unpublished"} \cup Active \cup Ended

\* said: the lifetime the metadata server stated; life: what remains of it;
\* from: whether the task found it in the cache.
Token(said, life, from) == [said |-> said, life |-> life, from |-> from]

NoToken == Token(0, 0, "none")

Init ==
    /\ auth \in {"metadata", "emulator"}
    /\ step = [e \in Events |-> "unpublished"]
    /\ left = [e \in Events |-> 0]
    /\ token = [e \in Events |-> NoToken]
    /\ cache = [life |-> 0, good |-> 0]
    /\ handed = <<>>
    /\ topic = <<>>

\* Broken variant: a subtraction that does not saturate.
MinusUnderflowing(a, b) == a - b

\* saturating_sub
Minus(a, b) == IF a > b THEN a - b ELSE 0

\* What one unit of time leaves of an interval.
Less(n) == IF n > 0 THEN n - 1 ELSE 0

Goto(e, s) == step' = [step EXCEPT ![e] = s]

\* The request of e is on its way, with a deadline of its own.
Sends(e, s) ==
    /\ Goto(e, s)
    /\ left' = [left EXCEPT ![e] = Timeout]

-----------------------------------------------------------------------------
\* publish: spawn and return Ok.
Publish(e) ==
    /\ step[e] = "unpublished"
    /\ Goto(e, "spawned")
    /\ handed' = Append(handed, e)
    /\ UNCHANGED <<auth, left, token, cache, topic>>

\* access_token finds a good token; the POST leaves with it at once.
UseCached(e) ==
    /\ auth = "metadata"
    /\ step[e] = "spawned"
    /\ cache.good > 0
    /\ Sends(e, "posting")
    /\ token' = [token EXCEPT ![e] = Token(0, cache.life, "cache")]
    /\ UNCHANGED <<auth, cache, handed, topic>>

\* The lock on the cache is released before the metadata server is asked, so
\* several tasks may ask at the same time.
Ask(e) ==
    /\ auth = "metadata"
    /\ step[e] = "spawned"
    /\ cache.good = 0
    /\ Sends(e, "asking")
    /\ UNCHANGED <<auth, token, cache, handed, topic>>

\* The emulator takes no credentials: the POST leaves without a token.
PostUnsigned(e) ==
    /\ auth = "emulator"
    /\ step[e] = "spawned"
    /\ Sends(e, "posting")
    /\ token' = [token EXCEPT ![e] = NoToken]
    /\ UNCHANGED <<auth, cache, handed, topic>>

\* The metadata server issues a token; what it says of its life is true then.
Issue(e) ==
    /\ step[e] = "asking"
    /\ \/ \E l \in Lifetimes :
            /\ Goto(e, "granted")
            /\ token' = [token EXCEPT ![e] = Token(l, l, "server")]
       \/ /\ "refusal" \in Faults
          /\ Goto(e, "denied")
          /\ UNCHANGED token
    /\ UNCHANGED <<auth, left, cache, handed, topic>>

\* Broken variant: the token is kept for as long as the server said.
KeepWithoutMargin(e) == cache' = [life |-> token[e].life, good |-> token[e].said]

\* The cache is overwritten, whatever another task put there meanwhile.
Keep(e) == cache' = [life |-> token[e].life,
                     good |-> Minus(token[e].said, Margin)]

ReceiveToken(e) ==
    /\ step[e] = "granted"
    /\ Keep(e)
    /\ Sends(e, "posting")
    /\ UNCHANGED <<auth, token, handed, topic>>

\* Pub/Sub accepts a message or refuses it.
Decide(e) ==
    /\ step[e] = "posting"
    /\ \/ /\ Goto(e, "accepted")
          /\ topic' = Append(topic, e)
       \/ /\ "refusal" \in Faults
          /\ Goto(e, "refused")
          /\ UNCHANGED topic
    /\ UNCHANGED <<auth, left, token, cache, handed>>

\* Broken variant: the status of Pub/Sub's answer is not looked at.
ReceiveUnchecked(e) ==
    /\ \/ step[e] \in {"accepted", "refused"} /\ Goto(e, "delivered")
       \/ step[e] = "denied" /\ Goto(e, "logged")
    /\ token' = [token EXCEPT ![e] = NoToken]
    /\ left' = [left EXCEPT ![e] = 0]
    /\ UNCHANGED <<auth, cache, handed, topic>>

\* publish_once returns Ok, or an Err which the task logs.
Receive(e) ==
    /\ \/ step[e] = "accepted" /\ Goto(e, "delivered")
       \/ step[e] \in {"denied", "refused"} /\ Goto(e, "logged")
    /\ token' = [token EXCEPT ![e] = NoToken]
    /\ left' = [left EXCEPT ![e] = 0]
    /\ UNCHANGED <<auth, cache, handed, topic>>

\* Broken variant: a client built without its timeout.
GiveUpNever(e) == FALSE /\ UNCHANGED vars

\* The client's timeout, on either request; logged like any other failure.
GiveUp(e) ==
    /\ step[e] \in Waiting
    /\ left[e] = 0
    /\ Goto(e, IF step[e] = "posting" THEN "strayed" ELSE "logged")
    /\ token' = [token EXCEPT ![e] = NoToken]
    /\ UNCHANGED <<auth, left, cache, handed, topic>>

\* A POST nobody waits for is accepted after all.
AcceptStray(e) ==
    /\ \/ step[e] = "strayed" /\ Goto(e, "logged")
       \/ step[e] = "adrift" /\ Goto(e, "lost")
    /\ topic' = Append(topic, e)
    /\ UNCHANGED <<auth, left, token, cache, handed>>

\* The process stops and takes its tasks with it.
Stop ==
    /\ "stop" \in Faults
    /\ \E e \in Events : step[e] \in Active
    /\ step' = [e \in Events |-> IF step[e] = "posting" THEN "adrift"
                                 ELSE IF step[e] \in Active THEN "lost"
                                 ELSE step[e]]
    /\ left' = [e \in Events |-> 0]
    /\ token' = [e \in Events |-> NoToken]
    /\ cache' = [life |-> 0, good |-> 0]
    /\ UNCHANGED <<auth, handed, topic>>

-----------------------------------------------------------------------------
\* One unit of time, unless a timer is due.
Tick ==
    /\ \A e \in Events : step[e] \in Waiting => left[e] > 0
    /\ left' = [e \in Events |-> Less(left[e])]
    /\ token' = [e \in Events |->
                  Token(token[e].said, Less(token[e].life), token[e].from)]
    /\ cache' = [life |-> Less(cache.life), good |-> Less(cache.good)]
    /\ UNCHANGED <<auth, step, handed, topic>>

\* What the runtime owes each task: to start it, and to hand it an answer or
\* its timeout.
Runs(e) ==
    \/ UseCached(e) \/ Ask(e) \/ PostUnsigned(e)
    \/ ReceiveToken(e) \/ Receive(e) \/ GiveUp(e)

\* What the two servers may do, or not.
Serves(e) == Issue(e) \/ Decide(e) \/ AcceptStray(e)

Next ==
    \/ \E e \in Events : Publish(e) \/ Runs(e) \/ Serves(e)
    \/ Stop
    \/ Tick

Spec == Init /\ [][Next]_vars

\* Time passes and tokio polls its tasks; neither server ever has to answer.
FairSpec == Spec /\ WF_vars(Tick) /\ \A e \in Events : WF_vars(Runs(e))

-----------------------------------------------------------------------------
\* Every variable keeps its type.
TypeOK ==
    /\ auth \in {"metadata", "emulator"}
    /\ step \in [Events -> Steps]
    /\ left \in [Events -> 0..Timeout]
    /\ token \in [Events -> [said: Nat, life: Nat, from: {"none", "cache", "server"}]]
    /\ cache \in [life: Nat, good: Nat]
    /\ handed \in Seq(Events)
    /\ topic \in Seq(Events)

\* "so a token never expires mid-flight" (RENEW_MARGIN): whatever tasks filled
\* the cache in whatever order, a token taken from it lives longer than the
\* POST that carries it can take; and so does a fresh one of some length.
NeverExpiresMidFlight ==
    \A e \in Events :
        step[e] \in Posting
        /\ (token[e].from = "cache" \/ token[e].said > 2 * Timeout)
        => token[e].life > 0

\* Why it never expires: the times left, related.  A granted token has lost
\* what has passed since the metadata server spoke, which is no more than the
\* request has used up; the cache stops calling a token good while it still
\* has one request's timeout to live.
TokensOutlastRequests ==
    /\ \A e \in Events :
         /\ step[e] = "granted" =>
              /\ token[e].from = "server"
              /\ token[e].said + left[e] <= token[e].life + Timeout
         /\ step[e] \in Posting
            /\ (token[e].from = "cache" \/ token[e].said > 2 * Timeout)
            => token[e].life > left[e]
    /\ cache.good > 0 => cache.good + Margin <= cache.life + Timeout

\* What the process knows of each event, and what the bus has.
FateOf(s) ==
    CASE s = "unpublished"           -> "unpublished"
      [] s \in Active                -> "pending"
      [] s = "delivered"             -> "delivered"
      [] s \in {"logged", "strayed"} -> "logged"
      [] s \in {"lost", "adrift"}    -> "lost"

Fate == [e \in Events |-> FateOf(step[e])]

OnTopic == {topic[i] : i \in DOMAIN topic}

\* No event is dropped in silence: what a task reports as delivered is on the
\* topic, and what is not on the topic is logged.
Promise == INSTANCE EventDelivery WITH fate <- Fate, arrived <- OnTopic

DeliversOrLogs == Promise!Spec

\* "a bus that stops answering must degrade into logged failures, never into
\* tasks that accumulate" (REQUEST_TIMEOUT).
EveryTaskEnds == \A e \in Events : step[e] = "spawned" ~> step[e] \in Ended

\* PubSubMessage: "The partitioning value — the document id, so a document's
\* events keep their order."
DocumentsKeepTheirOrder ==
    \A i, j \in DOMAIN topic : i < j /\ Subject[topic[i]] = Subject[topic[j]] =>
        \E k, m \in DOMAIN handed :
            k < m /\ handed[k] = topic[i] /\ handed[m] = topic[j]
=============================================================================
