------------------------ MODULE PubSubTransportProofs ------------------------
(* That no token expires under a request, and that every event is accounted *)
(* for, for any number of events and any timeout and margin.                *)
EXTENDS PubSubTransport, TLAPS

\* The invariant of the transport's clocks.
Clocks == TypeOK /\ TokensOutlastRequests

\* Saturating subtraction stays within the naturals.
LEMMA MinusIsNat ==
    ASSUME NEW a \in Nat, NEW b \in Nat
    PROVE  Minus(a, b) \in Nat /\ Minus(a, b) <= a
BY DEF Minus

LEMMA ClocksAtFirst == Init => Clocks
BY TransportAssumption
DEF Init, Clocks, TypeOK, TokensOutlastRequests, NoToken, Token, Steps, Active,
    Waiting, Asking, Posting, Ended

\* The steps of one task, and the servers' answers to it, keep the clocks.
LEMMA TaskKeepsClocks ==
    ASSUME Clocks, NEW e \in Events,
           Publish(e) \/ Runs(e) \/ Serves(e)
    PROVE  Clocks'
<1> USE TransportAssumption DEF Clocks, TypeOK, TokensOutlastRequests, NoToken,
        Token, Steps, Active, Waiting, Asking, Posting, Ended, Goto, Sends
<1>1. CASE Publish(e)
  BY <1>1 DEF Publish
<1>2. CASE UseCached(e)
  BY <1>2 DEF UseCached
<1>3. CASE Ask(e)
  BY <1>3 DEF Ask
<1>10. CASE PostUnsigned(e)
  <2>1. token'[e].from = "none" /\ ~(token'[e].said > 2 * Timeout)
    BY <1>10 DEF PostUnsigned
  <2> QED
    BY <1>10, <2>1 DEF PostUnsigned
<1>4. CASE ReceiveToken(e)
  <2>1. /\ step' = [step EXCEPT ![e] = "posting"]
        /\ left' = [left EXCEPT ![e] = Timeout]
        /\ UNCHANGED <<auth, token, handed, topic>>
    BY <1>4 DEF ReceiveToken
  <2>2. /\ token[e].said \in Nat /\ token[e].life \in Nat
        /\ left[e] \in 0..Timeout /\ Timeout \in Nat /\ Margin \in Nat
    OBVIOUS
  <2>3. token[e].said + left[e] <= token[e].life + Timeout
    BY <1>4 DEF ReceiveToken
  <2>4. /\ cache' \in [life: Nat, good: Nat]
        /\ cache'.life = token[e].life
        /\ cache'.good = Minus(token[e].said, Margin)
    BY <1>4, <2>2, MinusIsNat DEF ReceiveToken, Keep
  <2>5. TypeOK'
    BY <2>1, <2>4
  <2>6. cache'.good > 0 => cache'.good + Margin <= cache'.life + Timeout
    BY <2>2, <2>3, <2>4 DEF Minus
  <2>7. token[e].from = "server"
    BY <1>4 DEF ReceiveToken
  <2>8. step'[e] = "posting" /\ left'[e] = Timeout /\ token' = token
    BY <2>1
  <2>9. token'[e].said > 2 * Timeout => token'[e].life > left'[e]
    BY <2>2, <2>3, <2>8
  <2>10. \A f \in Events \ {e} : step'[f] = step[f] /\ left'[f] = left[f]
    BY <2>1
  <2>11. TokensOutlastRequests'
    BY <2>6, <2>7, <2>8, <2>9, <2>10
  <2> QED
    BY <2>5, <2>11
<1>5. CASE Receive(e)
  <2>1. step' \in [Events -> Steps] /\ left' \in [Events -> 0..Timeout]
    <3>1. CASE step' = [step EXCEPT ![e] = "delivered"]
      BY <1>5, <3>1 DEF Receive
    <3>2. CASE step' = [step EXCEPT ![e] = "logged"]
      BY <1>5, <3>2 DEF Receive
    <3> QED
      BY <1>5, <3>1, <3>2 DEF Receive
  <2>2. token' \in [Events -> [said: Nat, life: Nat, from: {"none", "cache", "server"}]]
    BY <1>5 DEF Receive
  <2>3. \A f \in Events \ {e} :
          step'[f] = step[f] /\ token'[f] = token[f] /\ left'[f] = left[f]
    BY <1>5 DEF Receive
  <2>4. step'[e] \notin Posting \cup {"granted"}
    BY <1>5 DEF Receive
  <2>5. UNCHANGED <<auth, cache, handed, topic>>
    BY <1>5 DEF Receive
  <2>6. TypeOK'
    BY <2>1, <2>2, <2>5
  <2>7. TokensOutlastRequests'
    BY <2>3, <2>4, <2>5
  <2> QED
    BY <2>6, <2>7
<1>6. CASE GiveUp(e)
  <2>1. step' \in [Events -> Steps] /\ left' \in [Events -> 0..Timeout]
    BY <1>6 DEF GiveUp
  <2>2. token' \in [Events -> [said: Nat, life: Nat, from: {"none", "cache", "server"}]]
    BY <1>6 DEF GiveUp
  <2>3. \A f \in Events \ {e} :
          step'[f] = step[f] /\ token'[f] = token[f] /\ left'[f] = left[f]
    BY <1>6 DEF GiveUp
  <2>4. step'[e] \notin Posting \cup {"granted"}
    BY <1>6 DEF GiveUp
  <2>5. UNCHANGED <<auth, cache, handed, topic>>
    BY <1>6 DEF GiveUp
  <2>6. TypeOK'
    BY <2>1, <2>2, <2>5
  <2>7. TokensOutlastRequests'
    BY <2>3, <2>4, <2>5
  <2> QED
    BY <2>6, <2>7
<1>7. CASE Issue(e)
  <2>1. step' \in [Events -> Steps]
    BY <1>7 DEF Issue
  <2>2. token' \in [Events -> [said: Nat, life: Nat, from: {"none", "cache", "server"}]]
    <3>1. CASE UNCHANGED token
      BY <3>1
    <3>2. CASE \E l \in Lifetimes : token' = [token EXCEPT ![e] = Token(l, l, "server")]
      BY <3>2
    <3> QED
      BY <1>7, <3>1, <3>2 DEF Issue
  <2>3. \A f \in Events \ {e} : step'[f] = step[f] /\ token'[f] = token[f]
    BY <1>7 DEF Issue
  <2>4. step'[e] = "granted" => /\ token'[e].from = "server"
                                 /\ token'[e].said = token'[e].life
    <3>1. CASE step' = [step EXCEPT ![e] = "denied"]
      BY <3>1
    <3>2. CASE \E l \in Lifetimes : token' = [token EXCEPT ![e] = Token(l, l, "server")]
      BY <3>2
    <3> QED
      BY <1>7, <3>1, <3>2 DEF Issue
  <2>5. UNCHANGED <<auth, left, cache, handed, topic>>
    BY <1>7 DEF Issue
  <2>6. step'[e] \notin Posting
    BY <1>7 DEF Issue
  <2>7. TypeOK'
    BY <2>1, <2>2, <2>5
  <2>8. TokensOutlastRequests'
    <3>1. \A f \in Events : step'[f] = "granted" =>
             /\ token'[f].from = "server"
             /\ token'[f].said + left'[f] <= token'[f].life + Timeout
      <4>1. token'[e].said \in Nat /\ left[e] \in 0..Timeout /\ Timeout \in Nat
        BY <2>2
      <4>2. step'[e] = "granted" =>
               /\ token'[e].from = "server"
               /\ token'[e].said + left'[e] <= token'[e].life + Timeout
        BY <2>4, <2>5, <4>1
      <4> QED
        BY <2>3, <2>5, <4>2
    <3>2. \A f \in Events :
             step'[f] \in Posting /\ (token'[f].from = "cache"
                                     \/ token'[f].said > 2 * Timeout)
             => token'[f].life > left'[f]
      BY <2>3, <2>5, <2>6
    <3> QED
      BY <2>5, <3>1, <3>2
  <2> QED
    BY <2>7, <2>8
<1>8. CASE Decide(e)
  <2>1. topic' \in Seq(Events)
    <3>1. topic \in Seq(Events) /\ topic' \in {topic, Append(topic, e)}
      BY <1>8 DEF Decide
    <3>2. Append(topic, e) \in Seq(Events)
      BY <3>1
    <3> QED
      BY <3>1, <3>2
  <2>2. step' \in [Events -> Steps]
    BY <1>8 DEF Decide
  <2>3. TypeOK'
    BY <1>8, <2>1, <2>2 DEF Decide
  <2>4. \A f \in Events :
          /\ step'[f] = "granted" => step[f] = "granted"
          /\ step'[f] \in Posting => step[f] \in Posting
    BY <1>8 DEF Decide
  <2>5. TokensOutlastRequests'
    BY <1>8, <2>4 DEF Decide
  <2> QED
    BY <2>3, <2>5
<1>9. CASE AcceptStray(e)
  <2>1. topic' \in Seq(Events)
    BY <1>9 DEF AcceptStray
  <2>2. step' \in [Events -> Steps]
    BY <1>9 DEF AcceptStray
  <2>3. TypeOK'
    BY <1>9, <2>1, <2>2 DEF AcceptStray
  <2>4. \A f \in Events :
          /\ step'[f] = "granted" => step[f] = "granted"
          /\ step'[f] \in Posting => step[f] \in Posting
    BY <1>9 DEF AcceptStray
  <2>5. TokensOutlastRequests'
    BY <1>9, <2>4 DEF AcceptStray
  <2> QED
    BY <2>3, <2>5
<1> QED
  BY <1>1, <1>2, <1>3, <1>4, <1>5, <1>6, <1>7, <1>8, <1>9, <1>10 DEF Runs, Serves

\* So does the process's stop, which leaves no request and no token.
LEMMA StopKeepsClocks ==
    ASSUME Clocks, Stop
    PROVE  Clocks'
<1> USE TransportAssumption DEF Clocks, TypeOK, TokensOutlastRequests, NoToken,
        Token, Steps, Active, Waiting, Asking, Posting, Ended
<1>1. step' \in [Events -> Steps]
  BY DEF Stop
<1>2. TypeOK'
  BY <1>1 DEF Stop
<1>3. \A f \in Events : step'[f] \notin Posting \cup {"granted"}
  BY DEF Stop
<1>4. TokensOutlastRequests'
  BY <1>3 DEF Stop
<1> QED
  BY <1>2, <1>4

\* A unit of time takes as much from a token as from the request it serves.
LEMMA TickKeepsClocks ==
    ASSUME Clocks, Tick
    PROVE  Clocks'
<1> USE TransportAssumption DEF Clocks
<1>1. \A f \in Events :
        /\ left'[f] = Less(left[f])
        /\ token'[f].said = token[f].said
        /\ token'[f].life = Less(token[f].life)
        /\ token'[f].from = token[f].from
        /\ step'[f] = step[f]
  BY DEF Tick, TypeOK, Token
<1>2. TypeOK'
  <2>1. left' \in [Events -> 0..Timeout]
    BY DEF Tick, TypeOK, Less
  <2>2. token' \in [Events -> [said: Nat, life: Nat, from: {"none", "cache", "server"}]]
    BY DEF Tick, TypeOK, Token, Less
  <2>3. cache' \in [life: Nat, good: Nat]
    BY DEF Tick, TypeOK, Less
  <2> QED
    BY <2>1, <2>2, <2>3 DEF Tick, TypeOK
<1>3. cache'.good > 0 => cache'.good + Margin <= cache'.life + Timeout
  BY DEF Tick, TypeOK, TokensOutlastRequests, Less
<1>4. ASSUME NEW f \in Events, step'[f] = "granted"
      PROVE  /\ token'[f].from = "server"
             /\ token'[f].said + left'[f] <= token'[f].life + Timeout
  <2>1. left[f] > 0
    BY <1>1, <1>4 DEF Tick, Waiting, Asking
  <2>2. /\ token[f].from = "server"
        /\ token[f].said + left[f] <= token[f].life + Timeout
    BY <1>1, <1>4 DEF TokensOutlastRequests
  <2>3. /\ left[f] \in Nat /\ Timeout \in Nat
        /\ token[f].said \in Nat /\ token[f].life \in Nat
    BY DEF TypeOK
  <2>4. /\ left'[f] = left[f] - 1
        /\ token'[f].said = token[f].said
        /\ token'[f].life >= token[f].life - 1
    BY <1>1, <2>1, <2>3 DEF Less
  <2>5. left'[f] \in Nat /\ token'[f].life \in Nat
    BY <1>2 DEF TypeOK
  <2> QED
    BY <1>1, <2>2, <2>3, <2>4, <2>5
<1>5. ASSUME NEW f \in Events, step'[f] \in Posting,
             token'[f].from = "cache" \/ token'[f].said > 2 * Timeout
      PROVE  token'[f].life > left'[f]
  <2>1. left[f] > 0
    BY <1>1, <1>5 DEF Tick, Waiting
  <2>2. token[f].from = "cache" \/ token[f].said > 2 * Timeout
    BY <1>1, <1>5
  <2>3. token[f].life > left[f]
    BY <1>1, <1>5, <2>2 DEF TokensOutlastRequests
  <2>4. left[f] \in Nat /\ token[f].life \in Nat
    BY DEF TypeOK
  <2>5. left'[f] = left[f] - 1 /\ token'[f].life = token[f].life - 1
    BY <1>1, <2>1, <2>3, <2>4 DEF Less
  <2> QED
    BY <2>3, <2>4, <2>5
<1> QED
  BY <1>2, <1>3, <1>4, <1>5 DEF TokensOutlastRequests

LEMMA NextKeepsClocks == Clocks /\ [Next]_vars => Clocks'
<1> SUFFICES ASSUME Clocks, [Next]_vars
             PROVE  Clocks'
  OBVIOUS
<1>1. CASE UNCHANGED vars
  BY <1>1 DEF vars, Clocks, TypeOK, TokensOutlastRequests
<1>2. CASE Stop
  BY <1>2, StopKeepsClocks
<1>3. CASE Tick
  BY <1>3, TickKeepsClocks
<1>4. ASSUME NEW e \in Events, Publish(e) \/ Runs(e) \/ Serves(e)
      PROVE  Clocks'
  BY <1>4, TaskKeepsClocks
<1> QED
  BY <1>1, <1>2, <1>3, <1>4 DEF Next

LEMMA AlwaysClocks == Spec => []Clocks
BY ClocksAtFirst, NextKeepsClocks, PTL DEF Spec

\* Every reachable state of the transport is well typed.
THEOREM TransportTypeCorrect == Spec => []TypeOK
<1>1. Clocks => TypeOK
  BY DEF Clocks
<1> QED
  BY <1>1, AlwaysClocks, PTL

\* The cache never hands out a token that a request started now could
\* outlive: whatever the metadata server answered and however late, the time
\* the cached token is trusted ends a request timeout before its life does.
THEOREM TokensAlwaysOutlastRequests == Spec => []TokensOutlastRequests
<1>1. Clocks => TokensOutlastRequests
  BY DEF Clocks
<1> QED
  BY <1>1, AlwaysClocks, PTL

\* "so a token never expires mid-flight": with a margin of two request
\* timeouts (the code has six) no POST carries a token of the cache past the
\* token's life, however many tasks fill and use the cache at the same time.
THEOREM TokensNeverExpireMidFlight == Spec => []NeverExpiresMidFlight
<1>1. Clocks => NeverExpiresMidFlight
  BY DEF Clocks, TypeOK, TokensOutlastRequests, NeverExpiresMidFlight
<1> QED
  BY <1>1, AlwaysClocks, PTL

-----------------------------------------------------------------------------
(* The transport keeps the promise of EventDelivery.                        *)

\* What Pub/Sub has answered with success is on the topic.
AcceptedOnTopic == \A e \in Events : step[e] = "accepted" => e \in OnTopic

LEMMA FateOfSteps ==
    /\ FateOf("unpublished") = "unpublished"
    /\ \A s \in Active : FateOf(s) = "pending"
    /\ FateOf("delivered") = "delivered"
    /\ FateOf("logged") = "logged" /\ FateOf("strayed") = "logged"
    /\ FateOf("lost") = "lost" /\ FateOf("adrift") = "lost"
BY DEF FateOf, Active, Waiting, Asking, Posting

\* One task's step changes one event's fate.
LEMMA FateFollowsStep ==
    ASSUME TypeOK, NEW e \in Events, NEW s, Goto(e, s)
    PROVE  Fate' = [Fate EXCEPT ![e] = FateOf(s)]
BY DEF TypeOK, Goto, Fate

LEMMA TopicGrows ==
    ASSUME TypeOK, NEW e \in Events, topic' = Append(topic, e)
    PROVE  OnTopic' = OnTopic \cup {e}
<1>1. topic \in Seq(Events)
  BY DEF TypeOK
<1>2. /\ DOMAIN topic' = 1..(Len(topic) + 1)
      /\ DOMAIN topic = 1..Len(topic) /\ Len(topic) \in Nat
      /\ \A i \in 1..Len(topic) : topic'[i] = topic[i]
      /\ topic'[Len(topic) + 1] = e
  BY <1>1
<1>3. OnTopic \subseteq OnTopic'
  BY <1>2 DEF OnTopic
<1>4. e \in OnTopic'
  BY <1>2 DEF OnTopic
<1>5. OnTopic' \subseteq OnTopic \cup {e}
  BY <1>2 DEF OnTopic
<1> QED
  BY <1>3, <1>4, <1>5

LEMMA PromiseAtFirst == Init => Promise!Init
<1> SUFFICES ASSUME Init
             PROVE  Promise!Init
  OBVIOUS
<1>1. Fate = [e \in Events |-> "unpublished"]
  BY FateOfSteps DEF Init, Fate
<1>2. OnTopic = {}
  BY DEF Init, OnTopic
<1> QED
  BY <1>1, <1>2 DEF Promise!Init

LEMMA AcceptedStays ==
    TypeOK /\ AcceptedOnTopic /\ [Next]_vars => AcceptedOnTopic'
<1> SUFFICES ASSUME TypeOK, AcceptedOnTopic, [Next]_vars
             PROVE  AcceptedOnTopic'
  OBVIOUS
<1>1. CASE UNCHANGED vars
  BY <1>1 DEF vars, AcceptedOnTopic, OnTopic
<1>2. CASE Stop
  BY <1>2 DEF Stop, AcceptedOnTopic, OnTopic, Active, Waiting, Posting, TypeOK
<1>3. CASE Tick
  BY <1>3 DEF Tick, AcceptedOnTopic, OnTopic
<1>4. ASSUME NEW e \in Events, Publish(e) \/ Runs(e) \/ Issue(e)
      PROVE  AcceptedOnTopic'
  <2>1. UNCHANGED topic
    BY <1>4 DEF Publish, Runs, UseCached, Ask, PostUnsigned, ReceiveToken, Receive, GiveUp,
                Issue
  <2>2. PICK s \in Steps \ {"accepted"} : Goto(e, s)
    BY <1>4 DEF Publish, Runs, UseCached, Ask, PostUnsigned, ReceiveToken, Receive, GiveUp,
                Issue, Sends, Steps, Active, Waiting, Asking, Posting, Ended
  <2> QED
    BY <2>1, <2>2 DEF Goto, AcceptedOnTopic, OnTopic, TypeOK
<1>5. ASSUME NEW e \in Events, Decide(e)
      PROVE  AcceptedOnTopic'
  <2>1. CASE Goto(e, "accepted") /\ topic' = Append(topic, e)
    BY <2>1, TopicGrows DEF Goto, AcceptedOnTopic, TypeOK
  <2>2. CASE Goto(e, "refused") /\ UNCHANGED topic
    BY <2>2 DEF Goto, AcceptedOnTopic, OnTopic, TypeOK
  <2> QED
    BY <1>5, <2>1, <2>2 DEF Decide
<1>6. ASSUME NEW e \in Events, AcceptStray(e)
      PROVE  AcceptedOnTopic'
  <2>1. OnTopic' = OnTopic \cup {e}
    BY <1>6, TopicGrows DEF AcceptStray
  <2> QED
    BY <1>6, <2>1 DEF AcceptStray, Goto, AcceptedOnTopic, TypeOK
<1> QED
  BY <1>1, <1>2, <1>3, <1>4, <1>5, <1>6 DEF Next, Serves

\* A step that leaves the fates and the topic alone is a stutter.
LEMMA StepsStutter ==
    ASSUME TypeOK, NEW e \in Events,
           UseCached(e) \/ Ask(e) \/ PostUnsigned(e) \/ Issue(e) \/ ReceiveToken(e)
    PROVE  UNCHANGED Promise!vars
<1>1. UNCHANGED topic
  BY DEF UseCached, Ask, PostUnsigned, Issue, ReceiveToken
<1>2. PICK s \in Active : Goto(e, s)
  BY DEF UseCached, Ask, PostUnsigned, Issue, ReceiveToken, Sends, Active, Waiting, Asking,
         Posting
<1>3. Fate[e] = "pending"
  BY FateOfSteps DEF Fate, UseCached, Ask, PostUnsigned, Issue, ReceiveToken, Active, Waiting,
                     Asking, Posting
<1>4. Fate' = Fate
  <2>1. Fate' = [Fate EXCEPT ![e] = "pending"]
    BY <1>2, FateOfSteps, FateFollowsStep
  <2> QED
    BY <1>3, <2>1 DEF Fate
<1> QED
  BY <1>1, <1>4 DEF Promise!vars, OnTopic

LEMMA StepsKeepThePromise ==
    TypeOK /\ AcceptedOnTopic /\ [Next]_vars => [Promise!Next]_(Promise!vars)
<1> SUFFICES ASSUME TypeOK, AcceptedOnTopic, [Next]_vars
             PROVE  Promise!Next \/ UNCHANGED Promise!vars
  OBVIOUS
<1>1. CASE UNCHANGED vars
  BY <1>1 DEF vars, Promise!vars, Fate, OnTopic
<1>2. CASE Tick
  BY <1>2 DEF Tick, Promise!vars, Fate, OnTopic
<1>3. CASE Stop
  <2>1. \A e \in Events :
          step'[e] = IF step[e] = "posting" THEN "adrift"
                     ELSE IF step[e] \in Active THEN "lost" ELSE step[e]
    BY <1>3 DEF Stop
  <2>2. \A e \in Events : FateOf(step'[e]) = IF FateOf(step[e]) = "pending"
                                            THEN "lost" ELSE FateOf(step[e])
    BY <2>1, FateOfSteps
    DEF TypeOK, Steps, Active, Waiting, Asking, Posting, Ended
  <2>3. Fate' = [e \in Events |-> IF Fate[e] = "pending" THEN "lost" ELSE Fate[e]]
    BY <2>2 DEF Fate
  <2>4. OnTopic' = OnTopic
    BY <1>3 DEF Stop, OnTopic
  <2> QED
    BY <2>3, <2>4 DEF Promise!Next, Promise!Stop
<1>4. ASSUME NEW e \in Events, Publish(e)
      PROVE  Promise!Take(e)
  <2>1. Fate[e] = "unpublished" /\ Fate' = [Fate EXCEPT ![e] = "pending"]
    BY <1>4, FateOfSteps, FateFollowsStep DEF Publish, Fate, Active
  <2> QED
    BY <1>4, <2>1 DEF Publish, OnTopic, Promise!Take, Promise!Becomes
<1>5. ASSUME NEW e \in Events, Receive(e)
      PROVE  Promise!Confirm(e) \/ Promise!GiveUp(e)
  <2>1. Fate[e] = "pending" /\ OnTopic' = OnTopic
    BY <1>5, FateOfSteps
    DEF Receive, Fate, OnTopic, Active, Waiting, Asking, Posting
  <2>2. CASE step[e] = "accepted" /\ Goto(e, "delivered")
    BY <2>1, <2>2, FateOfSteps, FateFollowsStep
    DEF AcceptedOnTopic, Promise!Confirm, Promise!Becomes
  <2>3. CASE Goto(e, "logged")
    BY <2>1, <2>3, FateOfSteps, FateFollowsStep
    DEF Promise!GiveUp, Promise!Becomes
  <2> QED
    BY <1>5, <2>2, <2>3 DEF Receive
<1>6. ASSUME NEW e \in Events, GiveUp(e)
      PROVE  Promise!GiveUp(e)
  <2>1. Fate[e] = "pending" /\ OnTopic' = OnTopic
    BY <1>6, FateOfSteps DEF GiveUp, Fate, OnTopic, Active
  <2>2. Fate' = [Fate EXCEPT ![e] = "logged"]
    BY <1>6, FateOfSteps, FateFollowsStep DEF GiveUp
  <2> QED
    BY <2>1, <2>2 DEF Promise!GiveUp, Promise!Becomes
<1>7. ASSUME NEW e \in Events, Decide(e)
      PROVE  Promise!Arrive(e) \/ UNCHANGED Promise!vars
  <2>1. PICK s \in {"accepted", "refused"} :
          /\ step[e] = "posting" /\ Goto(e, s)
          /\ topic' = topic \/ topic' = Append(topic, e)
    BY <1>7 DEF Decide
  <2>2. Fate[e] = "pending" /\ FateOf(s) = "pending"
    BY <2>1, FateOfSteps DEF Fate, Active, Waiting, Posting
  <2>3. Fate' = Fate
    BY <2>1, <2>2, FateFollowsStep DEF Fate
  <2>4. OnTopic' = OnTopic \/ OnTopic' = OnTopic \cup {e}
    BY <2>1, TopicGrows DEF OnTopic
  <2> QED
    BY <2>2, <2>3, <2>4 DEF Promise!Arrive, Promise!vars
<1>8. ASSUME NEW e \in Events, AcceptStray(e)
      PROVE  Promise!Arrive(e)
  <2>1. PICK s \in {"logged", "lost"} :
          FateOf(step[e]) = s /\ FateOf(s) = s /\ Goto(e, s)
    BY <1>8, FateOfSteps DEF AcceptStray
  <2>2. Fate' = Fate /\ Fate[e] = s
    BY <2>1, FateFollowsStep DEF Fate
  <2>3. OnTopic' = OnTopic \cup {e}
    BY <1>8, TopicGrows DEF AcceptStray
  <2> QED
    BY <2>1, <2>2, <2>3 DEF Promise!Arrive
<1>9. ASSUME NEW e \in Events, Publish(e) \/ Runs(e) \/ Serves(e)
      PROVE  Promise!Next \/ UNCHANGED Promise!vars
  BY <1>4, <1>5, <1>6, <1>7, <1>8, <1>9, StepsStutter
  DEF Runs, Serves, Promise!Next
<1> QED
  BY <1>1, <1>2, <1>3, <1>9 DEF Next

\* Through Pub/Sub every event handed over ends delivered or logged, unless
\* the process stops, and what is reported as delivered is on the topic.
THEOREM PubSubKeepsThePromise == Spec => DeliversOrLogs
<1>1. Clocks => TypeOK
  BY DEF Clocks
<1>2. Init => AcceptedOnTopic
  BY DEF Init, AcceptedOnTopic
<1> QED
  BY <1>1, <1>2, AlwaysClocks, AcceptedStays, PromiseAtFirst,
     StepsKeepThePromise, PTL DEF Spec, DeliversOrLogs, Promise!Spec
=============================================================================
