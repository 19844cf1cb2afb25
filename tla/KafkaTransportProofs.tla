------------------------- MODULE KafkaTransportProofs -------------------------
(* That the Redpanda transport keeps the promise of EventDelivery, for any  *)
(* number of messages, any queue, any timeout and any number of retries.    *)
EXTENDS KafkaTransport, TLAPS

\* What waits for its acknowledgement is in the broker's log.
AcceptedInLog == \A e \in Events : step[e] = "appended" => e \in log

Inv == TypeOK /\ AcceptedInLog

Fate == [e \in Events |-> FateOf(step[e])]

\* What one message may do.
Moves(e) ==
    Publish(e) \/ Transmit(e) \/ AppendMessage(e) \/ Retry(e) \/ Report(e)

LEMMA FateOfSteps ==
    /\ FateOf("unpublished") = "unpublished"
    /\ \A s \in Held : FateOf(s) = "pending"
    /\ FateOf("delivered") = "delivered"
    /\ FateOf("logged") = "logged" /\ FateOf("strayed") = "logged"
    /\ FateOf("lost") = "lost" /\ FateOf("adrift") = "lost"
BY DEF FateOf, Held

LEMMA FateFollowsStep ==
    ASSUME TypeOK, NEW e \in Events, NEW s, Goto(e, s)
    PROVE  Fate' = [Fate EXCEPT ![e] = FateOf(s)]
BY DEF TypeOK, Goto, Fate

LEMMA InvAtFirst == KafkaAssumption /\ Init => Inv
BY DEF KafkaAssumption, Init, Inv, TypeOK, AcceptedInLog, Steps, Held, Ended

\* The steps of one message.
LEMMA MovesKeepInv ==
    ASSUME KafkaAssumption, Inv, NEW e \in Events, Moves(e)
    PROVE  Inv'
<1> USE DEF KafkaAssumption, Inv, TypeOK, AcceptedInLog, Goto, Steps, Held, Ended
<1>1. CASE Publish(e)
  <2>1. CASE Goto(e, "queued") /\ left' = [left EXCEPT ![e] = Timeout]
    BY <1>1, <2>1 DEF Publish
  <2>2. CASE Goto(e, "logged") /\ UNCHANGED left
    BY <1>1, <2>2 DEF Publish
  <2> QED
    BY <1>1, <2>1, <2>2 DEF Publish
<1>2. CASE Transmit(e)
  BY <1>2 DEF Transmit
<1>3. CASE AppendMessage(e)
  <2>1. PICK s \in {"appended", "logged", "lost"} : Goto(e, s)
    BY <1>3 DEF AppendMessage
  <2>2. log' = log \cup {e} /\ UNCHANGED <<left, retries>>
    BY <1>3 DEF AppendMessage
  <2> QED
    BY <2>1, <2>2
<1>4. CASE Retry(e)
  BY <1>4 DEF Retry
<1>5. CASE Report(e)
  <2>1. PICK s \in {"delivered", "logged", "strayed"} : Goto(e, s)
    BY <1>5 DEF Report
  <2>2. left' = [left EXCEPT ![e] = 0] /\ UNCHANGED <<retries, log>>
    BY <1>5 DEF Report
  <2> QED
    BY <2>1, <2>2
<1> QED
  BY <1>1, <1>2, <1>3, <1>4, <1>5 DEF Moves

LEMMA NextKeepsInv == KafkaAssumption /\ Inv /\ [Next]_vars => Inv'
<1> SUFFICES ASSUME KafkaAssumption, Inv, [Next]_vars
             PROVE  Inv'
  OBVIOUS
<1>1. CASE UNCHANGED vars
  BY <1>1 DEF vars, Inv, TypeOK, AcceptedInLog
<1>2. CASE Stop
  <2>1. step' \in [Events -> Steps] /\ \A e \in Events : step'[e] # "appended"
    BY <1>2 DEF Stop, Inv, TypeOK, Steps, Held, Ended
  <2> QED
    BY <1>2, <2>1 DEF Stop, Inv, TypeOK, AcceptedInLog, KafkaAssumption
<1>3. CASE Tick
  BY <1>3 DEF Tick, Inv, TypeOK, AcceptedInLog, KafkaAssumption
<1>4. ASSUME NEW e \in Events, Moves(e)
      PROVE  Inv'
  BY <1>4, MovesKeepInv
<1> QED
  BY <1>1, <1>2, <1>3, <1>4 DEF Next, Moves

LEMMA AlwaysInv ==
    ASSUME KafkaAssumption
    PROVE  Spec => []Inv
<1>1. Init => Inv
  BY InvAtFirst
<1>2. Inv /\ [Next]_vars => Inv'
  BY NextKeepsInv
<1> QED
  BY <1>1, <1>2, PTL DEF Spec

\* Every reachable state of the transport is well typed: retries and the time
\* left never leave their bounds.
THEOREM KafkaTypeCorrect ==
    ASSUME KafkaAssumption
    PROVE  Spec => []TypeOK
<1>1. Inv => TypeOK
  BY DEF Inv
<1> QED
  BY <1>1, AlwaysInv, PTL

-----------------------------------------------------------------------------
(* Each step is a step of EventDelivery, or a stutter.                      *)

LEMMA PromiseAtFirst == Init => Promise!Init
BY FateOfSteps DEF Init, Promise!Init

LEMMA PublishKeepsThePromise ==
    ASSUME Inv, NEW e \in Events, Publish(e)
    PROVE  Promise!Take(e) \/ Promise!Refuse(e)
<1> USE DEF Inv
<1>1. Fate[e] = "unpublished" /\ log' = log
  BY FateOfSteps DEF Publish, Fate
<1>2. CASE Goto(e, "queued")
  <2>1. Fate' = [Fate EXCEPT ![e] = "pending"]
    BY <1>2, FateOfSteps, FateFollowsStep DEF Held
  <2> QED
    BY <1>1, <2>1 DEF Fate, Promise!Take, Promise!Becomes
<1>3. CASE Goto(e, "logged")
  <2>1. Fate' = [Fate EXCEPT ![e] = "logged"]
    BY <1>3, FateOfSteps, FateFollowsStep
  <2> QED
    BY <1>1, <2>1 DEF Fate, Promise!Refuse, Promise!Becomes
<1> QED
  BY <1>2, <1>3 DEF Publish

\* A transmission or a retry is nothing the service can see.
LEMMA QueueStutters ==
    ASSUME Inv, NEW e \in Events, Transmit(e) \/ Retry(e)
    PROVE  UNCHANGED Promise!vars
<1> USE DEF Inv
<1>1. PICK s \in Held : Goto(e, s)
  BY DEF Transmit, Retry, Held
<1>2. Fate[e] = "pending" /\ log' = log
  BY FateOfSteps DEF Fate, Transmit, Retry, Held
<1>3. Fate' = [Fate EXCEPT ![e] = "pending"]
  BY <1>1, FateOfSteps, FateFollowsStep
<1>4. Fate' = Fate
  BY <1>2, <1>3 DEF Fate
<1> QED
  BY <1>2, <1>4 DEF Fate, Promise!vars

LEMMA AppendArrives ==
    ASSUME Inv, NEW e \in Events, AppendMessage(e)
    PROVE  Promise!Arrive(e)
<1> USE DEF Inv
<1>1. PICK s \in {"appended", "logged", "lost"} :
        /\ Goto(e, s)
        /\ FateOf(step[e]) = FateOf(s)
        /\ FateOf(s) \in {"pending", "logged", "lost"}
  BY FateOfSteps DEF AppendMessage, Held
<1>2. Fate' = [Fate EXCEPT ![e] = FateOf(s)]
  BY <1>1, FateFollowsStep
<1>3. Fate' = Fate /\ Fate[e] \in {"pending", "logged", "lost"}
  BY <1>1, <1>2 DEF Fate
<1> QED
  BY <1>3 DEF AppendMessage, Fate, Promise!Arrive

LEMMA ReportEnds ==
    ASSUME Inv, NEW e \in Events, Report(e)
    PROVE  Promise!Confirm(e) \/ Promise!GiveUp(e)
<1> USE DEF Inv
<1>1. Fate[e] = "pending" /\ log' = log
  BY FateOfSteps DEF Fate, Report, Held
<1>2. CASE step[e] = "appended" /\ Goto(e, "delivered")
  <2>1. Fate' = [Fate EXCEPT ![e] = "delivered"]
    BY <1>2, FateOfSteps, FateFollowsStep
  <2>2. e \in log
    BY <1>2 DEF AcceptedInLog
  <2> QED
    BY <1>1, <2>1, <2>2 DEF Fate, Promise!Confirm, Promise!Becomes
<1>3. CASE Goto(e, "logged") \/ Goto(e, "strayed")
  <2>1. Fate' = [Fate EXCEPT ![e] = "logged"]
    BY <1>3, FateOfSteps, FateFollowsStep
  <2> QED
    BY <1>1, <2>1 DEF Fate, Promise!GiveUp, Promise!Becomes
<1> QED
  BY <1>2, <1>3 DEF Report

LEMMA StopLoses ==
    ASSUME Inv, Stop
    PROVE  Promise!Stop
<1>1. \A e \in Events :
        step'[e] = IF step[e] = "inflight" THEN "adrift"
                   ELSE IF step[e] \in Held THEN "lost" ELSE step[e]
  BY DEF Stop
<1>2. \A e \in Events : FateOf(step'[e]) = IF FateOf(step[e]) = "pending"
                                          THEN "lost" ELSE FateOf(step[e])
  BY <1>1, FateOfSteps DEF Inv, TypeOK, Steps, Held, Ended
<1>3. Fate' = [e \in Events |-> IF Fate[e] = "pending" THEN "lost" ELSE Fate[e]]
  BY <1>2 DEF Fate
<1> QED
  BY <1>3 DEF Stop, Fate, Promise!Stop

LEMMA StepsKeepThePromise ==
    Inv /\ [Next]_vars => [Promise!Next]_(Promise!vars)
<1> SUFFICES ASSUME Inv, [Next]_vars
             PROVE  Promise!Next \/ UNCHANGED Promise!vars
  OBVIOUS
<1>1. CASE UNCHANGED vars
  BY <1>1 DEF vars, Promise!vars
<1>2. CASE Tick
  BY <1>2 DEF Tick, Promise!vars
<1>3. CASE Stop
  BY <1>3, StopLoses DEF Promise!Next
<1>4. ASSUME NEW e \in Events, Moves(e)
      PROVE  Promise!Next \/ UNCHANGED Promise!vars
  BY <1>4, PublishKeepsThePromise, QueueStutters, AppendArrives, ReportEnds
  DEF Moves, Promise!Next
<1> QED
  BY <1>1, <1>2, <1>3, <1>4 DEF Next, Moves

\* Through Redpanda every event handed over ends delivered or logged, a full
\* queue, retries and timeouts included, unless the process stops; and what is
\* reported as delivered is in the broker's log.
THEOREM KafkaKeepsThePromise ==
    ASSUME KafkaAssumption
    PROVE  Spec => DeliversOrLogs
<1>1. Spec => []Inv
  BY AlwaysInv
<1> QED
  BY <1>1, PromiseAtFirst, StepsKeepThePromise, PTL
  DEF Spec, DeliversOrLogs, Promise!Spec
=============================================================================
