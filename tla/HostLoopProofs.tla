--------------------------- MODULE HostLoopProofs ---------------------------
(***************************************************************************)
(* Theorems about HostLoop for any messages and every bound.               *)
(***************************************************************************)
EXTENDS HostLoop, TLAPS

\* A message that can still be received was not received for the last time,
\* and a hidden one was received.
DeliveredInv ==
  \A q \in Queues :
    /\ \A m \in visible[q] : deliveries[q][m] < MaxDeliveries
    /\ \A m \in hidden[q] : deliveries[q][m] > 0

\* A message that is sent was not received yet.
SentInv ==
  \A q \in Queues : \A m \in Messages \ (visible[q] \cup hidden[q]) : deliveries[q][m] = 0

QueueInv == TypeOK /\ DeliveredInv /\ SentInv

\* Once it was awaited, the drain of the formatted queue stays over.
AwaitedInv == loop = "wait" => drain["formatted"] = "ended"

LoopInv == QueueInv /\ AwaitedInv /\ OneDrainPerQueue

USE BoundsAssumption, MessagesAssumption

-----------------------------------------------------------------------------
LEMMA InitInv == Init => LoopInv
<1> SUFFICES ASSUME Init
             PROVE  LoopInv
  OBVIOUS
<1>1. TypeOK
  <2>1. [m \in Messages |-> 0] \in [Messages -> 0..MaxDeliveries]
    OBVIOUS
  <2>2. deliveries \in [Queues -> [Messages -> 0..MaxDeliveries]]
    BY <2>1, Zenon DEF Init
  <2>3. {handled, visible, hidden} \subseteq [Queues -> SUBSET Messages]
    BY DEF Init
  <2>4. /\ loop = "start" /\ ~cancelled /\ faults = 0
        /\ drain = [q \in Queues |-> "ended"]
        /\ handled = [q \in Queues |-> {}]
        /\ visible = [q \in Queues |-> {}]
        /\ hidden = [q \in Queues |-> {}]
    BY DEF Init
  <2>5. cancelled \in BOOLEAN
    BY Zenon DEF Init
  <2>6. QED
    BY <2>2, <2>3, <2>4, <2>5 DEF TypeOK
<1>2. DeliveredInv
  BY DEF Init, DeliveredInv
<1>3. SentInv /\ AwaitedInv /\ OneDrainPerQueue
  BY DEF Init, SentInv, AwaitedInv, OneDrainPerQueue, Queues
<1>4. QED
  BY <1>1, <1>2, <1>3 DEF LoopInv, QueueInv

\* The loop touches no message.
LEMMA LoopStep ==
  ASSUME LoopInv, Loop \/ Cancel \/ UNCHANGED vars
  PROVE  LoopInv'
<1> USE DEF LoopInv, QueueInv, TypeOK, DeliveredInv, SentInv, AwaitedInv, OneDrainPerQueue, Queues, queues, Goto
<1>1. CASE StartDrains
  BY <1>1 DEF StartDrains
<1>2. CASE AwaitFormatted
  BY <1>2 DEF AwaitFormatted
<1>3. CASE WaitAll
  BY <1>3 DEF WaitAll
<1>4. CASE Delay
  BY <1>4 DEF Delay
<1>5. CASE Stop
  BY <1>5 DEF Stop
<1>6. CASE Cancel
  BY <1>6 DEF Cancel
<1>7. CASE UNCHANGED vars
  BY <1>7 DEF vars
<1>8. QED
  BY <1>1, <1>2, <1>3, <1>4, <1>5, <1>6, <1>7 DEF Loop

\* A drain goes on, or ends, and does not move the loop.
LEMMA DrainLoop ==
  ASSUME LoopInv, NEW q \in Queues, Drain(q)
  PROVE  AwaitedInv' /\ OneDrainPerQueue'
BY DEF LoopInv, QueueInv, TypeOK, AwaitedInv, OneDrainPerQueue, Queues, Drain, DrainTo,
       Peek, Receive, ReceiveFails, Remove, GiveUp, Gone, Keep

\* What a handler sends are messages, all of it or a part.
LEMMA SentMessages ==
  ASSUME TypeOK, NEW q \in Queues
  PROVE  /\ [p \in Queues |-> Sent(q, p)] \in [Queues -> SUBSET Messages]
         /\ SentInPart(q) \subseteq [Queues -> SUBSET Messages]
<1>1. \A p \in Queues : Sent(q, p) \subseteq Messages
  BY DEF TypeOK, Sent
<1>2. Sent(q, "raw") \subseteq Messages /\ Sent(q, "formatted") \subseteq Messages
  BY <1>1 DEF Queues
<1> QED
  BY <1>1, <1>2 DEF SentInPart

\* The message in the handler is removed, or kept, and others are put on the queues.
LEMMA HandledPut ==
  ASSUME QueueInv, NEW q \in Queues, drain[q] = "handle",
         NEW sent \in [Queues -> SUBSET Messages], Put(sent),
         Handled(q), DrainTo(q, "peek") \/ DrainTo(q, "ended"),
         UNCHANGED <<loop, cancelled, faults>>,
         Gone(q) \/ UNCHANGED <<hidden, deliveries>>
  PROVE  QueueInv'
<1> USE DEF QueueInv, TypeOK, Queues
<1>1. /\ visible' = [p \in Queues |-> visible[p] \cup (sent[p] \ hidden'[p])]
      /\ handled' = [handled EXCEPT ![q] = {}]
      /\ drain' = [drain EXCEPT ![q] = "peek"] \/ drain' = [drain EXCEPT ![q] = "ended"]
  BY DEF Put, Handled, DrainTo
<1>2. CASE UNCHANGED <<hidden, deliveries>>
  <2>1. TypeOK'
    BY <1>1, <1>2
  <2>2. DeliveredInv'
    BY <1>1, <1>2 DEF DeliveredInv, SentInv
  <2>3. SentInv'
    BY <1>1, <1>2 DEF SentInv
  <2> QED
    BY <2>1, <2>2, <2>3
<1>3. CASE Gone(q)
  <2>1. hidden' = [hidden EXCEPT ![q] = @ \ handled[q]]
    BY <1>3 DEF Gone
  <2>2. /\ deliveries' \in [Queues -> [Messages -> 0..MaxDeliveries]]
        /\ \A p \in Queues, m \in Messages :
             deliveries'[p][m] = IF p = q /\ m \in handled[q] THEN 0 ELSE deliveries[p][m]
    BY <1>3 DEF Gone
  <2>3. TypeOK'
    BY <1>1, <2>1, <2>2
  <2>4. DeliveredInv'
    BY <1>1, <2>1, <2>2 DEF DeliveredInv, SentInv
  <2>5. SentInv'
    BY <1>1, <2>1, <2>2 DEF SentInv
  <2> QED
    BY <2>3, <2>4, <2>5
<1> QED
  BY <1>2, <1>3

LEMMA DrainQueue ==
  ASSUME QueueInv, NEW q \in Queues, Drain(q)
  PROVE  QueueInv'
<1> USE DEF QueueInv
<1>1. CASE Peek(q)
  BY <1>1 DEF Peek, TypeOK, DeliveredInv, SentInv, Queues, queues, DrainTo, Fault
<1>2. CASE Receive(q)
  <2>1. TypeOK'
    BY <1>2 DEF Receive, TypeOK, DeliveredInv, Queues, DrainTo
  <2>2. DeliveredInv'
    BY <1>2 DEF Receive, TypeOK, DeliveredInv, Queues
  <2>3. SentInv'
    BY <1>2 DEF Receive, TypeOK, SentInv, Queues
  <2>4. QED
    BY <2>1, <2>2, <2>3
<1>3. CASE ReceiveFails(q)
  BY <1>3 DEF ReceiveFails, TypeOK, DeliveredInv, SentInv, Queues, queues, DrainTo, Fault
<1>4. CASE Remove(q)
  <2> DEFINE sent == [p \in Queues |-> Sent(q, p)]
  <2>1. drain[q] = "handle" /\ Gone(q) /\ Put(sent) /\ UNCHANGED <<loop, cancelled, faults>>
    BY <1>4, Zenon DEF Remove
  <2>2. Handled(q) /\ DrainTo(q, "peek")
    BY <2>1, Zenon DEF Gone
  <2>3. sent \in [Queues -> SUBSET Messages]
    BY SentMessages, Zenon
  <2> HIDE DEF sent
  <2>4. QED
    BY <2>1, <2>2, <2>3, HandledPut, Zenon
<1>5. CASE GiveUp(q)
  <2>1. drain[q] = "handle" /\ Gone(q) /\ UNCHANGED <<loop, cancelled, faults>>
    BY <1>5, Zenon DEF GiveUp
  <2>2. Handled(q) /\ DrainTo(q, "peek")
    BY <2>1, Zenon DEF Gone
  <2>3. PICK sent \in [Queues -> SUBSET Messages] : Put(sent)
    BY <1>5, SentMessages, Zenon DEF GiveUp
  <2>4. QED
    BY <2>1, <2>2, <2>3, HandledPut, Zenon
<1>6. CASE Keep(q)
  <2>1. /\ drain[q] = "handle" /\ Handled(q)
        /\ DrainTo(q, "peek") \/ DrainTo(q, "ended")
        /\ UNCHANGED <<loop, cancelled, faults>> /\ UNCHANGED <<hidden, deliveries>>
    BY <1>6, Zenon DEF Keep
  <2>2. PICK sent \in [Queues -> SUBSET Messages] : Put(sent)
    BY <1>6, SentMessages, Zenon DEF Keep
  <2>3. QED
    BY <2>1, <2>2, HandledPut, Zenon
<1>7. QED
  BY <1>1, <1>2, <1>3, <1>4, <1>5, <1>6 DEF Drain

LEMMA ServiceStep ==
  ASSUME LoopInv, NEW m \in Messages, (m \in Events /\ Arrive(m)) \/ \E q \in Queues : Reappear(q, m)
  PROVE  LoopInv'
<1> USE DEF LoopInv, QueueInv, TypeOK, DeliveredInv, SentInv, AwaitedInv, OneDrainPerQueue, Queues
<1>1. CASE Arrive(m)
  BY <1>1 DEF Arrive
<1>2. ASSUME NEW q \in Queues, Reappear(q, m)
      PROVE  LoopInv'
  <2>1. TypeOK'
    BY <1>2 DEF Reappear
  <2>2. DeliveredInv'
    BY <1>2 DEF Reappear
  <2>3. SentInv'
    BY <1>2 DEF Reappear
  <2>4. AwaitedInv' /\ OneDrainPerQueue'
    BY <1>2 DEF Reappear
  <2>5. QED
    BY <2>1, <2>2, <2>3, <2>4
<1>3. QED
  BY <1>1, <1>2

LEMMA LoopInvariant == Spec => []LoopInv
<1>1. LoopInv /\ [Next]_vars => LoopInv'
  <2> SUFFICES ASSUME LoopInv, [Next]_vars
               PROVE  LoopInv'
    OBVIOUS
  <2>1. CASE Loop \/ Cancel \/ UNCHANGED vars
    BY <2>1, LoopStep
  <2>2. ASSUME NEW q \in Queues, Drain(q)
        PROVE  LoopInv'
    BY <2>2, DrainLoop, DrainQueue DEF LoopInv
  <2>3. ASSUME NEW m \in Messages, (m \in Events /\ Arrive(m)) \/ \E q \in Queues : Reappear(q, m)
        PROVE  LoopInv'
    BY <2>3, ServiceStep
  <2>4. QED
    BY <2>1, <2>2, <2>3 DEF Next
<1>2. QED
  BY InitInv, <1>1, PTL DEF Spec

(***************************************************************************)
(* Type correctness: in particular no message is delivered more often than *)
(* the handler allows, in any number of rounds (HostLoop, TypeOK).         *)
(***************************************************************************)
THEOREM TypeCorrect == Spec => []TypeOK
<1>1. LoopInv => TypeOK
  BY DEF LoopInv, QueueInv
<1>2. QED
  BY LoopInvariant, <1>1, PTL

(***************************************************************************)
(* The host never has two drains of a queue: the loop does not get back to *)
(* its start before both drains of the round ended, the one it does not    *)
(* await included (Host.cs:33-46).                                         *)
(***************************************************************************)
THEOREM DrainedOnce == Spec => []OneDrainPerQueue
<1>1. LoopInv => OneDrainPerQueue
  BY DEF LoopInv
<1>2. QED
  BY LoopInvariant, <1>1, PTL

=============================================================================
