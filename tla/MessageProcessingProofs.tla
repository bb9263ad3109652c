---------------------- MODULE MessageProcessingProofs -----------------------
(***************************************************************************)
(* Theorems about MessageProcessing, and about the status algebra of       *)
(* ProcessingStatus on which they rest, for all sets of messages and       *)
(* workers, every limit on attempts and every number of faults.            *)
(***************************************************************************)
EXTENDS MessageProcessing, FiniteSetTheorems, TLAPS

-----------------------------------------------------------------------------
(* The status algebra, for every status and every limit.                   *)

(***************************************************************************)
(* For every status a processor may hand to MessageHandler: a dead letter  *)
(* is decided only past the limit and always together with the removal; a  *)
(* message is removed without a dead letter only after a success; and it   *)
(* stays on the queue only within the limit, unless a processor reports    *)
(* both a success and a retry.                                             *)
(***************************************************************************)
THEOREM DispositionSound ==
  ASSUME NEW s \in Status, NEW a \in Nat
  PROVE  /\ "DeadLetter" \in Disposition(s, a) =>
              /\ a > MaxNumberProcessingAttempts
              /\ "DeleteMessage" \in Disposition(s, a)
         /\ "DeleteMessage" \in Disposition(s, a) /\ "DeadLetter" \notin Disposition(s, a)
              => "Success" \in s
         /\ "DeleteMessage" \notin Disposition(s, a) =>
              \/ a <= MaxNumberProcessingAttempts
              \/ "Success" \in s /\ "RetryRequested" \in s
<1> DEFINE f == Forced(s)
           d == Decided(f, a)
           r == RetryWins(d)
<1>1. "Success" \in f => f = s
  BY DEF Forced
<1>2. "Success" \notin f => "DeadLetter" \notin f
  BY DEF Forced
<1>3. /\ "DeadLetter" \in r => "DeadLetter" \in d /\ "RetryRequested" \notin d
      /\ "DeleteMessage" \in r => "DeleteMessage" \in d /\ "RetryRequested" \notin d
      /\ "RetryRequested" \notin d => r = d
  BY DEF RetryWins
<1>4. /\ Disposition(s, a) = IF "DeadLetter" \in r THEN r \cup {"DeleteMessage"} ELSE r
      /\ "DeadLetter" \in Disposition(s, a) <=> "DeadLetter" \in r
  BY DEF Disposition
<1>5. CASE "Success" \in f
  <2>1. d = s \cup {"DeleteMessage"}
    BY <1>1, <1>5 DEF Decided
  <2>2. "DeadLetter" \notin s
    BY <1>5 DEF Forced
  <2>3. QED
    BY <1>1, <1>3, <1>4, <1>5, <2>1, <2>2
<1>6. CASE "Success" \notin f /\ Exhausted(a)
  <2>1. d = ((f \cup {"DeadLetter"}) \ {"RetryRequested"}) \cup {"DeleteMessage"}
    BY <1>6 DEF Decided
  <2>2. a > MaxNumberProcessingAttempts
    BY <1>6 DEF Exhausted
  <2>3. QED
    BY <1>3, <1>4, <2>1, <2>2
<1>7. CASE "Success" \notin f /\ ~Exhausted(a)
  <2>1. d = f \cup {"RetryRequested"}
    BY <1>2, <1>7 DEF Decided
  <2>2. a <= MaxNumberProcessingAttempts
    BY <1>7, AttemptsAssumption DEF Exhausted
  <2>3. QED
    BY <1>3, <1>4, <2>1, <2>2
<1>8. QED
  BY <1>5, <1>6, <1>7

(***************************************************************************)
(* What a request that was carried out, failed or had nothing to do can    *)
(* lead to, in the terms the queue's steps need.                           *)
(***************************************************************************)
LEMMA ProcessedFacts ==
  ASSUME NEW s \in CarriedOut \cup NothingToDo, NEW a \in Nat
  PROVE  LET d == Disposition(Finished(s), a)
         IN  /\ "DeadLetter" \in d => a > MaxNumberProcessingAttempts
             /\ "DeadLetter" \notin d /\ "DeleteMessage" \in d => "Success" \in s
             /\ "DeadLetter" \notin d /\ "DeleteMessage" \notin d
                  => a <= MaxNumberProcessingAttempts
<1>1. Finished(s) \in Status
  BY DEF Finished, Status, Flag, CarriedOut, NothingToDo, Threw
<1>2. "Success" \in Finished(s) <=> "Success" \in s
  BY DEF Finished
<1>3. ~("Success" \in Finished(s) /\ "RetryRequested" \in Finished(s))
  BY DEF Finished, CarriedOut, NothingToDo, Threw
<1>4. QED
  BY <1>1, <1>2, <1>3, DispositionSound

(***************************************************************************)
(* A plain success is removed and never archived, on whatever attempt.     *)
(***************************************************************************)
LEMMA SuccessIsRemoved ==
  ASSUME NEW s \in CarriedOut, "Success" \in s, NEW a \in Nat
  PROVE  LET d == Disposition(Finished(s), a)
         IN  "DeadLetter" \notin d /\ "DeleteMessage" \in d
<1>1. Finished(s) = {"Success", "DeleteMessage"}
  BY DEF Finished, CarriedOut, Threw
<1>2. Forced(Finished(s)) = {"Success", "DeleteMessage"}
  BY <1>1 DEF Forced
<1>3. Decided({"Success", "DeleteMessage"}, a) = {"Success", "DeleteMessage"}
  BY DEF Decided
<1>4. RetryWins({"Success", "DeleteMessage"}) = {"Success", "DeleteMessage"}
  BY DEF RetryWins
<1>5. QED
  BY <1>2, <1>3, <1>4 DEF Disposition

(***************************************************************************)
(* A text that is no request is kept within the limit, and archived and    *)
(* removed past it.                                                        *)
(***************************************************************************)
LEMMA NotARequestFacts ==
  ASSUME NEW a \in Nat
  PROVE  LET d == Disposition(NotARequest, a)
         IN  /\ "DeadLetter" \in d => a > MaxNumberProcessingAttempts
             /\ "DeadLetter" \notin d => a <= MaxNumberProcessingAttempts
             /\ "DeadLetter" \notin d => "DeleteMessage" \notin d
<1>1. NotARequest \in Status /\ "Success" \notin NotARequest
  BY DEF NotARequest, Status, Flag
<1>2. QED
  BY <1>1, DispositionSound

-----------------------------------------------------------------------------
(* The inductive invariant, in named parts.                                *)

\* A worker has a message exactly while it is busy, and the message arrived.
BusyInv ==
  /\ \A w \in Workers : pc[w] \in Busy <=> msg[w] # None
  /\ \A w \in Workers : msg[w] # None => queue[msg[w]] # "unsent"

\* A message that did not arrive was not received.
FreshInv == \A m \in Messages : queue[m] = "unsent" => dequeueCount[m] = 0

\* The attempt of the latest receiver is the dequeue count, any other's is at
\* most that; and the latest receiver works on a message that is still there.
AttemptInv ==
  \A w \in Workers, m \in Messages :
    msg[w] = m => /\ attempt[w] <= dequeueCount[m]
                  /\ popReceipt[m] = w => attempt[w] = dequeueCount[m] /\ queue[m] # "removed"

\* A worker about to archive is past the limit; one about to remove has settled
\* its message.
StageInv ==
  \A w \in Workers :
    /\ pc[w] = "archive" => attempt[w] > MaxNumberProcessingAttempts
    /\ pc[w] = "remove" => handled[msg[w]] > 0 \/ deadLetters[msg[w]] > 0

\* The message waits for its next delivery, or will after its timeout.
Loose(m) == queue[m] = "visible" \/ (queue[m] = "hidden" /\ ~Held(m))

\* A delivery past the limit that did not end in a removal cost a fault.
CountInv ==
  \A m \in Messages \ Poison :
    Loose(m) => dequeueCount[m] <= MaxNumberProcessingAttempts + faults

IInv ==
  /\ TypeOK
  /\ BusyInv
  /\ FreshInv
  /\ AttemptInv
  /\ StageInv
  /\ NeverLost
  /\ ArchivedOnlyWhenExhausted
  /\ CountInv
  /\ AttemptsBounded

USE AttemptsAssumption, MessagesAssumption, BoundsAssumption

-----------------------------------------------------------------------------
(***************************************************************************)
(* The initial state satisfies the invariant.                              *)
(***************************************************************************)
LEMMA InitIInv == Init => IInv
BY DEF Init, IInv, TypeOK, Place, Step, BusyInv, Busy, FreshInv, AttemptInv, StageInv, NeverLost,
       ArchivedOnlyWhenExhausted, CountInv, Loose, AttemptsBounded

LEMMA EnqueueStep ==
  ASSUME NEW m \in Messages, IInv, Enqueue(m)
  PROVE  IInv'
<1> USE DEF IInv, TypeOK, serviceVars, workerVars, Enqueue
<1>1. TypeOK'
  BY DEF Place, Step
<1>2. BusyInv'
  BY DEF BusyInv, Busy
<1>3. FreshInv'
  BY DEF FreshInv
<1>4. AttemptInv'
  BY DEF AttemptInv
<1>5. StageInv'
  BY DEF StageInv
<1>6. NeverLost'
  BY DEF NeverLost
<1>7. ArchivedOnlyWhenExhausted'
  BY DEF ArchivedOnlyWhenExhausted
<1>8. CountInv'
  BY DEF CountInv, Loose, Held, Holds, FreshInv
<1>9. AttemptsBounded'
  BY DEF AttemptsBounded
<1>10. QED
  BY <1>1, <1>2, <1>3, <1>4, <1>5, <1>6, <1>7, <1>8, <1>9

LEMMA TimeoutStep ==
  ASSUME NEW m \in Messages, IInv, VisibilityTimeout(m)
  PROVE  IInv'
<1> USE DEF IInv, TypeOK, serviceVars, workerVars, VisibilityTimeout, Fault
<1>1. TypeOK'
  BY DEF Place, Step
<1>2. BusyInv'
  BY DEF BusyInv, Busy
<1>3. FreshInv'
  BY DEF FreshInv
<1>4. AttemptInv'
  BY DEF AttemptInv
<1>5. StageInv'
  BY DEF StageInv
<1>6. NeverLost'
  BY DEF NeverLost
<1>7. ArchivedOnlyWhenExhausted'
  BY DEF ArchivedOnlyWhenExhausted
<1>8. CountInv'
  BY DEF CountInv, Loose, Held, Holds, AttemptsBounded
<1>9. AttemptsBounded'
  BY DEF AttemptsBounded, Held, Holds
<1>10. QED
  BY <1>1, <1>2, <1>3, <1>4, <1>5, <1>6, <1>7, <1>8, <1>9

LEMMA QuietStep ==
  ASSUME NEW w \in Workers, IInv, StartDrain(w) \/ Peek(w) \/ ReceiveNothing(w) \/ ReceiveFails(w)
  PROVE  IInv'
<1> USE DEF IInv, TypeOK, serviceVars, workerVars, StartDrain, Peek, ReceiveNothing, ReceiveFails, Fault
<1>1. TypeOK'
  BY DEF Place, Step
<1>2. BusyInv'
  BY DEF BusyInv, Busy
<1>3. FreshInv'
  BY DEF FreshInv
<1>4. AttemptInv'
  BY DEF AttemptInv
<1>5. StageInv'
  BY DEF StageInv
<1>6. NeverLost'
  BY DEF NeverLost
<1>7. ArchivedOnlyWhenExhausted'
  BY DEF ArchivedOnlyWhenExhausted
<1>8. CountInv'
  BY DEF CountInv, Loose, Held, Holds
<1>9. AttemptsBounded'
  BY DEF AttemptsBounded
<1>10. QED
  BY <1>1, <1>2, <1>3, <1>4, <1>5, <1>6, <1>7, <1>8, <1>9

LEMMA ReceiveStep ==
  ASSUME NEW w \in Workers, NEW m \in Messages, IInv, Receive(w, m)
  PROVE  IInv'
<1> USE DEF IInv, TypeOK, serviceVars, workerVars, Receive, Visible
<1>1. TypeOK'
  BY DEF Place, Step
<1>2. BusyInv'
  BY DEF BusyInv, Busy
<1>3. FreshInv'
  BY DEF FreshInv
<1>4. AttemptInv'
  BY DEF AttemptInv, BusyInv, Busy
<1>5. StageInv'
  BY DEF StageInv
<1>6. NeverLost'
  BY DEF NeverLost
<1>7. ArchivedOnlyWhenExhausted'
  BY DEF ArchivedOnlyWhenExhausted
<1>8. CountInv'
  <2>1. ~Loose(m)'
    BY DEF Loose, Held, Holds
  <2>2. ASSUME NEW n \in Messages \ {m}  PROVE Held(n)' <=> Held(n)
    BY DEF Held, Holds, BusyInv, Busy
  <2>3. QED
    BY <2>1, <2>2 DEF CountInv, Loose
<1>9. AttemptsBounded'
  <2>1. m \notin Poison => dequeueCount[m] <= MaxNumberProcessingAttempts + faults
    <3>1. Loose(m)
      BY DEF Loose, Held, Holds
    <3>2. QED
      BY <3>1 DEF CountInv
  <2>2. dequeueCount'[m] <= dequeueCount[m] + 1
    OBVIOUS
  <2>3. \A n \in Messages \ {m} : dequeueCount'[n] = dequeueCount[n]
    OBVIOUS
  <2>4. QED
    BY <2>1, <2>2, <2>3 DEF AttemptsBounded
<1>10. QED
  BY <1>1, <1>2, <1>3, <1>4, <1>5, <1>6, <1>7, <1>8, <1>9

LEMMA AbandonStep ==
  ASSUME NEW w \in Workers, IInv, AbandonDrain(w)
  PROVE  IInv'
<1> USE DEF IInv, TypeOK, serviceVars, workerVars, AbandonDrain, Fault, Unburdened
<1>1. TypeOK'
  BY DEF Place, Step
<1>2. BusyInv'
  BY DEF BusyInv, Busy
<1>3. FreshInv'
  BY DEF FreshInv
<1>4. AttemptInv'
  BY DEF AttemptInv
<1>5. StageInv'
  BY DEF StageInv
<1>6. NeverLost'
  BY DEF NeverLost
<1>7. ArchivedOnlyWhenExhausted'
  BY DEF ArchivedOnlyWhenExhausted
<1>8. CountInv'
  BY DEF CountInv, Loose, Held, Holds, AttemptsBounded
<1>9. AttemptsBounded'
  BY DEF AttemptsBounded
<1>10. QED
  BY <1>1, <1>2, <1>3, <1>4, <1>5, <1>6, <1>7, <1>8, <1>9

LEMMA PoisonStep ==
  ASSUME NEW w \in Workers, IInv, PoisonThrows(w)
  PROVE  IInv'
<1> USE DEF IInv, TypeOK, serviceVars, workerVars, PoisonThrows, Unburdened
<1>1. TypeOK'
  BY DEF Place, Step
<1>2. BusyInv'
  BY DEF BusyInv, Busy
<1>3. FreshInv'
  BY DEF FreshInv
<1>4. AttemptInv'
  BY DEF AttemptInv
<1>5. StageInv'
  BY DEF StageInv
<1>6. NeverLost'
  BY DEF NeverLost
<1>7. ArchivedOnlyWhenExhausted'
  BY DEF ArchivedOnlyWhenExhausted
<1>8. CountInv'
  BY DEF CountInv, Loose, Held, Holds
<1>9. AttemptsBounded'
  BY DEF AttemptsBounded
<1>10. QED
  BY <1>1, <1>2, <1>3, <1>4, <1>5, <1>6, <1>7, <1>8, <1>9

LEMMA DeadLetterStep ==
  ASSUME NEW w \in Workers, IInv, SendDeadLetter(w)
  PROVE  IInv'
<1> USE DEF IInv, TypeOK, serviceVars, workerVars, SendDeadLetter, Proceed
<1>1. TypeOK'
  BY DEF Place, Step, BusyInv, Busy
<1>2. BusyInv'
  BY DEF BusyInv, Busy
<1>3. FreshInv'
  BY DEF FreshInv
<1>4. AttemptInv'
  BY DEF AttemptInv
<1>5. StageInv'
  BY DEF StageInv, BusyInv, Busy
<1>6. NeverLost'
  BY DEF NeverLost
<1>7. ArchivedOnlyWhenExhausted'
  BY DEF ArchivedOnlyWhenExhausted, BusyInv, Busy, AttemptInv, StageInv
<1>8. CountInv'
  BY DEF CountInv, Loose, Held, Holds
<1>9. AttemptsBounded'
  BY DEF AttemptsBounded
<1>10. QED
  BY <1>1, <1>2, <1>3, <1>4, <1>5, <1>6, <1>7, <1>8, <1>9

LEMMA DeleteStep ==
  ASSUME NEW w \in Workers, IInv, DeleteMessage(w)
  PROVE  IInv'
<1> USE DEF IInv, TypeOK, serviceVars, workerVars, DeleteMessage, Unburdened
<1>1. TypeOK'
  BY DEF Place, Step
<1>2. BusyInv'
  BY DEF BusyInv, Busy
<1>3. FreshInv'
  BY DEF FreshInv
<1>4. AttemptInv'
  BY DEF AttemptInv, BusyInv, Busy
<1>5. StageInv'
  BY DEF StageInv
<1>6. NeverLost'
  BY DEF NeverLost, BusyInv, Busy, StageInv
<1>7. ArchivedOnlyWhenExhausted'
  BY DEF ArchivedOnlyWhenExhausted
<1>8. CountInv'
  BY DEF CountInv, Loose, Held, Holds
<1>9. AttemptsBounded'
  BY DEF AttemptsBounded
<1>10. QED
  BY <1>1, <1>2, <1>3, <1>4, <1>5, <1>6, <1>7, <1>8, <1>9

(***************************************************************************)
(* What Settle does to the worker, by the disposition it follows.          *)
(***************************************************************************)
LEMMA SettleSteps ==
  ASSUME NEW w \in Workers, NEW d, TypeOK, Settle(w, d)
  PROVE  /\ pc' \in [Workers -> Step]
         /\ msg' \in [Workers -> Messages \cup {None}]
         /\ attempt' \in [Workers -> 0..DequeueCap]
         /\ \A v \in Workers \ {w} : pc'[v] = pc[v] /\ msg'[v] = msg[v] /\ attempt'[v] = attempt[v]
         /\ \/ /\ "DeadLetter" \in d
               /\ pc'[w] = "archive" /\ msg'[w] = msg[w] /\ attempt'[w] = attempt[w]
            \/ /\ "DeadLetter" \notin d /\ "DeleteMessage" \in d
               /\ pc'[w] = "remove" /\ msg'[w] = msg[w] /\ attempt'[w] = attempt[w]
            \/ /\ "DeadLetter" \notin d /\ "DeleteMessage" \notin d
               /\ pc'[w] = "peek" /\ msg'[w] = None /\ attempt'[w] = 0
BY DEF Settle, Proceed, Unburdened, TypeOK, Step, Place

(***************************************************************************)
(* A worker that settles its message keeps the invariant, when it archives *)
(* past the limit only, retries within the limit only, and removes at once *)
(* only what was carried out.  Process and RejectUnreadable both do.       *)
(***************************************************************************)
LEMMA SettledStep ==
  ASSUME NEW w \in Workers, NEW d, IInv, Settle(w, d), pc[w] = "process",
         "DeadLetter" \in d => attempt[w] > MaxNumberProcessingAttempts,
         "DeadLetter" \notin d /\ "DeleteMessage" \notin d
           => attempt[w] <= MaxNumberProcessingAttempts,
         "DeadLetter" \notin d /\ "DeleteMessage" \in d
           => handled'[msg[w]] > 0 \/ deadLetters'[msg[w]] > 0,
         handled' \in [Messages -> Nat], deadLetters' \in [Messages -> Nat],
         \A m \in Messages : handled'[m] >= handled[m] /\ deadLetters'[m] >= deadLetters[m],
         \A m \in Messages \ Unreadable : deadLetters'[m] = deadLetters[m],
         UNCHANGED <<serviceVars, faults>>
  PROVE  IInv'
<1> USE DEF IInv, TypeOK, serviceVars
<1> DEFINE m == msg[w]
<1>a. m \in Messages
  BY DEF BusyInv, Busy
<1>b. /\ pc' \in [Workers -> Step]
      /\ msg' \in [Workers -> Messages \cup {None}]
      /\ attempt' \in [Workers -> 0..DequeueCap]
      /\ \A v \in Workers \ {w} : pc'[v] = pc[v] /\ msg'[v] = msg[v] /\ attempt'[v] = attempt[v]
  BY SettleSteps
<1>c. \/ /\ "DeadLetter" \in d
         /\ pc'[w] = "archive" /\ msg'[w] = m /\ attempt'[w] = attempt[w]
      \/ /\ "DeadLetter" \notin d /\ "DeleteMessage" \in d
         /\ pc'[w] = "remove" /\ msg'[w] = m /\ attempt'[w] = attempt[w]
      \/ /\ "DeadLetter" \notin d /\ "DeleteMessage" \notin d
         /\ pc'[w] = "peek" /\ msg'[w] = None /\ attempt'[w] = 0
  BY SettleSteps
<1> HIDE DEF m
<1>1. TypeOK'
  BY <1>b DEF Place, Step
<1>2. BusyInv'
  BY <1>a, <1>b, <1>c DEF BusyInv, Busy, m
<1>3. FreshInv'
  BY DEF FreshInv
<1>4. AttemptInv'
  BY <1>a, <1>b, <1>c DEF AttemptInv, m
<1>5. StageInv'
  <2>1. ASSUME NEW v \in Workers \ {w}, pc'[v] = "remove"
        PROVE  handled'[msg'[v]] > 0 \/ deadLetters'[msg'[v]] > 0
    BY <1>b, <2>1 DEF StageInv, BusyInv, Busy
  <2>2. QED
    BY <1>a, <1>b, <1>c, <2>1 DEF StageInv, m
<1>6. NeverLost'
  BY DEF NeverLost
<1>7. ArchivedOnlyWhenExhausted'
  BY DEF ArchivedOnlyWhenExhausted
<1>8. CountInv'
  <2>1. ASSUME NEW n \in Messages \ Poison, Loose(n)', ~Loose(n)
        PROVE  dequeueCount[n] <= MaxNumberProcessingAttempts
    <3>1. queue[n] = "hidden" /\ Held(n) /\ ~Held(n)'
      <4>1. queue'[n] = queue[n]
        OBVIOUS
      <4>2. QED
        BY <2>1, <4>1 DEF Loose
    <3>2. Holds(w, n) /\ ~Holds(w, n)'
      BY <1>b, <3>1 DEF Held, Holds
    <3>3. attempt[w] = dequeueCount[n] /\ n = m
      BY <3>2 DEF AttemptInv, Holds, m
    <3>4. attempt[w] <= MaxNumberProcessingAttempts
      BY <1>c, <3>2, <3>3 DEF Holds
    <3>5. QED
      BY <3>3, <3>4
  <2>2. QED
    BY <2>1 DEF CountInv
<1>9. AttemptsBounded'
  BY DEF AttemptsBounded
<1>10. QED
  BY <1>1, <1>2, <1>3, <1>4, <1>5, <1>6, <1>7, <1>8, <1>9

LEMMA ProcessStep ==
  ASSUME NEW w \in Workers, IInv, Process(w)
  PROVE  IInv'
<1> USE DEF IInv, TypeOK
<1>1. msg[w] \in Messages /\ attempt[w] \in Nat
  BY DEF Process, BusyInv, Busy
<1>2. PICK s \in CarriedOut \cup NothingToDo :
        /\ Settle(w, Disposition(Finished(s), attempt[w]))
        /\ handled' = [handled EXCEPT ![msg[w]] = IF "Success" \in s THEN @ + 1 ELSE @]
  BY DEF Process
<1>3. handled'[msg[w]] > 0 \/ "Success" \notin s
  BY <1>1, <1>2
<1>4. /\ handled' \in [Messages -> Nat]
      /\ \A m \in Messages : handled'[m] >= handled[m]
  BY <1>1, <1>2
<1>5. pc[w] = "process" /\ UNCHANGED <<serviceVars, deadLetters, faults>>
  BY DEF Process
<1>6. QED
  BY <1>1, <1>2, <1>3, <1>4, <1>5, ProcessedFacts, SettledStep

LEMMA RejectStep ==
  ASSUME NEW w \in Workers, IInv, RejectUnreadable(w)
  PROVE  IInv'
<1> USE DEF IInv, TypeOK
<1>1. msg[w] \in Unreadable /\ attempt[w] \in Nat
  BY DEF RejectUnreadable
<1>2. /\ deadLetters' \in [Messages -> Nat]
      /\ \A m \in Messages : deadLetters'[m] >= deadLetters[m]
      /\ \A m \in Messages \ Unreadable : deadLetters'[m] = deadLetters[m]
  BY <1>1 DEF RejectUnreadable
<1>3. /\ pc[w] = "process" /\ UNCHANGED <<serviceVars, handled, faults>>
      /\ Settle(w, Disposition(NotARequest, attempt[w]))
  BY DEF RejectUnreadable
<1>4. QED
  BY <1>1, <1>2, <1>3, NotARequestFacts, SettledStep

-----------------------------------------------------------------------------
LEMMA StutterStep ==
  ASSUME IInv, UNCHANGED vars
  PROVE  IInv'
BY DEF vars, IInv, TypeOK, BusyInv, FreshInv, AttemptInv, StageInv, NeverLost,
       ArchivedOnlyWhenExhausted, CountInv, Loose, Held, Holds, AttemptsBounded

LEMMA StepIInv == IInv /\ [Next]_vars => IInv'
<1> SUFFICES ASSUME IInv, [Next]_vars PROVE IInv'
  OBVIOUS
<1>1. CASE UNCHANGED vars
  BY <1>1, StutterStep
<1>2. CASE \E m \in Messages : Enqueue(m) \/ VisibilityTimeout(m)
  BY <1>2, EnqueueStep, TimeoutStep
<1>3. CASE \E w \in Workers : Work(w) \/ ReceiveFails(w) \/ AbandonDrain(w)
  BY <1>3, QuietStep, AbandonStep, PoisonStep, DeadLetterStep, DeleteStep, ProcessStep,
     RejectStep DEF Work
<1>4. CASE \E w \in Workers, m \in Messages : Receive(w, m)
  BY <1>4, ReceiveStep
<1>5. QED
  BY <1>1, <1>2, <1>3, <1>4 DEF Next

LEMMA InductiveInvariant == Spec => []IInv
BY InitIInv, StepIInv, PTL DEF Spec

(***************************************************************************)
(* Type correctness, for all constants.                                    *)
(***************************************************************************)
THEOREM TypeCorrect == Spec => []TypeOK
<1>1. IInv => TypeOK
  BY DEF IInv
<1>2. QED
  BY <1>1, InductiveInvariant, PTL

(***************************************************************************)
(* No message is lost: what left the queue was carried out or archived.    *)
(***************************************************************************)
THEOREM NoMessageLost == Spec => []NeverLost
<1>1. IInv => NeverLost
  BY DEF IInv
<1>2. QED
  BY <1>1, InductiveInvariant, PTL

(***************************************************************************)
(* A readable request is archived only past the configured limit.          *)
(***************************************************************************)
THEOREM ArchiveAfterLimit == Spec => []ArchivedOnlyWhenExhausted
<1>1. IInv => ArchivedOnlyWhenExhausted
  BY DEF IInv
<1>2. QED
  BY <1>1, InductiveInvariant, PTL

(***************************************************************************)
(* Retries are bounded: one delivery past the limit, one more per fault.   *)
(***************************************************************************)
THEOREM RetriesBounded == Spec => []AttemptsBounded
<1>1. IInv => AttemptsBounded
  BY DEF IInv
<1>2. QED
  BY <1>1, InductiveInvariant, PTL

-----------------------------------------------------------------------------
(***************************************************************************)
(* The removal is the latest receiver's, so nobody else holds the message. *)
(***************************************************************************)
THEOREM RemovalByReceiver == Spec => NoRemovalUnderway
<1>1. ASSUME IInv, [Next]_vars, NEW m \in Messages, NEW w \in Workers,
             queue[m] # "removed", queue'[m] = "removed", Holds(w, m)
      PROVE  msg'[w] = None
  <2>1. PICK v \in Workers : DeleteMessage(v) /\ queue' # queue
    BY <1>1 DEF Next, vars, IInv, TypeOK, Place, Enqueue, VisibilityTimeout, Work, StartDrain,
       Peek, Receive, ReceiveNothing, ReceiveFails, AbandonDrain, Process, RejectUnreadable,
       PoisonThrows, SendDeadLetter, DeleteMessage, serviceVars
  <2>2. popReceipt[msg[v]] = v /\ queue' = [queue EXCEPT ![msg[v]] = "removed"]
    BY <2>1 DEF DeleteMessage
  <2>3. msg[v] = m
    BY <1>1, <2>2 DEF IInv, TypeOK
  <2>4. v = w
    BY <1>1, <2>2, <2>3 DEF Holds
  <2>5. Unburdened(v, "peek")
    BY <2>1, <2>2 DEF DeleteMessage
  <2>6. QED
    BY <1>1, <2>4, <2>5 DEF Unburdened, IInv, TypeOK
<1>2. IInv /\ [Next]_vars =>
        [\A m \in Messages :
           queue[m] # "removed" /\ queue'[m] = "removed" =>
             \A w \in Workers : Holds(w, m) => msg'[w] = None]_vars
  BY <1>1
<1>3. QED
  BY <1>2, InductiveInvariant, PTL DEF Spec, NoRemovalUnderway

-----------------------------------------------------------------------------
(***************************************************************************)
(* The queue implements the promise made to its clients, MessageDisposal.  *)
(***************************************************************************)
THEOREM Implementation == Spec => ImplementsDisposal
<1>1. Init => Disposal!Init
  BY DEF Init, Disposal!Init
<1>2. ASSUME IInv, [Next]_vars
      PROVE  [Disposal!Next]_(Disposal!vars)
  <2> USE <1>2 DEF IInv, TypeOK
  <2> DEFINE arrived == {m \in Messages : queue[m] # "unsent"}
             done == {m \in Messages : handled[m] > 0}
             archived == {m \in Messages : deadLetters[m] > 0}
             removed == {m \in Messages : queue[m] = "removed"}
  <2>1. ASSUME UNCHANGED <<queue, deadLetters, handled>>
        PROVE  UNCHANGED Disposal!vars
    BY <2>1 DEF Disposal!vars
  <2>2. ASSUME NEW m \in Messages, Enqueue(m)
        PROVE  Disposal!Arrive(m)
    <3>1. queue[m] = "unsent" /\ queue' = [queue EXCEPT ![m] = "visible"]
          /\ UNCHANGED <<handled, deadLetters>>
      BY <2>2 DEF Enqueue
    <3>2. m \notin arrived /\ arrived' = arrived \cup {m} /\ removed' = removed
      BY <3>1
    <3>3. QED
      BY <3>1, <3>2 DEF Disposal!Arrive
  <2>3. ASSUME NEW m \in Messages, VisibilityTimeout(m)
        PROVE  UNCHANGED Disposal!vars
    BY <2>3 DEF VisibilityTimeout, Disposal!vars
  <2>4. ASSUME NEW w \in Workers, NEW m \in Messages, Receive(w, m)
        PROVE  UNCHANGED Disposal!vars
    BY <2>4 DEF Receive, Visible, Disposal!vars
  <2>5. ASSUME NEW w \in Workers, NEW m \in Messages, msg[w] = m, Process(w)
        PROVE  Disposal!Handle(m) \/ UNCHANGED Disposal!vars
    <3>1. m \in arrived /\ UNCHANGED <<queue, deadLetters>>
      BY <2>5 DEF Process, BusyInv, Busy, serviceVars
    <3>2. handled' = handled \/ handled' = [handled EXCEPT ![m] = @ + 1]
      BY <2>5 DEF Process
    <3>3. CASE handled' = handled
      BY <2>5, <3>1, <3>3, <2>1
    <3>4. CASE handled' = [handled EXCEPT ![m] = @ + 1]
      <4>1. done' = done \cup {m}
        BY <2>5, <3>1, <3>4
      <4>2. QED
        BY <2>5, <3>1, <4>1 DEF Disposal!Handle
    <3>5. QED
      BY <2>5, <3>2, <3>3, <3>4
  <2>6. ASSUME NEW w \in Workers, NEW m \in Messages, msg[w] = m,
               SendDeadLetter(w) \/ RejectUnreadable(w)
        PROVE  Disposal!Archive(m)
    <3>1. m \in arrived /\ UNCHANGED <<queue, handled>>
      BY <2>6 DEF SendDeadLetter, RejectUnreadable, BusyInv, Busy, serviceVars
    <3>2. archived' = archived \cup {m}
      BY <2>6, <3>1 DEF SendDeadLetter, RejectUnreadable
    <3>3. QED
      BY <2>6, <3>1, <3>2 DEF Disposal!Archive
  <2>7. ASSUME NEW w \in Workers, NEW m \in Messages, msg[w] = m, DeleteMessage(w)
        PROVE  Disposal!Remove(m) \/ UNCHANGED Disposal!vars
    <3>1. m \in arrived /\ m \in done \cup archived /\ UNCHANGED <<deadLetters, handled>>
      BY <2>7 DEF DeleteMessage, BusyInv, Busy, StageInv
    <3>2. CASE popReceipt[m] = w
      <4>1. queue' = [queue EXCEPT ![m] = "removed"]
        BY <2>7, <3>2 DEF DeleteMessage
      <4>2. m \notin removed
        BY <2>7, <3>1, <3>2 DEF AttemptInv
      <4>3. removed' = removed \cup {m} /\ arrived' = arrived
        BY <2>7, <3>1, <4>1
      <4>4. QED
        BY <2>7, <3>1, <4>2, <4>3 DEF Disposal!Remove
    <3>3. CASE popReceipt[m] # w
      BY <2>7, <3>1, <3>3, <2>1 DEF DeleteMessage
    <3>4. QED
      BY <2>7, <3>2, <3>3
  <2>8. \A w \in Workers :
          Process(w) \/ SendDeadLetter(w) \/ RejectUnreadable(w) \/ DeleteMessage(w)
            => msg[w] \in Messages
    BY DEF Process, SendDeadLetter, RejectUnreadable, DeleteMessage, BusyInv, Busy
  <2>9. ASSUME NEW w \in Workers,
               \/ StartDrain(w) \/ Peek(w) \/ ReceiveNothing(w) \/ ReceiveFails(w)
               \/ AbandonDrain(w) \/ PoisonThrows(w)
        PROVE  UNCHANGED Disposal!vars
    BY <2>1, <2>9 DEF StartDrain, Peek, ReceiveNothing, ReceiveFails, AbandonDrain, PoisonThrows,
       serviceVars
  <2>10. CASE UNCHANGED vars
    BY <2>1, <2>10 DEF vars
  <2>11. CASE Next
    <3>1. CASE \E m \in Messages : Enqueue(m) \/ VisibilityTimeout(m)
      BY <2>2, <2>3, <3>1 DEF Disposal!Next
    <3>2. CASE \E w \in Workers, m \in Messages : Receive(w, m)
      BY <2>4, <3>2
    <3>3. CASE \E w \in Workers : Work(w) \/ ReceiveFails(w) \/ AbandonDrain(w)
      <4>1. PICK w \in Workers : Work(w) \/ ReceiveFails(w) \/ AbandonDrain(w)
        BY <3>3
      <4>2. CASE Process(w) \/ SendDeadLetter(w) \/ RejectUnreadable(w) \/ DeleteMessage(w)
        <5>1. PICK m \in Messages : msg[w] = m
          BY <2>8, <4>2
        <5>2. \/ Disposal!Handle(m) \/ Disposal!Archive(m) \/ Disposal!Remove(m)
              \/ UNCHANGED Disposal!vars
          BY <2>5, <2>6, <2>7, <4>2, <5>1
        <5>3. QED
          BY <5>2 DEF Disposal!Next
      <4>3. CASE \/ StartDrain(w) \/ Peek(w) \/ ReceiveNothing(w) \/ ReceiveFails(w)
                 \/ AbandonDrain(w) \/ PoisonThrows(w)
        BY <2>9, <4>3
      <4>4. QED
        BY <4>1, <4>2, <4>3 DEF Work
    <3>4. QED
      BY <2>11, <3>1, <3>2, <3>3 DEF Next
  <2>12. QED
    BY <2>10, <2>11
<1>3. QED
  BY <1>1, <1>2, InductiveInvariant, PTL DEF Spec, ImplementsDisposal, Disposal!Spec

-----------------------------------------------------------------------------
(* Settlements.  That a request is settled once, and once more for each    *)
(* fault, is an account: carrying a request out, archiving it, and a       *)
(* worker that may still do either are debits; a fault and the one worker  *)
(* that has the message are credits.                                       *)

\* The messages whose settlements are counted: requests that can be read.
Request == Messages \ (DoNothing \cup Unreadable)

\* The workers that may still carry out, or archive, m.
Pending(m) == {w \in Workers : msg[w] = m /\ pc[w] \in {"process", "archive"}}

\* One settlement is free: for the message that was removed, and for the one
\* that its latest receiver still has to itself.
Credit(m) ==
  IF queue[m] = "removed" \/ (queue[m] = "hidden" /\ Held(m)) THEN 1 ELSE 0

Account(m) == handled[m] + deadLetters[m] + Cardinality(Pending(m)) <= faults + Credit(m)

AccountInv == \A m \in Request : Account(m)

-----------------------------------------------------------------------------
LEMMA PendingFinite ==
  ASSUME NEW m
  PROVE  IsFiniteSet(Pending(m)) /\ Cardinality(Pending(m)) \in Nat
<1>1. Pending(m) \in SUBSET Workers
  BY DEF Pending
<1>2. IsFiniteSet(Workers)
  BY MessagesAssumption
<1>3. IsFiniteSet(Pending(m))
  BY <1>1, <1>2, FS_Subset
<1>4. QED
  BY <1>3, FS_CardinalityType

\* A step of one worker adds or takes at most that worker.
LEMMA PendingChange ==
  ASSUME NEW m, NEW w \in Workers,
         \A v \in Workers \ {w} : pc'[v] = pc[v] /\ msg'[v] = msg[v]
  PROVE  /\ w \in Pending(m) /\ w \notin Pending(m)' =>
              Cardinality(Pending(m)') = Cardinality(Pending(m)) - 1
         /\ w \notin Pending(m) /\ w \in Pending(m)' =>
              Cardinality(Pending(m)') = Cardinality(Pending(m)) + 1
         /\ (w \in Pending(m) <=> w \in Pending(m)') =>
              Cardinality(Pending(m)') = Cardinality(Pending(m))
<1>1. IsFiniteSet(Pending(m))
  BY PendingFinite
<1>2. ASSUME w \in Pending(m), w \notin Pending(m)'
      PROVE  Cardinality(Pending(m)') = Cardinality(Pending(m)) - 1
  <2>1. Pending(m)' = Pending(m) \ {w}
    BY <1>2 DEF Pending
  <2>2. QED
    BY <1>1, <1>2, <2>1, FS_RemoveElement
<1>3. ASSUME w \notin Pending(m), w \in Pending(m)'
      PROVE  Cardinality(Pending(m)') = Cardinality(Pending(m)) + 1
  <2>1. Pending(m)' = Pending(m) \cup {w}
    BY <1>3 DEF Pending
  <2>2. QED
    BY <1>1, <1>3, <2>1, FS_AddElement
<1>4. ASSUME w \in Pending(m) <=> w \in Pending(m)'
      PROVE  Cardinality(Pending(m)') = Cardinality(Pending(m))
  <2>1. Pending(m)' = Pending(m)
    BY <1>4 DEF Pending
  <2>2. QED
    BY <2>1
<1>5. QED
  BY <1>2, <1>3, <1>4

\* When the workers of m and their messages are the same, so is what is pending.
LEMMA PendingSame ==
  ASSUME NEW m, \A v \in Workers : msg[v] = m \/ msg'[v] = m => pc'[v] = pc[v] /\ msg'[v] = msg[v]
  PROVE  Pending(m)' = Pending(m)
BY DEF Pending

LEMMA InitAccount == Init => AccountInv
<1> SUFFICES ASSUME Init, NEW m \in Request PROVE Account(m)
  BY DEF AccountInv
<1>1. Pending(m) = {}
  BY DEF Init, Pending
<1>2. Cardinality(Pending(m)) = 0
  BY <1>1, FS_EmptySet
<1>3. QED
  BY <1>2 DEF Init, Account, Credit, Request

-----------------------------------------------------------------------------
LEMMA EnqueueAccount ==
  ASSUME NEW n \in Messages, IInv, AccountInv, Enqueue(n)
  PROVE  AccountInv'
<1> SUFFICES ASSUME NEW m \in Request PROVE Account(m)'
  BY DEF AccountInv, Request
<1>1. Pending(m)' = Pending(m)
  BY PendingSame DEF Enqueue, workerVars
<1>2. Credit(m)' = Credit(m)
  BY DEF Enqueue, workerVars, Credit, Held, Holds, IInv, TypeOK, Request
<1>3. QED
  BY <1>1, <1>2 DEF AccountInv, Account, Enqueue

LEMMA TimeoutAccount ==
  ASSUME NEW n \in Messages, IInv, AccountInv, VisibilityTimeout(n)
  PROVE  AccountInv'
<1> SUFFICES ASSUME NEW m \in Request PROVE Account(m)'
  BY DEF AccountInv, Request
<1>0. m \in Messages /\ Account(m)
  BY DEF AccountInv, Request
<1>1. Pending(m)' = Pending(m)
  BY PendingSame DEF VisibilityTimeout, workerVars
<1>2. /\ Cardinality(Pending(m)) \in Nat /\ faults \in Nat
      /\ handled[m] \in Nat /\ deadLetters[m] \in Nat
  BY <1>0, PendingFinite DEF IInv, TypeOK
<1>3. CASE m = n /\ Held(n)
  <2>1. faults' = faults + 1 /\ Credit(m) = 1
    BY <1>3 DEF VisibilityTimeout, Fault, Credit
  <2>2. Credit(m)' \in {0, 1}
    BY DEF Credit
  <2>3. QED
    BY <1>0, <1>1, <1>2, <2>1, <2>2 DEF Account, VisibilityTimeout
<1>4. CASE ~(m = n /\ Held(n))
  <2>1. Credit(m)' = Credit(m)
    BY <1>0, <1>4 DEF VisibilityTimeout, workerVars, Credit, Held, Holds, IInv, TypeOK
  <2>2. faults' \in Nat /\ faults' >= faults
    BY <1>2 DEF VisibilityTimeout, Fault
  <2>3. Credit(m) \in {0, 1}
    BY DEF Credit
  <2>4. QED
    BY <1>0, <1>1, <1>2, <2>1, <2>2, <2>3 DEF Account, VisibilityTimeout
<1>5. QED
  BY <1>3, <1>4

LEMMA QuietAccount ==
  ASSUME NEW w \in Workers, IInv, AccountInv,
         StartDrain(w) \/ Peek(w) \/ ReceiveNothing(w) \/ ReceiveFails(w)
  PROVE  AccountInv'
<1> SUFFICES ASSUME NEW m \in Request PROVE Account(m)'
  BY DEF AccountInv, Request
<1> USE DEF StartDrain, Peek, ReceiveNothing, ReceiveFails, serviceVars
<1>0. m \in Messages /\ Account(m)
  BY DEF AccountInv, Request
<1>1. Pending(m)' = Pending(m)
  BY DEF Pending, IInv, TypeOK
<1>2. /\ Cardinality(Pending(m)) \in Nat /\ faults \in Nat
      /\ handled[m] \in Nat /\ deadLetters[m] \in Nat
  BY <1>0, PendingFinite DEF IInv, TypeOK
<1>3. Credit(m)' = Credit(m) /\ Credit(m) \in {0, 1}
  BY DEF Credit, Held, Holds
<1>4. faults' \in Nat /\ faults' >= faults /\ UNCHANGED <<handled, deadLetters>>
  BY <1>2 DEF Fault
<1>5. QED
  BY <1>0, <1>1, <1>2, <1>3, <1>4 DEF Account

LEMMA ReceiveAccount ==
  ASSUME NEW w \in Workers, NEW n \in Messages, IInv, AccountInv, Receive(w, n)
  PROVE  AccountInv'
<1> SUFFICES ASSUME NEW m \in Request PROVE Account(m)'
  BY DEF AccountInv, Request
<1>0. m \in Messages /\ Account(m)
  BY DEF AccountInv, Request
<1>1. /\ pc' = [pc EXCEPT ![w] = "process"] /\ msg' = [msg EXCEPT ![w] = n]
      /\ pc \in [Workers -> Step] /\ msg \in [Workers -> Messages \cup {None}]
      /\ pc[w] = "receive"
  BY DEF Receive, IInv, TypeOK
<1>2. /\ Cardinality(Pending(m)) \in Nat /\ faults \in Nat
      /\ handled[m] \in Nat /\ deadLetters[m] \in Nat
      /\ UNCHANGED <<handled, deadLetters, faults>>
  BY <1>0, PendingFinite DEF IInv, TypeOK, Receive
<1>3. w \notin Pending(m)
  BY <1>1 DEF Pending
<1>4. \A v \in Workers \ {w} : pc'[v] = pc[v] /\ msg'[v] = msg[v]
  BY <1>1
<1>5. CASE m = n
  <2>1. w \in Pending(m)'
    BY <1>1, <1>5 DEF Pending
  <2>2. Credit(m) = 0
    BY <1>5 DEF Receive, Visible, Credit
  <2>3. Credit(m)' = 1
    BY <1>0, <1>1, <1>5 DEF Receive, Credit, Held, Holds, IInv, TypeOK
  <2>4. QED
    BY <1>0, <1>2, <1>3, <1>4, <2>1, <2>2, <2>3, PendingChange DEF Account
<1>6. CASE m # n
  <2>1. w \notin Pending(m)'
    BY <1>1, <1>6 DEF Pending
  <2>2. msg[w] = None
    BY <1>1 DEF IInv, BusyInv, Busy
  <2>3. queue'[m] = queue[m] /\ popReceipt'[m] = popReceipt[m]
    BY <1>0, <1>6 DEF Receive, IInv, TypeOK
  <2>4. Held(m)' <=> Held(m)
    BY <1>0, <1>1, <1>6, <2>2, <2>3, MessagesAssumption DEF Held, Holds
  <2>5. Credit(m)' = Credit(m)
    BY <2>3, <2>4 DEF Credit
  <2>6. QED
    BY <1>0, <1>2, <1>3, <1>4, <2>1, <2>5, PendingChange DEF Account
<1>7. QED
  BY <1>5, <1>6

-----------------------------------------------------------------------------
(***************************************************************************)
(* A busy worker goes on with its message, or lets go of it.  What it      *)
(* settles in the step, it no longer has pending; the credit it gives back *)
(* with the message was paid by a fault, or by what it had pending.        *)
(***************************************************************************)
LEMMA WorkerAccount ==
  ASSUME NEW w \in Workers, IInv, AccountInv, NEW n \in Messages, msg[w] = n,
         \A v \in Workers \ {w} : pc'[v] = pc[v] /\ msg'[v] = msg[v],
         UNCHANGED <<queue, popReceipt>>,
         msg'[w] \in {n, None},
         handled' \in [Messages -> Nat], deadLetters' \in [Messages -> Nat], faults' \in Nat,
         faults' >= faults,
         \A m \in Messages \ {n} : handled'[m] = handled[m] /\ deadLetters'[m] = deadLetters[m],
         n \in Request =>
           LET cost == (handled'[n] + deadLetters'[n]) - (handled[n] + deadLetters[n])
               done == (IF w \in Pending(n) THEN 1 ELSE 0) - (IF w \in Pending(n)' THEN 1 ELSE 0)
               back == IF popReceipt[n] = w /\ msg'[w] = None THEN 1 ELSE 0
           IN  cost + back <= done + (faults' - faults)
  PROVE  AccountInv'
<1> SUFFICES ASSUME NEW m \in Request PROVE Account(m)'
  BY DEF AccountInv, Request
<1>0. m \in Messages /\ Account(m)
  BY DEF AccountInv, Request
<1>1. /\ Cardinality(Pending(m)) \in Nat /\ faults \in Nat
      /\ handled[m] \in Nat /\ deadLetters[m] \in Nat
      /\ handled'[m] \in Nat /\ deadLetters'[m] \in Nat
  BY <1>0, PendingFinite DEF IInv, TypeOK
<1>2. Credit(m) \in {0, 1} /\ Credit(m)' \in {0, 1}
  BY DEF Credit
<1>3. CASE m # n
  <2>1. w \notin Pending(m) /\ w \notin Pending(m)'
    BY <1>0, <1>3, MessagesAssumption DEF Pending
  <2>2. Cardinality(Pending(m)') = Cardinality(Pending(m))
    BY <2>1, PendingChange
  <2>3. Held(m)' <=> Held(m)
    BY <1>0, <1>3, MessagesAssumption DEF Held, Holds
  <2>4. Credit(m)' = Credit(m)
    BY <2>3 DEF Credit
  <2>5. QED
    BY <1>0, <1>1, <1>2, <1>3, <2>2, <2>4 DEF Account
<1>4. CASE m = n
  <2> DEFINE before == IF w \in Pending(m) THEN 1 ELSE 0
             after == IF w \in Pending(m)' THEN 1 ELSE 0
             back == IF popReceipt[m] = w /\ msg'[w] = None THEN 1 ELSE 0
  <2>1. Cardinality(Pending(m)') = (Cardinality(Pending(m)) - before) + after
    BY <1>1, PendingChange
  <2>2. Credit(m)' >= Credit(m) - back
    <3>1. CASE popReceipt[m] = w /\ msg'[w] = None
      BY <1>2, <3>1
    <3>2. CASE ~(popReceipt[m] = w /\ msg'[w] = None)
      <4>1. Held(m) => Held(m)'
        BY <1>0, <1>4, <3>2 DEF Held, Holds
      <4>2. QED
        BY <4>1, <1>2 DEF Credit
    <3>3. QED
      BY <3>1, <3>2
  <2>3. (handled'[m] + deadLetters'[m]) - (handled[m] + deadLetters[m]) + back
          <= (before - after) + (faults' - faults)
    BY <1>4
  <2>4. before \in {0, 1} /\ after \in {0, 1} /\ back \in {0, 1}
    OBVIOUS
  <2> HIDE DEF before, after, back
  <2>5. QED
    BY <1>0, <1>1, <1>2, <2>1, <2>2, <2>3, <2>4 DEF Account
<1>5. QED
  BY <1>3, <1>4

LEMMA AbandonAccount ==
  ASSUME NEW w \in Workers, IInv, AccountInv, AbandonDrain(w)
  PROVE  AccountInv'
<1>1. /\ \A v \in Workers \ {w} : pc'[v] = pc[v] /\ msg'[v] = msg[v]
      /\ pc'[w] = "idle" /\ msg'[w] = None
      /\ faults' = faults + 1 /\ faults \in Nat /\ faults' \in Nat
      /\ UNCHANGED <<queue, popReceipt, handled, deadLetters>>
      /\ handled \in [Messages -> Nat] /\ deadLetters \in [Messages -> Nat]
  BY DEF AbandonDrain, Unburdened, Fault, serviceVars, IInv, TypeOK
<1>2. CASE msg[w] = None
  <2> SUFFICES ASSUME NEW m \in Request PROVE Account(m)'
    BY DEF AccountInv, Request
  <2>1. m \in Messages /\ m # None /\ Account(m) /\ Cardinality(Pending(m)) \in Nat
    BY PendingFinite, MessagesAssumption DEF AccountInv, Request
  <2>2. Pending(m)' = Pending(m)
    BY <1>1, <1>2, <2>1 DEF Pending
  <2>3. Credit(m)' = Credit(m) /\ Credit(m) \in {0, 1}
    BY <1>1, <1>2, <2>1 DEF Credit, Held, Holds
  <2>4. handled[m] \in Nat /\ deadLetters[m] \in Nat
    BY <1>1, <2>1
  <2>5. QED
    BY <1>1, <2>1, <2>2, <2>3, <2>4 DEF Account
<1>3. ASSUME NEW n \in Messages, msg[w] = n PROVE AccountInv'
  <2>1. handled'[n] + deadLetters'[n] = handled[n] + deadLetters[n] /\ handled[n] + deadLetters[n] \in Nat
    BY <1>1
  <2>2. w \notin Pending(n)'
    BY <1>1 DEF Pending
  <2>3. LET cost == (handled'[n] + deadLetters'[n]) - (handled[n] + deadLetters[n])
            done == (IF w \in Pending(n) THEN 1 ELSE 0) - (IF w \in Pending(n)' THEN 1 ELSE 0)
            back == IF popReceipt[n] = w /\ msg'[w] = None THEN 1 ELSE 0
        IN  cost + back <= done + (faults' - faults)
    BY <1>1, <2>1, <2>2
  <2>4. QED
    BY <1>1, <1>3, <2>3, WorkerAccount
<1>4. QED
  BY <1>2, <1>3 DEF IInv, TypeOK

LEMMA PoisonAccount ==
  ASSUME NEW w \in Workers, IInv, AccountInv, PoisonThrows(w)
  PROVE  AccountInv'
<1> DEFINE n == msg[w]
<1>1. /\ \A v \in Workers \ {w} : pc'[v] = pc[v] /\ msg'[v] = msg[v]
      /\ pc[w] = "process" /\ pc'[w] = "idle" /\ msg'[w] = None
      /\ UNCHANGED <<queue, popReceipt, handled, deadLetters, faults>>
      /\ handled \in [Messages -> Nat] /\ deadLetters \in [Messages -> Nat] /\ faults \in Nat
      /\ n \in Messages
  BY MessagesAssumption DEF PoisonThrows, Unburdened, serviceVars, IInv, TypeOK
<1>2. w \in Pending(n)
  BY <1>1 DEF Pending
<1>3. PICK k \in Messages : msg[w] = k
  BY <1>1
<1>4. w \in Pending(k) /\ w \notin Pending(k)'
  BY <1>1, <1>2, <1>3 DEF Pending
<1>5. handled'[k] + deadLetters'[k] = handled[k] + deadLetters[k] /\ handled[k] + deadLetters[k] \in Nat
  BY <1>1
<1>6. QED
  BY <1>1, <1>3, <1>4, <1>5, WorkerAccount

LEMMA DeadLetterAccount ==
  ASSUME NEW w \in Workers, IInv, AccountInv, SendDeadLetter(w)
  PROVE  AccountInv'
<1>1. PICK k \in Messages : msg[w] = k
  BY DEF SendDeadLetter, IInv, TypeOK, BusyInv, Busy
<1>2. /\ \A v \in Workers \ {w} : pc'[v] = pc[v] /\ msg'[v] = msg[v]
      /\ pc[w] = "archive" /\ pc'[w] = "remove" /\ msg'[w] = k
      /\ UNCHANGED <<queue, popReceipt, handled, faults>>
      /\ deadLetters' = [deadLetters EXCEPT ![k] = @ + 1]
      /\ handled \in [Messages -> Nat] /\ deadLetters \in [Messages -> Nat] /\ faults \in Nat
  BY <1>1 DEF SendDeadLetter, Proceed, serviceVars, IInv, TypeOK
<1>3. w \in Pending(k) /\ w \notin Pending(k)' /\ k # None
  BY <1>1, <1>2, MessagesAssumption DEF Pending
<1>4. /\ deadLetters' \in [Messages -> Nat]
      /\ \A m \in Messages \ {k} : deadLetters'[m] = deadLetters[m]
      /\ (handled'[k] + deadLetters'[k]) - (handled[k] + deadLetters[k]) = 1
  BY <1>2
<1>5. QED
  BY <1>1, <1>2, <1>3, <1>4, WorkerAccount

LEMMA DeleteAccount ==
  ASSUME NEW w \in Workers, IInv, AccountInv, DeleteMessage(w)
  PROVE  AccountInv'
<1>1. PICK k \in Messages : msg[w] = k
  BY DEF DeleteMessage, IInv, TypeOK, BusyInv, Busy
<1>2. /\ \A v \in Workers \ {w} : pc'[v] = pc[v] /\ msg'[v] = msg[v]
      /\ pc[w] = "remove" /\ pc'[w] \in {"peek", "idle"} /\ msg'[w] = None
      /\ UNCHANGED <<popReceipt, handled, deadLetters, faults>>
      /\ handled \in [Messages -> Nat] /\ deadLetters \in [Messages -> Nat] /\ faults \in Nat
      /\ queue \in [Messages -> Place]
  BY <1>1 DEF DeleteMessage, Unburdened, IInv, TypeOK
<1>3. \A m : w \notin Pending(m) /\ w \notin Pending(m)'
  BY <1>2 DEF Pending
<1> SUFFICES ASSUME NEW m \in Request PROVE Account(m)'
  BY DEF AccountInv, Request
<1>4. m \in Messages /\ m # None /\ Account(m)
  BY MessagesAssumption DEF AccountInv, Request
<1>5. Cardinality(Pending(m)') = Cardinality(Pending(m)) /\ Cardinality(Pending(m)) \in Nat
  BY <1>2, <1>3, PendingFinite, PendingChange
<1>6. Credit(m)' >= Credit(m)
  <2>1. CASE m = k /\ popReceipt[k] = w
    <3>1. queue'[m] = "removed"
      BY <1>1, <1>2, <2>1 DEF DeleteMessage
    <3>2. QED
      BY <3>1 DEF Credit
  <2>2. CASE ~(m = k /\ popReceipt[k] = w)
    <3>1. queue'[m] = queue[m]
      BY <1>1, <1>2, <1>4, <2>2 DEF DeleteMessage
    <3>2. Held(m) => Held(m)'
      BY <1>1, <1>2, <1>4, <2>2 DEF Held, Holds
    <3>3. QED
      BY <3>1, <3>2 DEF Credit
  <2>3. QED
    BY <2>1, <2>2
<1>7. /\ handled[m] \in Nat /\ deadLetters[m] \in Nat
      /\ Credit(m) \in {0, 1} /\ Credit(m)' \in {0, 1}
  BY <1>2, <1>4 DEF Credit
<1>8. QED
  BY <1>2, <1>4, <1>5, <1>6, <1>7 DEF Account

\* What a worker does next with its message, in the terms of the account.
LEMMA SettleOutcome ==
  ASSUME NEW w \in Workers, NEW d, TypeOK, Settle(w, d)
  PROVE  /\ \A v \in Workers \ {w} : pc'[v] = pc[v] /\ msg'[v] = msg[v]
         /\ \/ "DeadLetter" \in d /\ pc'[w] = "archive" /\ msg'[w] = msg[w]
            \/ "DeadLetter" \notin d /\ "DeleteMessage" \in d /\ pc'[w] = "remove" /\ msg'[w] = msg[w]
            \/ "DeleteMessage" \notin d /\ pc'[w] = "peek" /\ msg'[w] = None
BY DEF TypeOK, Settle, Proceed, Unburdened

LEMMA ProcessAccount ==
  ASSUME NEW w \in Workers, IInv, AccountInv, Process(w)
  PROVE  AccountInv'
<1>1. PICK k \in Messages : msg[w] = k
  BY DEF Process, IInv, TypeOK, BusyInv, Busy
<1>2. PICK s \in IF k \in DoNothing THEN NothingToDo ELSE CarriedOut :
        /\ Settle(w, Disposition(Finished(s), attempt[w]))
        /\ handled' = [handled EXCEPT ![k] = IF "Success" \in s THEN @ + 1 ELSE @]
  BY <1>1 DEF Process
<1>3. /\ pc[w] = "process" /\ attempt[w] \in Nat /\ TypeOK
      /\ UNCHANGED <<queue, popReceipt, deadLetters, faults>>
      /\ handled \in [Messages -> Nat] /\ deadLetters \in [Messages -> Nat] /\ faults \in Nat
  BY DEF Process, serviceVars, IInv, TypeOK
<1> DEFINE d == Disposition(Finished(s), attempt[w])
<1>4. /\ \A v \in Workers \ {w} : pc'[v] = pc[v] /\ msg'[v] = msg[v]
      /\ \/ "DeadLetter" \in d /\ pc'[w] = "archive" /\ msg'[w] = k
         \/ "DeadLetter" \notin d /\ "DeleteMessage" \in d /\ pc'[w] = "remove" /\ msg'[w] = k
         \/ "DeleteMessage" \notin d /\ pc'[w] = "peek" /\ msg'[w] = None
  BY <1>1, <1>2, <1>3, SettleOutcome
<1>5. k \in Request /\ "Success" \in s => pc'[w] = "remove" /\ msg'[w] = k
  BY <1>2, <1>3, <1>4, SuccessIsRemoved DEF Request
<1>6. w \in Pending(k) /\ k # None
  BY <1>1, <1>3, MessagesAssumption DEF Pending
<1>7. /\ handled' \in [Messages -> Nat]
      /\ \A m \in Messages \ {k} : handled'[m] = handled[m]
      /\ handled'[k] - handled[k] = IF "Success" \in s THEN 1 ELSE 0
  BY <1>2, <1>3
<1>8. w \in Pending(k)' <=> pc'[w] = "archive"
  BY <1>4 DEF Pending
<1>9. ASSUME k \in Request
      PROVE  LET cost == (handled'[k] + deadLetters'[k]) - (handled[k] + deadLetters[k])
                 done == (IF w \in Pending(k) THEN 1 ELSE 0) - (IF w \in Pending(k)' THEN 1 ELSE 0)
                 back == IF popReceipt[k] = w /\ msg'[w] = None THEN 1 ELSE 0
             IN  cost + back <= done + (faults' - faults)
  <2>1. handled[k] \in Nat /\ handled'[k] \in Nat /\ deadLetters[k] \in Nat /\ deadLetters'[k] = deadLetters[k]
    BY <1>3, <1>7
  <2>2. CASE "Success" \in s
    BY <1>3, <1>5, <1>6, <1>7, <1>8, <1>9, <2>1, <2>2
  <2>3. CASE "Success" \notin s
    <3>1. handled'[k] = handled[k]
      BY <1>7, <2>1, <2>3
    <3>2. CASE pc'[w] = "archive"
      BY <1>3, <1>4, <1>6, <1>8, <2>1, <3>1, <3>2
    <3>3. CASE pc'[w] # "archive"
      BY <1>3, <1>6, <1>8, <2>1, <3>1, <3>3
    <3>4. QED
      BY <3>2, <3>3
  <2>4. QED
    BY <2>2, <2>3
<1>10. msg'[w] \in {k, None}
  BY <1>4
<1> HIDE DEF d
<1>11. QED
  BY <1>1, <1>3, <1>4, <1>7, <1>9, <1>10, WorkerAccount

LEMMA RejectAccount ==
  ASSUME NEW w \in Workers, IInv, AccountInv, RejectUnreadable(w)
  PROVE  AccountInv'
<1>1. PICK k \in Messages : msg[w] = k /\ k \in Unreadable
  BY MessagesAssumption DEF RejectUnreadable
<1>2. /\ UNCHANGED <<queue, popReceipt, handled, faults>> /\ TypeOK
      /\ deadLetters' = [deadLetters EXCEPT ![k] = @ + 1]
      /\ handled \in [Messages -> Nat] /\ deadLetters \in [Messages -> Nat] /\ faults \in Nat
      /\ Settle(w, Disposition(NotARequest, attempt[w]))
  BY <1>1 DEF RejectUnreadable, serviceVars, IInv, TypeOK
<1>3. /\ \A v \in Workers \ {w} : pc'[v] = pc[v] /\ msg'[v] = msg[v]
      /\ msg'[w] \in {k, None}
  BY <1>1, <1>2, SettleOutcome
<1>4. /\ deadLetters' \in [Messages -> Nat]
      /\ \A m \in Messages \ {k} : deadLetters'[m] = deadLetters[m]
  BY <1>2
<1>5. k \notin Request
  BY <1>1 DEF Request
<1>6. QED
  BY <1>1, <1>2, <1>3, <1>4, <1>5, WorkerAccount

-----------------------------------------------------------------------------
LEMMA AccountStep == IInv /\ AccountInv /\ [Next]_vars => AccountInv'
<1> SUFFICES ASSUME IInv, AccountInv, [Next]_vars PROVE AccountInv'
  OBVIOUS
<1>1. CASE UNCHANGED vars
  BY <1>1 DEF vars, AccountInv, Account, Pending, Credit, Held, Holds
<1>2. CASE \E m \in Messages : Enqueue(m) \/ VisibilityTimeout(m)
  BY <1>2, EnqueueAccount, TimeoutAccount
<1>3. CASE \E w \in Workers : Work(w) \/ ReceiveFails(w) \/ AbandonDrain(w)
  BY <1>3, QuietAccount, AbandonAccount, PoisonAccount, DeadLetterAccount, DeleteAccount,
     ProcessAccount, RejectAccount DEF Work
<1>4. CASE \E w \in Workers, m \in Messages : Receive(w, m)
  BY <1>4, ReceiveAccount
<1>5. QED
  BY <1>1, <1>2, <1>3, <1>4 DEF Next

(***************************************************************************)
(* A request is settled, carried out or archived, at most once more than   *)
(* there were faults, for any number of workers and messages.              *)
(***************************************************************************)
THEOREM SettledOnce == Spec => []SettledOncePerFault
<1>1. IInv /\ AccountInv => SettledOncePerFault
  <2> SUFFICES ASSUME IInv, AccountInv, NEW m \in Request
               PROVE  handled[m] + deadLetters[m] <= 1 + faults
    BY DEF SettledOncePerFault, Request
  <2>1. Account(m) /\ Cardinality(Pending(m)) \in Nat /\ m \in Messages
    BY PendingFinite DEF AccountInv, Request
  <2>2. Credit(m) \in {0, 1}
    BY DEF Credit
  <2>3. handled[m] \in Nat /\ deadLetters[m] \in Nat /\ faults \in Nat
    BY <2>1 DEF IInv, TypeOK
  <2>4. QED
    BY <2>1, <2>2, <2>3 DEF Account
<1>2. QED
  BY <1>1, InitIInv, InitAccount, StepIInv, AccountStep, PTL DEF Spec

=============================================================================
