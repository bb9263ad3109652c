------------------------- MODULE MessageProcessing --------------------------
(***************************************************************************)
(* One Azure storage queue, its dead-letter queue, and the workers that    *)
(* drain it.  A worker is the QueueMonitor of this queue in one running    *)
(* host: hosts are replicated, and the console host and the API host run   *)
(* the same monitors, so several workers drain one queue.                  *)
(*                                                                         *)
(* The queue itself is a service outside the repository.  It is modelled   *)
(* by what the monitor relies on: a received message is hidden for a       *)
(* visibility timeout and returns when it is not deleted by then, every    *)
(* receive counts a dequeue and gives out a new pop receipt, and only the  *)
(* latest pop receipt deletes.                                             *)
(***************************************************************************)
EXTENDS ProcessingStatus, FiniteSets

CONSTANTS
  Messages,    \* the messages that may be put on the queue
  Workers,     \* the queue monitors draining it
  None,        \* no message, no worker
  DoNothing,   \* messages that are events nobody acts on (raw queue)
  Unreadable,  \* messages whose text is no request (formatted queue)
  Poison,      \* messages whose handling throws past the handler (formatted queue)
  MaxFaults,   \* bound on crashes, failed calls and premature timeouts
  DequeueCap   \* bound on the dequeue count: it is not counted further

ASSUME MessagesAssumption ==
  /\ DoNothing \subseteq Messages /\ Unreadable \subseteq Messages /\ Poison \subseteq Messages
  /\ DoNothing \cap Unreadable = {}
  /\ Poison \cap (DoNothing \cup Unreadable) = {}
  /\ None \notin Messages \cup Workers
  /\ IsFiniteSet(Workers)
ASSUME BoundsAssumption ==
  /\ MaxFaults \in Nat
  /\ DequeueCap \in Nat
  /\ DequeueCap > MaxNumberProcessingAttempts

VARIABLES
  queue,         \* where each message is
  dequeueCount,  \* how often each message was received
  popReceipt,    \* the worker whose receive of the message was the latest
  deadLetters,   \* copies of each message on the dead-letter queue
  handled,       \* how often each message's request was carried out
  pc,            \* where each worker is in its drain
  msg,           \* the message a worker works on
  attempt,       \* the DequeueCount that came with it
  faults         \* faults so far

serviceVars == <<queue, dequeueCount, popReceipt>>
workerVars == <<pc, msg, attempt>>
vars == <<queue, dequeueCount, popReceipt, deadLetters, handled, pc, msg, attempt, faults>>

Place == {"unsent", "visible", "hidden", "removed"}
Step == {"idle", "peek", "receive", "process", "archive", "remove"}
Busy == {"process", "archive", "remove"}

TypeOK ==
  /\ queue \in [Messages -> Place]
  /\ dequeueCount \in [Messages -> 0..DequeueCap]
  /\ popReceipt \in [Messages -> Workers \cup {None}]
  /\ deadLetters \in [Messages -> Nat]
  /\ handled \in [Messages -> Nat]
  /\ pc \in [Workers -> Step]
  /\ msg \in [Workers -> Messages \cup {None}]
  /\ attempt \in [Workers -> 0..DequeueCap]
  /\ faults \in 0..MaxFaults

Init ==
  /\ queue = [m \in Messages |-> "unsent"]
  /\ dequeueCount = [m \in Messages |-> 0]
  /\ popReceipt = [m \in Messages |-> None]
  /\ deadLetters = [m \in Messages |-> 0]
  /\ handled = [m \in Messages |-> 0]
  /\ pc = [w \in Workers |-> "idle"]
  /\ msg = [w \in Workers |-> None]
  /\ attempt = [w \in Workers |-> 0]
  /\ faults = 0

-----------------------------------------------------------------------------
Visible == {m \in Messages : queue[m] = "visible"}

\* w still works on m, and nobody received m after it
Holds(w, m) == msg[w] = m /\ popReceipt[m] = w
Held(m) == \E w \in Workers : Holds(w, m)

Fault == faults < MaxFaults /\ faults' = faults + 1

\* w is at step s without a message: between messages or between drains
Unburdened(w, s) ==
  /\ pc' = [pc EXCEPT ![w] = s]
  /\ msg' = [msg EXCEPT ![w] = None]
  /\ attempt' = [attempt EXCEPT ![w] = 0]

\* w goes on with its message
Proceed(w, s) == pc' = [pc EXCEPT ![w] = s] /\ UNCHANGED <<msg, attempt>>

-----------------------------------------------------------------------------
(* The environment: whoever puts messages on the queue, and the queue.     *)

Enqueue(m) ==
  /\ queue[m] = "unsent"
  /\ queue' = [queue EXCEPT ![m] = "visible"]
  /\ UNCHANGED <<dequeueCount, popReceipt, deadLetters, handled, workerVars, faults>>

\* A hidden message returns.  It is a fault when its worker is not done with it:
\* the processing took longer than the visibility timeout.
VisibilityTimeout(m) ==
  /\ queue[m] = "hidden"
  /\ queue' = [queue EXCEPT ![m] = "visible"]
  /\ IF Held(m) THEN Fault ELSE UNCHANGED faults
  /\ UNCHANGED <<dequeueCount, popReceipt, deadLetters, handled, workerVars>>

-----------------------------------------------------------------------------
(* The drain: QueueMonitor.ProcessPendingMessagesAsync, started by the     *)
(* host's loop again and again.                                            *)

StartDrain(w) ==
  /\ pc[w] = "idle"
  /\ pc' = [pc EXCEPT ![w] = "peek"]
  /\ UNCHANGED <<serviceVars, deadLetters, handled, msg, attempt, faults>>

\* The drain ends when a peek finds nothing to receive.
Peek(w) ==
  /\ pc[w] = "peek"
  /\ pc' = [pc EXCEPT ![w] = IF Visible = {} THEN "idle" ELSE "receive"]
  /\ UNCHANGED <<serviceVars, deadLetters, handled, msg, attempt, faults>>

Receive(w, m) ==
  /\ pc[w] = "receive"
  /\ m \in Visible
  /\ queue' = [queue EXCEPT ![m] = "hidden"]
  /\ dequeueCount' = [dequeueCount EXCEPT ![m] = IF @ < DequeueCap THEN @ + 1 ELSE @]
  /\ popReceipt' = [popReceipt EXCEPT ![m] = w]
  /\ pc' = [pc EXCEPT ![w] = "process"]
  /\ msg' = [msg EXCEPT ![w] = m]
  /\ attempt' = [attempt EXCEPT ![w] = dequeueCount'[m]]
  /\ UNCHANGED <<deadLetters, handled, faults>>

\* Another worker was faster; the loop peeks again.
ReceiveNothing(w) ==
  /\ pc[w] = "receive"
  /\ Visible = {}
  /\ pc' = [pc EXCEPT ![w] = "peek"]
  /\ UNCHANGED <<serviceVars, deadLetters, handled, msg, attempt, faults>>

\* An exception of the receive is logged, and the loop peeks again.
ReceiveFails(w) ==
  /\ pc[w] = "receive"
  /\ Fault
  /\ pc' = [pc EXCEPT ![w] = "peek"]
  /\ UNCHANGED <<serviceVars, deadLetters, handled, msg, attempt>>

\* Any other exception ends the drain, and so does the end of the host process:
\* what the worker held stays hidden until its timeout.
AbandonDrain(w) ==
  /\ pc[w] # "idle"
  /\ Fault
  /\ Unburdened(w, "idle")
  /\ UNCHANGED <<serviceVars, deadLetters, handled>>

-----------------------------------------------------------------------------
(* One message: MessageHandler.ProcessMessageAsync.                        *)

\* Mutants of Settle: the copy is sent after the removal (never, here, if the
\* removal fails), or a retry is a step of its own.
SettleRemoveFirst(w, d) ==
  IF "DeleteMessage" \in d THEN Proceed(w, "remove") ELSE Unburdened(w, "peek")
SettleRetryStep(w, d) ==
  IF "RetryRequested" \in d
    THEN Proceed(w, "retry")
    ELSE IF "DeadLetter" \in d THEN Proceed(w, "archive") ELSE Proceed(w, "remove")

\* What the worker does next with its message under disposition d.
Settle(w, d) ==
  IF "DeadLetter" \in d
    THEN Proceed(w, "archive")
    ELSE IF "DeleteMessage" \in d THEN Proceed(w, "remove") ELSE Unburdened(w, "peek")

\* The request is carried out by its processor, or fails.
Process(w) ==
  /\ pc[w] = "process"
  /\ msg[w] \notin Unreadable \cup Poison
  /\ \E s \in IF msg[w] \in DoNothing THEN NothingToDo ELSE CarriedOut :
       /\ Settle(w, Disposition(Finished(s), attempt[w]))
       /\ handled' = [handled EXCEPT ![msg[w]] = IF "Success" \in s THEN @ + 1 ELSE @]
  /\ UNCHANGED <<serviceVars, deadLetters, faults>>

\* The text is no request: a copy goes to the dead-letter queue at once.
RejectUnreadable(w) ==
  /\ pc[w] = "process"
  /\ msg[w] \in Unreadable
  /\ deadLetters' = [deadLetters EXCEPT ![msg[w]] = @ + 1]
  /\ Settle(w, Disposition(NotARequest, attempt[w]))
  /\ UNCHANGED <<serviceVars, handled, faults>>

\* The request has no processor, or its text throws another exception than the
\* handler expects: the exception ends the drain.
PoisonThrows(w) ==
  /\ pc[w] = "process"
  /\ msg[w] \in Poison
  /\ Unburdened(w, "idle")
  /\ UNCHANGED <<serviceVars, deadLetters, handled, faults>>

\* Mutant: the archived message stays on the queue.
SendDeadLetterOnly(w) ==
  /\ pc[w] = "archive"
  /\ deadLetters' = [deadLetters EXCEPT ![msg[w]] = @ + 1]
  /\ Unburdened(w, "peek")
  /\ UNCHANGED <<serviceVars, handled, faults>>

SendDeadLetter(w) ==
  /\ pc[w] = "archive"
  /\ deadLetters' = [deadLetters EXCEPT ![msg[w]] = @ + 1]
  /\ Proceed(w, "remove")
  /\ UNCHANGED <<serviceVars, handled, faults>>

\* Mutant: the removal goes by message id alone.
DeleteById(w) ==
  /\ pc[w] = "remove"
  /\ queue' = [queue EXCEPT ![msg[w]] = "removed"]
  /\ Unburdened(w, "peek")
  /\ UNCHANGED <<dequeueCount, popReceipt, deadLetters, handled, faults>>

\* The removal works with the latest pop receipt only; with an older one the
\* call throws, and the exception ends the drain.
DeleteMessage(w) ==
  /\ pc[w] = "remove"
  /\ \/ /\ popReceipt[msg[w]] = w
        /\ queue' = [queue EXCEPT ![msg[w]] = "removed"]
        /\ Unburdened(w, "peek")
     \/ /\ popReceipt[msg[w]] # w
        /\ Unburdened(w, "idle")
        /\ UNCHANGED queue
  /\ UNCHANGED <<dequeueCount, popReceipt, deadLetters, handled, faults>>

-----------------------------------------------------------------------------
Work(w) ==
  \/ StartDrain(w)
  \/ Peek(w)
  \/ ReceiveNothing(w)
  \/ Process(w)
  \/ RejectUnreadable(w)
  \/ PoisonThrows(w)
  \/ SendDeadLetter(w)
  \/ DeleteMessage(w)

Next ==
  \/ \E m \in Messages : Enqueue(m) \/ VisibilityTimeout(m)
  \/ \E w \in Workers : Work(w) \/ ReceiveFails(w) \/ AbandonDrain(w)
  \/ \E w \in Workers, m \in Messages : Receive(w, m)

Spec == Init /\ [][Next]_vars

(***************************************************************************)
(* The host's loop never stops and every call returns or throws, so a      *)
(* worker that can go on does; a timeout does end; and the queue serves    *)
(* the messages that wait, so one that is visible again and again is       *)
(* received.  Nothing forces a message to arrive or a fault to happen.     *)
(***************************************************************************)
Fairness ==
  /\ \A w \in Workers : WF_vars(Work(w))
  /\ \A m \in Messages : WF_vars(VisibilityTimeout(m))
  /\ \A m \in Messages : SF_vars(\E w \in Workers : Receive(w, m))

FairSpec == Spec /\ Fairness

-----------------------------------------------------------------------------
(* Properties.                                                             *)

(***************************************************************************)
(* No message is lost: one that left the queue was carried out, or a copy  *)
(* of it was put on the dead-letter queue first, whatever crashes, fails   *)
(* or times out in between (MessageHandler sends before it deletes).       *)
(***************************************************************************)
NeverLost ==
  \A m \in Messages : queue[m] = "removed" => handled[m] > 0 \/ deadLetters[m] > 0

(***************************************************************************)
(* A request that can be read is given up only after more than             *)
(* MaxNumberProcessingAttempts deliveries.                                 *)
(***************************************************************************)
ArchivedOnlyWhenExhausted ==
  \A m \in Messages \ Unreadable :
    deadLetters[m] > 0 => dequeueCount[m] > MaxNumberProcessingAttempts

(***************************************************************************)
(* Retries end: a message is delivered once more than the limit, and one   *)
(* more time for each crash, failed call or premature timeout.  A message  *)
(* whose handling throws past the handler is exempt: nobody counts it.     *)
(***************************************************************************)
AttemptsBounded ==
  \A m \in Messages \ Poison :
    dequeueCount[m] <= MaxNumberProcessingAttempts + 1 + faults

(***************************************************************************)
(* A message is settled (carried out, or archived) once, and one more time *)
(* for each fault: without faults delivery is exactly once, although two   *)
(* workers drain the queue and a removal can come too late.                *)
(***************************************************************************)
SettledOncePerFault ==
  \A m \in Messages \ (DoNothing \cup Unreadable) :
    handled[m] + deadLetters[m] <= 1 + faults

(***************************************************************************)
(* A worker that was overtaken (its message timed out and was received     *)
(* again) does not remove the message from under the worker that has it.   *)
(***************************************************************************)
NoRemovalUnderway ==
  [][\A m \in Messages :
       queue[m] # "removed" /\ queue'[m] = "removed" =>
         \A w \in Workers : Holds(w, m) => msg'[w] = None]_vars

(***************************************************************************)
(* Every message that arrived leaves the queue, except those whose         *)
(* handling throws past the handler.                                       *)
(***************************************************************************)
EventuallyRemoved ==
  \A m \in Messages \ Poison : queue[m] = "visible" ~> queue[m] = "removed"

(***************************************************************************)
(* The promise of the queue to its clients: MessageDisposal.               *)
(***************************************************************************)
Disposal == INSTANCE MessageDisposal WITH
  arrived  <- {m \in Messages : queue[m] # "unsent"},
  handled  <- {m \in Messages : handled[m] > 0},
  archived <- {m \in Messages : deadLetters[m] > 0},
  removed  <- {m \in Messages : queue[m] = "removed"}

ImplementsDisposal == Disposal!Spec

-----------------------------------------------------------------------------
(* What comments of the code say, and the code does not do.                *)

(***************************************************************************)
(* MessageHandler.cs:45 forces the removal of a message that was moved to  *)
(* the dead-letter queue earlier: there is one copy of it there.           *)
(***************************************************************************)
UnreadableArchivedOnce == \A m \in Unreadable : deadLetters[m] <= 1 + faults

=============================================================================
