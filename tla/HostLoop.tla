------------------------------ MODULE HostLoop ------------------------------
(***************************************************************************)
(* The loop of the host: in every round it starts to drain the queue of    *)
(* raw events in the background, drains the queue of formatted requests,   *)
(* waits for the first drain and pauses, until it is cancelled.            *)
(*                                                                         *)
(* What happens to a message in its handler is MessageProcessing's affair. *)
(* Here it is removed, kept for a retry (it is then hidden for a while),   *)
(* or an exception ends the drain.  The handler gives up a message that    *)
(* was delivered too often.  A message does not reappear while it is       *)
(* handled, and what its handler sends and its removal are one step:       *)
(* visibility timeouts and what lies between are MessageProcessing's too.  *)
(*                                                                         *)
(* A handler sends messages of its own.  A raw event becomes a formatted   *)
(* request.  A request to schedule updates puts requests on the very queue *)
(* that is being drained, and one that writes to the vault makes the vault *)
(* raise an event, which is a raw message again: so a cascade of updates   *)
(* can feed both queues for ever.  Two equal messages in a queue are taken *)
(* as one, which is the only bound on them.                                *)
(***************************************************************************)
EXTENDS Naturals

CONSTANTS
  Messages,       \* raw events and formatted requests
  Events,         \* the raw events that come from outside at any time
  Sends,          \* Sends[m][q]: what the handler of m puts on queue q
  MaxDeliveries,  \* deliveries of a message, the last of which removes it
  MaxFaults       \* bound on failed calls of the queue

ASSUME BoundsAssumption == MaxDeliveries \in Nat \ {0} /\ MaxFaults \in Nat

Queues == {"raw", "formatted"}

ASSUME MessagesAssumption ==
  /\ Events \subseteq Messages
  /\ Sends \in [Messages -> [Queues -> SUBSET Messages]]

\* A raw event becomes a request, a request to schedule puts updates on the
\* queue of the formatted ones, and these put nothing there themselves.
ASSUME LevelsAssumption ==
  \A m \in Messages : \A r \in Sends[m]["formatted"] : \A u \in Sends[r]["formatted"] :
    Sends[u]["formatted"] = {}

VARIABLES
  loop,       \* where StartAsync is
  drain,      \* queue -> where its drain is, "ended" if none is under way
  handled,    \* queue -> the message in the handler, in a set
  visible,    \* queue -> messages that can be received
  hidden,     \* queue -> messages that cannot, those in the handler included
  deliveries, \* queue -> message -> how often it was received, 0 once it is removed
  cancelled,  \* whether the token was cancelled
  faults

queues == <<visible, hidden, deliveries>>
vars == <<loop, drain, handled, queues, cancelled, faults>>

Init ==
  /\ loop = "start"
  /\ drain = [q \in Queues |-> "ended"]
  /\ handled = [q \in Queues |-> {}]
  /\ visible = [q \in Queues |-> {}]
  /\ hidden = [q \in Queues |-> {}]
  /\ deliveries = [q \in Queues |-> [m \in Messages |-> 0]]
  /\ cancelled = FALSE
  /\ faults = 0

-----------------------------------------------------------------------------
(* The loop: StartAsync.                                                   *)

Goto(label) == loop' = label

\* The task of the raw queue is not awaited.
StartDrains ==
  /\ loop = "start"
  /\ ~cancelled
  /\ drain' = [q \in Queues |-> "peek"]
  /\ Goto("formatted")
  /\ UNCHANGED <<handled, queues, cancelled, faults>>

AwaitFormatted ==
  /\ loop = "formatted"
  /\ drain["formatted"] = "ended"
  /\ Goto("wait")
  /\ UNCHANGED <<drain, handled, queues, cancelled, faults>>

\* Mutant: the pending tasks are forgotten.
WaitForNothing ==
  /\ loop = "wait"
  /\ Goto(IF cancelled THEN "stopped" ELSE "delay")
  /\ UNCHANGED <<drain, handled, queues, cancelled, faults>>

\* Task.WaitAll ends when the tasks have ended, and throws when the token is
\* cancelled, whatever the tasks do.
WaitAll ==
  /\ loop = "wait"
  /\ \/ (cancelled /\ Goto("stopped"))
     \/ (~cancelled /\ drain["raw"] = "ended" /\ Goto("delay"))
  /\ UNCHANGED <<drain, handled, queues, cancelled, faults>>

\* The pause does not hear of the cancellation.
Delay ==
  /\ loop = "delay"
  /\ Goto("start")
  /\ UNCHANGED <<drain, handled, queues, cancelled, faults>>

\* Mutant: the host finishes its queues first.
StopWhenEmpty ==
  /\ loop = "start"
  /\ cancelled
  /\ visible["raw"] \cup visible["formatted"] = {}
  /\ Goto("stopped")
  /\ UNCHANGED <<drain, handled, queues, cancelled, faults>>

Stop ==
  /\ loop = "start"
  /\ cancelled
  /\ Goto("stopped")
  /\ UNCHANGED <<drain, handled, queues, cancelled, faults>>

-----------------------------------------------------------------------------
(* A drain: ProcessPendingMessagesAsync.                                   *)

DrainTo(q, label) == drain' = [drain EXCEPT ![q] = label]

Fault ==
  /\ faults < MaxFaults
  /\ faults' = faults + 1

\* A failed peek ends the drain, and so do a cancelled one and an empty queue.
Peek(q) ==
  /\ drain[q] = "peek"
  /\ \/ (~cancelled /\ visible[q] # {} /\ DrainTo(q, "receive") /\ UNCHANGED faults)
     \/ (cancelled \/ visible[q] = {}) /\ DrainTo(q, "ended") /\ UNCHANGED faults
     \/ (~cancelled /\ Fault /\ DrainTo(q, "ended"))
  /\ UNCHANGED <<loop, handled, queues, cancelled>>

Receive(q) ==
  /\ drain[q] = "receive"
  /\ \E m \in visible[q] :
       /\ visible' = [visible EXCEPT ![q] = @ \ {m}]
       /\ hidden' = [hidden EXCEPT ![q] = @ \cup {m}]
       /\ deliveries' = [deliveries EXCEPT ![q][m] = @ + 1]
       /\ handled' = [handled EXCEPT ![q] = {m}]
  /\ DrainTo(q, "handle")
  /\ UNCHANGED <<loop, cancelled, faults>>

\* The call fails, or is cancelled, and the drain looks again.
ReceiveFails(q) ==
  /\ drain[q] = "receive"
  /\ (cancelled /\ UNCHANGED faults) \/ Fault
  /\ DrainTo(q, "peek")
  /\ UNCHANGED <<loop, handled, queues, cancelled>>

Handled(q) == handled' = [handled EXCEPT ![q] = {}]

\* Mutant: a handler that writes to the vault schedules what depends on it
\* itself, without the event.
SentAtOnce(q, p) ==
  LET raised == UNION {Sends[m]["raw"] : m \in handled[q]}
  IN UNION {Sends[m][p] : m \in handled[q] \cup raised}

\* What the handler of q puts on p, itself or by way of the vault's events.
Sent(q, p) == UNION {Sends[m][p] : m \in handled[q]}

\* The sends of a handler that fails are done in part.
SentInPart(q) ==
  {[p \in Queues |-> IF p = "raw" THEN r ELSE f] :
     r \in SUBSET Sent(q, "raw"), f \in SUBSET Sent(q, "formatted")}

\* A message that is in its queue already is not told from a second one.
Put(sent) == visible' = [p \in Queues |-> visible[p] \cup (sent[p] \ hidden'[p])]

Gone(q) ==
  /\ hidden' = [hidden EXCEPT ![q] = @ \ handled[q]]
  /\ deliveries' = [deliveries EXCEPT ![q] = [m \in Messages |-> IF m \in handled[q] THEN 0 ELSE @[m]]]
  /\ Handled(q)
  /\ DrainTo(q, "peek")

Remove(q) ==
  /\ drain[q] = "handle"
  /\ Gone(q)
  /\ Put([p \in Queues |-> Sent(q, p)])
  /\ UNCHANGED <<loop, cancelled, faults>>

\* A message that is skipped or archived is removed without success.
GiveUp(q) ==
  /\ drain[q] = "handle"
  /\ Gone(q)
  /\ \E sent \in SentInPart(q) : Put(sent)
  /\ UNCHANGED <<loop, cancelled, faults>>

\* The message stays, and the drain goes on, or ends with an exception.
Keep(q) ==
  /\ drain[q] = "handle"
  /\ cancelled \/ \A m \in handled[q] : deliveries[q][m] < MaxDeliveries
  /\ Handled(q)
  /\ DrainTo(q, "peek") \/ DrainTo(q, "ended")
  /\ UNCHANGED hidden
  /\ \E sent \in SentInPart(q) : Put(sent)
  /\ UNCHANGED <<loop, deliveries, cancelled, faults>>

Drain(q) ==
  \/ Peek(q)
  \/ Receive(q)
  \/ ReceiveFails(q)
  \/ Remove(q)
  \/ GiveUp(q)
  \/ Keep(q)

-----------------------------------------------------------------------------
(* The outside.                                                            *)

Arrive(m) ==
  /\ m \notin visible["raw"] \cup hidden["raw"]
  /\ visible' = [visible EXCEPT !["raw"] = @ \cup {m}]
  /\ UNCHANGED <<loop, drain, handled, hidden, deliveries, cancelled, faults>>

\* A message that was kept can be received again, unless it was when the host
\* was cancelled: that is for the next host.
Reappear(q, m) ==
  /\ m \in hidden[q] \ handled[q]
  /\ deliveries[q][m] < MaxDeliveries
  /\ hidden' = [hidden EXCEPT ![q] = @ \ {m}]
  /\ visible' = [visible EXCEPT ![q] = @ \cup {m}]
  /\ UNCHANGED <<loop, drain, handled, deliveries, cancelled, faults>>

Cancel ==
  /\ ~cancelled
  /\ cancelled' = TRUE
  /\ UNCHANGED <<loop, drain, handled, queues, faults>>

-----------------------------------------------------------------------------
Loop == StartDrains \/ AwaitFormatted \/ WaitAll \/ Delay \/ Stop

Next ==
  \/ Loop
  \/ \E q \in Queues : Drain(q)
  \/ \E m \in Events : Arrive(m)
  \/ \E q \in Queues, m \in Messages : Reappear(q, m)
  \/ Cancel

\* The loop and its tasks run, and the queue service lets a hidden message
\* reappear when its timeout has passed.  Nothing makes an event arrive, or
\* the host stop, and which of several messages is received is left open.
Fairness ==
  /\ WF_vars(Loop)
  /\ \A q \in Queues : WF_vars(Drain(q))
  /\ \A q \in Queues, m \in Messages : WF_vars(Reappear(q, m))

Spec == Init /\ [][Next]_vars

FairSpec == Spec /\ Fairness

-----------------------------------------------------------------------------
(* Properties.                                                             *)

TypeOK ==
  /\ loop \in {"start", "formatted", "wait", "delay", "stopped"}
  /\ drain \in [Queues -> {"ended", "peek", "receive", "handle"}]
  /\ {handled, visible, hidden} \subseteq [Queues -> SUBSET Messages]
  /\ \A q \in Queues :
       /\ handled[q] \subseteq hidden[q]
       /\ visible[q] \cap hidden[q] = {}
       /\ drain[q] = "handle" <=> handled[q] # {}
  /\ deliveries \in [Queues -> [Messages -> 0..MaxDeliveries]]
  /\ cancelled \in BOOLEAN
  /\ faults \in 0..MaxFaults

(***************************************************************************)
(* A round starts when the drains of the last one are over: the host never *)
(* has two drains of a queue, although it does not await the drain of the  *)
(* raw queue.                                                              *)
(***************************************************************************)
OneDrainPerQueue == loop \in {"start", "delay"} => \A q \in Queues : drain[q] = "ended"

(***************************************************************************)
(* The raw queue is not starved by the drain of formatted requests that    *)
(* the loop awaits (Host.cs:40), although handlers put requests on the     *)
(* queue that is drained and a cascade without end keeps it filled:        *)
(* wherever events wait, one is handled in the end, unless the host is     *)
(* cancelled.  The requests that make more of them come of raw events      *)
(* only, so either the raw queue is still being drained or this one runs   *)
(* dry.                                                                    *)
(***************************************************************************)
EventsNotStarved ==
  (visible["raw"] \cup hidden["raw"] # {}) ~> (cancelled \/ drain["raw"] = "handle")

(***************************************************************************)
(* Cancellation ends the loop and both drains, wherever they are.          *)
(***************************************************************************)
StopsWhenCancelled ==
  cancelled ~> [](loop = "stopped" /\ \A q \in Queues : drain[q] = "ended")

=============================================================================
