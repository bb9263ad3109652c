------------------------------ MODULE Tracking ------------------------------
(***************************************************************************)
(* The history of processing: the tracking database that                   *)
(* SqlServerProcessingTrackerDataAccessProvider writes and the dashboard   *)
(* reads.                                                                  *)
(*                                                                         *)
(* Every drain of the queue has a scope of its own, and with it a          *)
(* DbContext (QueueMonitor.cs:42, Startup.cs:44): what a SaveChanges that  *)
(* failed leaves behind stays there, and the next SaveChanges of the drain *)
(* writes it too.  TrackingContext swallows exceptions: a request is       *)
(* processed whatever happens here.                                        *)
(*                                                                         *)
(* Deliveries of messages are numbered in the order they start.  The       *)
(* number also names the attempt: a start adds at most one.  Which         *)
(* deliveries a queue makes is MessageProcessing's affair; here every      *)
(* message may be delivered at any time, also to two drains at once.  The  *)
(* reference to the parent transaction is left out.                        *)
(***************************************************************************)
EXTENDS Naturals, FiniteSetsExt, SequencesExt

CONSTANTS
  Workers,        \* the drains that can be under way at the same time
  Messages,       \* the requests, that is, their transaction ids
  MaxDeliveries,  \* bound on the deliveries
  MaxFaults       \* bound on failed calls and crashes

ASSUME BoundsAssumption == MaxDeliveries \in Nat /\ MaxFaults \in Nat

VARIABLES
  transactions,  \* the database: its transactions
  attempts,      \* ... and attempts: delivery -> delivery whose end it got, or 0
  message,       \* the message of every delivery so far
  finished,      \* the deliveries whose processing ended, in that order
  succeeded,     \* those that succeeded
  pc,            \* what a drain is about to do
  current,       \* its last delivery
  own,           \* TrackingState: the attempt of that delivery, or 0
  added,         \* DbContext of the drain: transactions not saved yet
  entries,       \* ... and its attempts, saved or not, as in attempts
  failed,        \* whether a call to the database failed in this drain
  clean,         \* deliveries that ended in drains where none had failed
  lostStarts,    \* deliveries whose start ended before an attempt was added
  faults

database == <<transactions, attempts>>
deliveries == <<message, finished, succeeded>>
context == <<added, entries>>
vars == <<database, deliveries, pc, current, own, context, failed, clean, lostStarts, faults>>

NoAttempts == [d \in {} |-> 0]
Delivered == 1..Len(message)

Init ==
  /\ transactions = {}
  /\ attempts = NoAttempts
  /\ message = <<>>
  /\ finished = <<>>
  /\ succeeded = {}
  /\ pc = [w \in Workers |-> "idle"]
  /\ current = [w \in Workers |-> 0]
  /\ own = [w \in Workers |-> 0]
  /\ added = [w \in Workers |-> {}]
  /\ entries = [w \in Workers |-> NoAttempts]
  /\ failed = [w \in Workers |-> FALSE]
  /\ clean = {}
  /\ lostStarts = {}
  /\ faults = 0

-----------------------------------------------------------------------------
(* Calls to the database.                                                  *)

Goto(w, label) == pc' = [pc EXCEPT ![w] = label]

Fault ==
  /\ faults < MaxFaults
  /\ faults' = faults + 1

Fails(w) == failed' = [failed EXCEPT ![w] = TRUE]

\* A transaction is inserted once: its id is the primary key.
Conflicts(w) == added[w] \cap transactions # {}

\* SaveChanges: all that is pending in the context is written, or nothing.
SaveChanges(w) ==
  /\ ~Conflicts(w)
  /\ transactions' = transactions \cup added[w]
  /\ attempts' = [d \in DOMAIN attempts \cup DOMAIN entries[w] |->
                    IF d \in DOMAIN entries[w] THEN entries[w][d] ELSE attempts[d]]
  /\ added' = [added EXCEPT ![w] = {}]
  /\ UNCHANGED <<entries, failed, faults>>

\* SaveChanges throws, and what was pending stays pending.
SaveFails(w) ==
  /\ (Conflicts(w) /\ UNCHANGED faults) \/ Fault
  /\ Fails(w)
  /\ UNCHANGED <<database, context>>

-----------------------------------------------------------------------------
(* Drains.                                                                 *)

StartDrain(w) ==
  /\ pc[w] = "idle"
  /\ Goto(w, "draining")
  /\ UNCHANGED <<database, deliveries, current, own, context, failed, clean, lostStarts, faults>>

\* Mutant: one context serves all drains.
KeepContext(w) ==
  /\ own' = [own EXCEPT ![w] = 0]
  /\ failed' = [failed EXCEPT ![w] = FALSE]
  /\ UNCHANGED context

\* The scope is disposed of, and the context with it.
DropContext(w) ==
  /\ own' = [own EXCEPT ![w] = 0]
  /\ failed' = [failed EXCEPT ![w] = FALSE]
  /\ added' = [added EXCEPT ![w] = {}]
  /\ entries' = [entries EXCEPT ![w] = NoAttempts]

EndDrain(w) ==
  /\ pc[w] = "draining"
  /\ Goto(w, "idle")
  /\ DropContext(w)
  /\ UNCHANGED <<database, deliveries, current, clean, lostStarts, faults>>

\* The host ends in the middle of a delivery.
Crash(w) ==
  /\ pc[w] \notin {"idle", "draining"}
  /\ Fault
  /\ Goto(w, "idle")
  /\ DropContext(w)
  /\ UNCHANGED <<database, deliveries, current, clean, lostStarts>>

-----------------------------------------------------------------------------
(* The start of a delivery, its processing and its end.                    *)

NextDelivery(w, m) ==
  /\ pc[w] = "draining"
  /\ Len(message) < MaxDeliveries
  /\ message' = Append(message, m)
  /\ current' = [current EXCEPT ![w] = Len(message')]
  /\ own' = [own EXCEPT ![w] = 0]

\* The transaction is looked up, and added unless the database has it; an
\* attempt is added to it.
RecordStart(w, m) ==
  /\ NextDelivery(w, m)
  /\ m \in transactions \/ m \notin added[w]
  /\ added' = [added EXCEPT ![w] = IF m \in transactions THEN @ ELSE @ \cup {m}]
  /\ entries' = [entries EXCEPT ![w] =
                   [d \in DOMAIN @ \cup {Len(message')} |-> IF d \in DOMAIN @ THEN @[d] ELSE 0]]
  /\ Goto(w, "starting")
  /\ UNCHANGED <<database, finished, succeeded, failed, clean, lostStarts, faults>>

\* The look-up fails, or the database does not have the transaction but the
\* context tracks one that was not saved, and refuses a second.
StartThrows(w, m) ==
  /\ NextDelivery(w, m)
  /\ \/ (m \in added[w] \ transactions /\ UNCHANGED <<failed, faults>>)
     \/ (Fault /\ Fails(w))
  /\ lostStarts' = lostStarts \cup {Len(message')}
  /\ Goto(w, "processing")
  /\ UNCHANGED <<database, finished, succeeded, context, clean>>

\* The attempt gets its id when it is saved.
SaveStart(w) ==
  /\ pc[w] = "starting"
  /\ \/ (SaveChanges(w) /\ own' = [own EXCEPT ![w] = current[w]])
     \/ (SaveFails(w) /\ UNCHANGED own)
  /\ Goto(w, "processing")
  /\ UNCHANGED <<deliveries, current, clean, lostStarts>>

Process(w, success) ==
  /\ pc[w] = "processing"
  /\ finished' = Append(finished, current[w])
  /\ succeeded' = IF success THEN succeeded \cup {current[w]} ELSE succeeded
  /\ Goto(w, "ending")
  /\ UNCHANGED <<database, message, current, own, context, failed, clean, lostStarts, faults>>

\* The attempts of the current message that the context knows.
Known(w) == {d \in DOMAIN entries[w] : message[d] = message[current[w]]}

\* The delivery is over.
Leave(w) ==
  /\ Goto(w, "draining")
  /\ clean' = IF failed'[w] THEN clean ELSE clean \cup {current[w]}

\* Mutant: without the state, the first attempt gets the end.
FirstAttempt(w, d) ==
  IF own[w] # 0 THEN d = own[w] ELSE \A e \in Known(w) : d <= e

\* The attempt that gets the end: the one of the delivery, or else the last one
\* of the transaction.
EndedAttempt(w, d) ==
  IF own[w] # 0 THEN d = own[w] ELSE \A e \in Known(w) : e <= d

RecordEnd(w) ==
  /\ pc[w] = "ending"
  /\ message[current[w]] \in transactions
  /\ \E d \in Known(w) :
       /\ EndedAttempt(w, d)
       /\ entries' = [entries EXCEPT ![w][d] = current[w]]
  /\ Goto(w, "saving")
  /\ UNCHANGED <<database, deliveries, current, own, added, failed, clean, lostStarts, faults>>

\* There is no transaction or no attempt, and nothing is recorded.
SkipEnd(w) ==
  /\ pc[w] = "ending"
  /\ message[current[w]] \notin transactions \/ Known(w) = {}
  /\ UNCHANGED failed
  /\ Leave(w)
  /\ UNCHANGED <<database, deliveries, current, own, context, lostStarts, faults>>

EndThrows(w) ==
  /\ pc[w] = "ending"
  /\ Fault
  /\ Fails(w)
  /\ Leave(w)
  /\ UNCHANGED <<database, deliveries, current, own, context, lostStarts>>

SaveEnd(w) ==
  /\ pc[w] = "saving"
  /\ SaveChanges(w) \/ SaveFails(w)
  /\ Leave(w)
  /\ UNCHANGED <<deliveries, current, own, lostStarts>>

-----------------------------------------------------------------------------
Track(w) ==
  \/ SaveStart(w)
  \/ RecordEnd(w)
  \/ SkipEnd(w)
  \/ EndThrows(w)
  \/ SaveEnd(w)

Next ==
  \/ \E w \in Workers : StartDrain(w) \/ EndDrain(w) \/ Crash(w) \/ Track(w)
  \/ \E w \in Workers, m \in Messages : RecordStart(w, m) \/ StartThrows(w, m)
  \/ \E w \in Workers, success \in BOOLEAN : Process(w, success)

Spec == Init /\ [][Next]_vars

-----------------------------------------------------------------------------
(* What the dashboard shows of a transaction: ToCommonTransaction.         *)

\* When a delivery ended (deliveries that did not end have no time).
EndTime(d) == IF d = 0 THEN 0 ELSE CHOOSE i \in 1..Len(finished) : finished[i] = d

Status(d) == IF d \in succeeded THEN "Success" ELSE "Failed"

\* Mutant: the first end is kept.
FirstEnd(shown, d) ==
  [started |-> IF d <= shown.started THEN d ELSE shown.started,
   ended |-> IF shown.ended = 0 THEN EndTime(attempts[d]) ELSE shown.ended,
   status |-> IF shown.ended = 0 /\ attempts[d] # 0 THEN Status(attempts[d]) ELSE shown.status]

\* One pass of the loop over the attempts.
ShowAttempt(shown, d) ==
  LET ended == IF shown.ended = 0 THEN EndTime(attempts[d]) ELSE shown.ended
      later == attempts[d] # 0 /\ EndTime(attempts[d]) >= ended
  IN [started |-> IF d <= shown.started THEN d ELSE shown.started,
      ended   |-> IF later THEN EndTime(attempts[d]) ELSE ended,
      status  |-> IF later THEN Status(attempts[d]) ELSE shown.status]

\* The transaction that is shown, when the attempts are read in the order s.
\* Every attempt starts as Pending.
ToCommonTransaction(s) ==
  FoldLeft(ShowAttempt,
           [started |-> MaxDeliveries + 1, ended |-> 0, status |-> "Pending"], s)

AttemptsOf(m) == {d \in DOMAIN attempts : message[d] = m}

-----------------------------------------------------------------------------
(* Properties.                                                             *)

TypeOK ==
  /\ message \in Seq(Messages)
  /\ transactions \subseteq Messages
  /\ DOMAIN attempts \subseteq Delivered
  /\ \A d \in DOMAIN attempts : attempts[d] \in 0..Len(message)
  /\ Range(finished) \subseteq Delivered
  /\ succeeded \subseteq Range(finished)
  /\ pc \in [Workers -> {"idle", "draining", "starting", "processing", "ending", "saving"}]
  /\ current \in [Workers -> 0..Len(message)]
  /\ \A w \in Workers : own[w] \in {0, current[w]}
  /\ added \in [Workers -> SUBSET Messages]
  /\ \A w \in Workers : DOMAIN entries[w] \subseteq Delivered
  /\ failed \in [Workers -> BOOLEAN]
  /\ clean \subseteq Delivered /\ lostStarts \subseteq Delivered
  /\ faults \in 0..MaxFaults

(***************************************************************************)
(* The end of a delivery is recorded in the attempt of that delivery.      *)
(* Only if its start was lost it may be recorded in an earlier attempt, of *)
(* the same message ("should this ever happen or be allowed?",             *)
(* SqlServerProcessingTrackerDataAccessProvider.cs:40).                    *)
(***************************************************************************)
EndsAttributed ==
  \A d \in DOMAIN attempts :
    LET e == attempts[d] IN
      e \in {0, d} \/ (e \in lostStarts /\ e > d /\ message[e] = message[d])

(***************************************************************************)
(* A failure costs the history no more than the rest of its drain: a       *)
(* delivery that ended before a call of its drain failed has its attempt   *)
(* and an end, whatever other drains fail to write, or write of the same   *)
(* message.                                                                *)
(***************************************************************************)
DamageConfined == \A d \in clean : d \in DOMAIN attempts /\ attempts[d] # 0

(***************************************************************************)
(* The dashboard shows the outcome of a request: when all its deliveries   *)
(* were recorded without a failure, the status is the one of the delivery  *)
(* that ended last, in whatever order the database returns the attempts.   *)
(***************************************************************************)
OutcomeShown ==
  \A m \in transactions :
    LET all == {d \in Delivered : message[d] = m}
        last == CHOOSE d \in all : \A e \in all : EndTime(e) <= EndTime(d)
    IN all \subseteq clean =>
         \A s \in SetToSeqs(AttemptsOf(m)) :
           LET shown == ToCommonTransaction(s) IN
             /\ shown.started = Min(all)
             /\ shown.ended = EndTime(last)
             /\ shown.status = Status(last)

=============================================================================
