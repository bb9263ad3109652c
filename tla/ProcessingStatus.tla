-------------------------- MODULE ProcessingStatus --------------------------
(***************************************************************************)
(* The status a message carries while it is processed.  The [Flags] enum   *)
(* ProcessingStatus of the code is a bit mask; here a status is the SET of *)
(* flags that are raised, so |= is union and &= ~ is set difference.       *)
(*                                                                         *)
(* The status is computed in two layers: the processor that ran the        *)
(* request finishes it (RequestProcessor), and the message handler turns   *)
(* it into what happens to the queue message (MessageHandler).             *)
(***************************************************************************)
EXTENDS Integers

CONSTANT MaxNumberProcessingAttempts   \* the configured number of attempts

ASSUME AttemptsAssumption == MaxNumberProcessingAttempts \in Nat

Flag == {"Pending", "Success", "Failed", "Aborted", "RetryRequested",
         "DeadLetter", "DeleteMessage", "Skipped"}

Status == SUBSET Flag

-----------------------------------------------------------------------------
(* The processor's layer.                                                  *)

(***************************************************************************)
(* What RequestProcessor.ProcessRequestAsync does to the status the        *)
(* concrete processor left: Pending goes, a success may be removed from    *)
(* the queue, anything else asks for a retry.                              *)
(***************************************************************************)
Finished(s) ==
  IF "Success" \in s THEN (s \ {"Pending"}) \cup {"DeleteMessage"}
                     ELSE (s \ {"Pending"}) \cup {"RetryRequested"}

\* An exception that leaves the concrete processor replaces whatever it had set.
Threw == {"Failed"}

\* The statuses OnProcessRequestAsync can leave for a request it carries out:
\* success, a failure it caught itself, a cancelled secret operation, or an exception.
CarriedOut == {{"Pending", "Success"}, {"Pending", "Failed"},
               {"Pending", "Failed", "Aborted"}, Threw}

\* The status it leaves for an event that asks for nothing.
NothingToDo == {{"Pending", "Skipped", "Success"}}

\* The status of a message whose text is not a request at all: it never
\* reaches a processor.
NotARequest == {"Failed", "Skipped", "DeadLetter"}

-----------------------------------------------------------------------------
(* The handler's layer.                                                    *)

\* The first test of the handler replaces the status of everything that was
\* not a plain success.
Forced(s) ==
  IF s \cap {"Failed", "Skipped", "DeadLetter"} # {}
    THEN {"Failed", "DeleteMessage"}
    ELSE s

\* Mutants: one attempt fewer (>= for >), one attempt more, and no limit.
ExhaustedAtLimit(attempt) == attempt >= MaxNumberProcessingAttempts
ExhaustedTooLate(attempt) == attempt > MaxNumberProcessingAttempts + 1
NeverExhausted(attempt) == FALSE

\* Is the message out of attempts?  attempt is the DequeueCount of the message.
Exhausted(attempt) == attempt > MaxNumberProcessingAttempts

Decided(s, attempt) ==
  LET due  == IF Exhausted(attempt)
                THEN (s \cup {"DeadLetter"}) \ {"RetryRequested"}
                ELSE s
  IN  IF "Success" \in s
        THEN s \cup {"DeleteMessage"}
        ELSE IF "DeadLetter" \in due
               THEN due \cup {"DeleteMessage"}
               ELSE due \cup {"RetryRequested"}

\* Mutant: the retry keeps the removal the forced status asked for.
RetryKeepsDelete(s) ==
  IF "RetryRequested" \in s THEN s \ {"DeadLetter"} ELSE s

\* A retry wins over a dead letter and over the removal of the message.
RetryWins(s) ==
  IF "RetryRequested" \in s THEN s \ {"DeadLetter", "DeleteMessage"} ELSE s

\* A dead letter is always removed from the queue it came from.
Disposition(s, attempt) ==
  LET final == RetryWins(Decided(Forced(s), attempt))
  IN  IF "DeadLetter" \in final THEN final \cup {"DeleteMessage"} ELSE final

=============================================================================
