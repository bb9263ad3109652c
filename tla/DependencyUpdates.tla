------------------------- MODULE DependencyUpdates --------------------------
(***************************************************************************)
(* How a new value of a secret reaches the secrets that are built from it. *)
(* The vault raises an event for every new version; the event becomes a    *)
(* message that schedules the updates, one message per dependent secret;   *)
(* and the worker that takes such a message evaluates the dependent's      *)
(* expression, reading its tokens from the vault one after the other, and  *)
(* stores the result, which is a new version again.                        *)
(*                                                                         *)
(* A value is abstracted to where it comes from: the content of a          *)
(* dependent secret is the version of each token that went into it.  The   *)
(* hop through the raw queue is left out: it passes an event on (see       *)
(* MessageProcessing).  No message runs out of attempts here: MaxFaults    *)
(* is meant to be below the limit on attempts.                             *)
(***************************************************************************)
EXTENDS Integers, FiniteSets

CONSTANTS
  Secrets,     \* the secrets under management
  Tokens,      \* Tokens[d]: the secrets the expression of d refers to
  Workers,     \* the workers that drain the formatted queue
  None,        \* no secret
  MaxVersion,  \* bound on the versions of a secret that rotations create
  MaxFaults    \* bound on failed reads, failed attempts and premature timeouts

ASSUME SecretsAssumption ==
  /\ Tokens \in [Secrets -> SUBSET Secrets]
  /\ None \notin Secrets
  /\ MaxVersion \in Nat
  /\ MaxFaults \in Nat

VARIABLES
  version,   \* the newest version of each secret in the vault
  content,   \* what the newest version of each secret was built from
  created,   \* waiting messages that a secret has a new version
  update,    \* waiting messages to update a secret
  pc,        \* where each worker is
  job,       \* the secret its message is about
  todo,      \* the dependents still to send to, or the tokens still to read
  read,      \* the tokens it has read
  holds,     \* has the message not timed out since it was received?
  faults     \* faults so far

vaultVars == <<version, content>>
queueVars == <<created, update>>
workerVars == <<pc, job, todo, read, holds>>
vars == <<vaultVars, queueVars, workerVars, faults>>

Blank == 0   \* the version that stands for no value at all
NoTokens == [s \in Secrets |-> Blank]

\* Rotations create the versions of a secret without an expression.
Attached == {s \in Secrets : Tokens[s] = {}}

\* The associations of the metadata store agree with the expressions.
Dependents(s) == {d \in Secrets : s \in Tokens[d]}

TypeOK ==
  /\ version \in [Secrets -> Nat]
  /\ content \in [Secrets -> [Secrets -> Nat]]
  /\ created \in [Secrets -> Nat]
  /\ update \in [Secrets -> Nat]
  /\ pc \in [Workers -> {"idle", "schedule", "evaluate", "settle"}]
  /\ job \in [Workers -> Secrets \cup {None}]
  /\ todo \in [Workers -> SUBSET Secrets]
  /\ read \in [Workers -> [Secrets -> Nat]]
  /\ holds \in [Workers -> BOOLEAN]
  /\ faults \in 0..MaxFaults

\* Every dependent secret is up to date at first.
Init ==
  /\ version = [s \in Secrets |-> 1]
  /\ content = [d \in Secrets |-> [s \in Secrets |-> IF s \in Tokens[d] THEN 1 ELSE Blank]]
  /\ created = [s \in Secrets |-> 0]
  /\ update = [s \in Secrets |-> 0]
  /\ pc = [w \in Workers |-> "idle"]
  /\ job = [w \in Workers |-> None]
  /\ todo = [w \in Workers |-> {}]
  /\ read = [w \in Workers |-> NoTokens]
  /\ holds = [w \in Workers |-> FALSE]
  /\ faults = 0

-----------------------------------------------------------------------------
Fault == faults < MaxFaults /\ faults' = faults + 1

Begin(w, step, s, steps) ==
  /\ pc' = [pc EXCEPT ![w] = step]
  /\ job' = [job EXCEPT ![w] = s]
  /\ todo' = [todo EXCEPT ![w] = steps]
  /\ read' = [read EXCEPT ![w] = NoTokens]
  /\ holds' = [holds EXCEPT ![w] = TRUE]

Rest(w) ==
  /\ pc' = [pc EXCEPT ![w] = "idle"]
  /\ job' = [job EXCEPT ![w] = None]
  /\ todo' = [todo EXCEPT ![w] = {}]
  /\ read' = [read EXCEPT ![w] = NoTokens]
  /\ holds' = [holds EXCEPT ![w] = FALSE]

\* The message w works on waits on the queue again.
Return(w) ==
  IF pc[w] = "schedule"
    THEN created' = [created EXCEPT ![job[w]] = @ + 1] /\ UNCHANGED update
    ELSE update' = [update EXCEPT ![job[w]] = @ + 1] /\ UNCHANGED created

-----------------------------------------------------------------------------
\* A rotation stores a new version of a secret (SecretRotation), and the vault
\* raises its event.
Rotate(s) ==
  /\ s \in Attached
  /\ version[s] < MaxVersion
  /\ version' = [version EXCEPT ![s] = @ + 1]
  /\ created' = [created EXCEPT ![s] = @ + 1]
  /\ UNCHANGED <<content, update, workerVars, faults>>

(* ScheduleDependencyUpdatesRequestProcessor.                              *)

TakeCreated(w, s) ==
  /\ pc[w] = "idle"
  /\ created[s] > 0
  /\ created' = [created EXCEPT ![s] = @ - 1]
  /\ Begin(w, "schedule", s, Dependents(s))
  /\ UNCHANGED <<vaultVars, update, faults>>

SendUpdate(w, d) ==
  /\ pc[w] = "schedule"
  /\ d \in todo[w]
  /\ update' = [update EXCEPT ![d] = @ + 1]
  /\ todo' = [todo EXCEPT ![w] = @ \ {d}]
  /\ UNCHANGED <<vaultVars, created, pc, job, read, holds, faults>>

(* SecretVersionCreatedRequestProcessor, and the dependent's rotation.     *)

TakeUpdate(w, d) ==
  /\ pc[w] = "idle"
  /\ update[d] > 0
  /\ update' = [update EXCEPT ![d] = @ - 1]
  /\ Begin(w, "evaluate", d, Tokens[d])
  /\ UNCHANGED <<vaultVars, created, faults>>

\* Mutant: the version the metadata record names is read, which may be older.
LookupRecorded(w, s) ==
  /\ pc[w] = "evaluate"
  /\ s \in todo[w]
  /\ \E v \in {version[s], version[s] - 1} \ {Blank} : read' = [read EXCEPT ![w][s] = v]
  /\ todo' = [todo EXCEPT ![w] = @ \ {s}]
  /\ UNCHANGED <<vaultVars, queueVars, pc, job, holds, faults>>

LookupToken(w, s) ==
  /\ pc[w] = "evaluate"
  /\ s \in todo[w]
  /\ read' = [read EXCEPT ![w][s] = version[s]]
  /\ todo' = [todo EXCEPT ![w] = @ \ {s}]
  /\ UNCHANGED <<vaultVars, queueVars, pc, job, holds, faults>>

\* The vault does not answer: the token is replaced by nothing at all.
LookupFails(w, s) ==
  /\ pc[w] = "evaluate"
  /\ s \in todo[w]
  /\ Fault
  /\ todo' = [todo EXCEPT ![w] = @ \ {s}]
  /\ UNCHANGED <<vaultVars, queueVars, pc, job, read, holds>>

\* Mutant: the update of a dependent secret raises no event of its own.
SetSecretSilently(w) ==
  /\ pc[w] = "evaluate"
  /\ todo[w] = {}
  /\ version' = [version EXCEPT ![job[w]] = @ + 1]
  /\ content' = [content EXCEPT ![job[w]] = read[w]]
  /\ pc' = [pc EXCEPT ![w] = "settle"]
  /\ UNCHANGED <<queueVars, job, todo, read, holds, faults>>

\* The built value is stored, which raises an event.  The two calls that follow
\* (the previous version is disabled, the record saved) are those of
\* SecretRotation; nothing of this module depends on them, and when one throws
\* the attempt ends in Fails.
SetSecret(w) ==
  /\ pc[w] = "evaluate"
  /\ todo[w] = {}
  /\ version' = [version EXCEPT ![job[w]] = @ + 1]
  /\ content' = [content EXCEPT ![job[w]] = read[w]]
  /\ created' = [created EXCEPT ![job[w]] = @ + 1]
  /\ pc' = [pc EXCEPT ![w] = "settle"]
  /\ UNCHANGED <<update, job, todo, read, holds, faults>>

\* Mutant: a message that scheduled updates is never done with.
SettleUpdatesOnly(w) ==
  /\ pc[w] = "settle"
  /\ Rest(w)
  /\ UNCHANGED <<vaultVars, queueVars, faults>>

\* The message is deleted, if it did not time out (MessageProcessing).
Settle(w) ==
  /\ pc[w] = "settle" \/ (pc[w] = "schedule" /\ todo[w] = {})
  /\ Rest(w)
  /\ UNCHANGED <<vaultVars, queueVars, faults>>

-----------------------------------------------------------------------------
\* Mutant: the message is deleted before it is processed.
FailsForGood(w) ==
  /\ pc[w] # "idle"
  /\ Fault
  /\ Rest(w)
  /\ UNCHANGED <<vaultVars, queueVars>>

\* The attempt fails or its host ends, and the message returns.
Fails(w) ==
  /\ pc[w] # "idle"
  /\ Fault
  /\ IF holds[w] THEN Return(w) ELSE UNCHANGED queueVars
  /\ Rest(w)
  /\ UNCHANGED vaultVars

\* The message returns although w still works on it.
VisibilityTimeout(w) ==
  /\ pc[w] # "idle"
  /\ holds[w]
  /\ Fault
  /\ Return(w)
  /\ holds' = [holds EXCEPT ![w] = FALSE]
  /\ UNCHANGED <<vaultVars, pc, job, todo, read>>

-----------------------------------------------------------------------------
Work(w) ==
  \/ \E s \in Secrets : \/ TakeCreated(w, s)
                        \/ SendUpdate(w, s)
                        \/ TakeUpdate(w, s)
                        \/ LookupToken(w, s)
  \/ SetSecret(w)
  \/ Settle(w)

Next ==
  \/ \E s \in Secrets : Rotate(s)
  \/ \E w \in Workers : Work(w) \/ Fails(w) \/ VisibilityTimeout(w)
  \/ \E w \in Workers, s \in Secrets : LookupFails(w, s)

Spec == Init /\ [][Next]_vars

\* The workers keep draining the queue, and every call returns or throws.
FairSpec == Spec /\ \A w \in Workers : WF_vars(Work(w))

-----------------------------------------------------------------------------
(* Properties.                                                             *)

InSync(d, s) == content[d][s] = version[s]

\* Something under way will give d the newest value of s: an event of s, an
\* update of d, or a worker that has still to send the one or has not read an
\* older version of the other.
Coming(d, s) ==
  \/ created[s] > 0
  \/ update[d] > 0
  \/ \E w \in Workers :
       \/ pc[w] = "schedule" /\ job[w] = s /\ d \in todo[w]
       \/ pc[w] = "evaluate" /\ job[w] = d /\ read[w][s] \in {Blank, version[s]}

(***************************************************************************)
(* With one worker no update is lost: a dependent secret that does not     *)
(* hold the newest value of a token will be updated, or a read of the      *)
(* token failed.  Crashes, repeated events and rotations that come between *)
(* the reads of one expression do not change that.                         *)
(***************************************************************************)
NoLostUpdate ==
  \A d \in Secrets : \A s \in Tokens[d] :
    content[d][s] \in {version[s], Blank} \/ Coming(d, s)

(***************************************************************************)
(* With one worker a dependent secret never goes back to an older value.   *)
(***************************************************************************)
NoRegression ==
  [][\A d \in Secrets : \A s \in Tokens[d] :
       content'[d][s] >= content[d][s] \/ content'[d][s] = Blank]_vars

Quiet ==
  /\ \A s \in Secrets : created[s] = 0 /\ update[s] = 0
  /\ \A w \in Workers : pc[w] = "idle"

(***************************************************************************)
(* Updates that cause updates end, although every one raises an event of   *)
(* its own, since no expression refers to itself over others.              *)
(***************************************************************************)
CascadeEnds == <>[]Quiet

(***************************************************************************)
(* With one worker, when rotations stop, every dependent secret gets the   *)
(* newest value of every token, if the vault answered when it was read.    *)
(***************************************************************************)
Converges ==
  <>[](\A d \in Secrets : \A s \in Tokens[d] : InSync(d, s) \/ content[d][s] = Blank)

=============================================================================
