--------------------------- MODULE SecretRotation ---------------------------
(***************************************************************************)
(* The rotation of one attached secret.  The service behind it has two     *)
(* keys.  A rotation regenerates the key that is not the current one,      *)
(* stores the new value in the vault as a new version of the secret,       *)
(* disables the version it replaces, and last saves the metadata record,   *)
(* which is what the next rotation goes by.  Each of these is a call to    *)
(* another service; the call can fail or the host can end between any two. *)
(* Rotators are the workers that drain the formatted queue.                *)
(***************************************************************************)
EXTENDS Integers, FiniteSets, Sequences

CONSTANTS
  Requests,   \* the messages that ask for a rotation of the secret
  Rotators,   \* the workers that carry them out
  None,       \* no request, no rotator
  MaxNumberProcessingAttempts,  \* the configured number of attempts
  MaxFaults   \* bound on failed calls, crashes and premature timeouts

ASSUME RotationAssumption ==
  /\ None \notin Requests \cup Rotators
  /\ MaxNumberProcessingAttempts \in Nat
  /\ MaxFaults \in Nat

VARIABLES
  serviceKey,   \* the value of each of the service's two keys
  lastValue,    \* the newest value the service generated
  vault,        \* the versions of the secret in the vault
  metadata,     \* the saved record: CurrentKeyName and Version
  request,      \* where each request is
  receiver,     \* the rotator whose receive of the request was the latest
  attempts,     \* how often each request was received
  pc,           \* where each rotator is
  job,          \* the request it carries out
  secret,       \* its copy of the metadata record, loaded before the rotation
  rotated,      \* the key value it generated and the version it stored it in
  faults        \* faults so far

services == <<serviceKey, lastValue, vault, metadata>>
queue == <<request, receiver, attempts>>
rotator == <<pc, job, secret, rotated>>
vars == <<services, queue, rotator, faults>>

KeyName == {"key1", "key2"}
Record == [key : KeyName, version : Nat]
NoRecord == [key |-> "key1", version |-> 0]
NoKey == [value |-> 0, version |-> 0]

TypeOK ==
  /\ serviceKey \in [KeyName -> Nat]
  /\ lastValue \in Nat
  /\ vault \in Seq([value : Nat, enabled : BOOLEAN])
  /\ metadata \in Record
  /\ request \in [Requests -> {"unsent", "waiting", "taken", "done", "archived"}]
  /\ receiver \in [Requests -> Rotators \cup {None}]
  /\ attempts \in [Requests -> Nat]
  /\ pc \in [Rotators -> {"idle", "regenerate", "store", "disable", "save", "settle"}]
  /\ job \in [Rotators -> Requests \cup {None}]
  /\ secret \in [Rotators -> Record]
  /\ rotated \in [Rotators -> [value : Nat, version : Nat]]
  /\ faults \in 0..MaxFaults

\* The secret was put under management with the value of the service's key1.
Init ==
  /\ serviceKey = [key1 |-> 1, key2 |-> 2]
  /\ lastValue = 2
  /\ vault = << [value |-> 1, enabled |-> TRUE] >>
  /\ metadata = [key |-> "key1", version |-> 1]
  /\ request = [q \in Requests |-> "unsent"]
  /\ receiver = [q \in Requests |-> None]
  /\ attempts = [q \in Requests |-> 0]
  /\ pc = [r \in Rotators |-> "idle"]
  /\ job = [r \in Rotators |-> None]
  /\ secret = [r \in Rotators |-> NoRecord]
  /\ rotated = [r \in Rotators |-> NoKey]
  /\ faults = 0

-----------------------------------------------------------------------------
Latest == Len(vault)

\* Is the value that applications read from the vault one the service accepts?
Live == \E k \in KeyName : serviceKey[k] = vault[Latest].value

\* The metadata record names the version that applications read.
Agreed == metadata.version = Latest

\* A request is being carried out: by the rotator that received it last.
Underway(q) == \E r \in Rotators : job[r] = q /\ receiver[q] = r

Fault == faults < MaxFaults /\ faults' = faults + 1

Rest(r) ==
  /\ pc' = [pc EXCEPT ![r] = "idle"]
  /\ job' = [job EXCEPT ![r] = None]
  /\ secret' = [secret EXCEPT ![r] = NoRecord]
  /\ rotated' = [rotated EXCEPT ![r] = NoKey]

Goto(r, s) == pc' = [pc EXCEPT ![r] = s]

-----------------------------------------------------------------------------
(* The formatted queue, as MessageProcessing has it, for these requests.   *)

\* An event says that the secret is about to expire, or has expired.
Request(q) ==
  /\ request[q] = "unsent"
  /\ request' = [request EXCEPT ![q] = "waiting"]
  /\ UNCHANGED <<services, receiver, attempts, rotator, faults>>

\* The request becomes visible again; a fault when it is still being carried out.
Redeliver(q) ==
  /\ request[q] = "taken"
  /\ request' = [request EXCEPT ![q] = "waiting"]
  /\ IF Underway(q) THEN Fault ELSE UNCHANGED faults
  /\ UNCHANGED <<services, receiver, attempts, rotator>>

-----------------------------------------------------------------------------
(* The rotation: SecretMetadataManager.ProcessSecret, SecretManagerFactory *)
(* and SecretManager.RotateSecretAsync, AzureSecretManager.                *)

\* The request is received, and the metadata record of its secret is loaded.
Load(r, q) ==
  /\ pc[r] = "idle"
  /\ request[q] = "waiting"
  /\ request' = [request EXCEPT ![q] = "taken"]
  /\ receiver' = [receiver EXCEPT ![q] = r]
  /\ attempts' = [attempts EXCEPT ![q] = @ + 1]
  /\ job' = [job EXCEPT ![r] = q]
  /\ secret' = [secret EXCEPT ![r] = metadata]
  /\ Goto(r, "regenerate")
  /\ UNCHANGED <<services, rotated, faults>>

\* Mutant: the key the record names is regenerated.
SameKey(k) == k

\* The key to rotate: the one that is not current.
NextKey(k) == IF k = "key1" THEN "key2" ELSE "key1"

RegenerateKey(r) ==
  /\ pc[r] = "regenerate"
  /\ lastValue' = lastValue + 1
  /\ serviceKey' = [serviceKey EXCEPT ![NextKey(secret[r].key)] = lastValue']
  /\ rotated' = [rotated EXCEPT ![r].value = lastValue']
  /\ Goto(r, "store")
  /\ UNCHANGED <<vault, metadata, queue, job, secret, faults>>

SetSecret(r) ==
  /\ pc[r] = "store"
  /\ vault' = Append(vault, [value |-> rotated[r].value, enabled |-> TRUE])
  /\ rotated' = [rotated EXCEPT ![r].version = Len(vault')]
  /\ Goto(r, "disable")
  /\ UNCHANGED <<serviceKey, lastValue, metadata, queue, job, secret, faults>>

\* Mutant: the record is changed before the version it names is disabled.
DisableStored(r) ==
  /\ pc[r] = "disable"
  /\ vault' = [vault EXCEPT ![rotated[r].version].enabled = FALSE]
  /\ Goto(r, "save")
  /\ UNCHANGED <<serviceKey, lastValue, metadata, queue, job, secret, rotated, faults>>

\* The version of the loaded record is disabled, unless it is the new one.
DisablePrevious(r) ==
  /\ pc[r] = "disable"
  /\ vault' = IF rotated[r].version # secret[r].version
                THEN [vault EXCEPT ![secret[r].version].enabled = FALSE]
                ELSE vault
  /\ Goto(r, "save")
  /\ UNCHANGED <<serviceKey, lastValue, metadata, queue, job, secret, rotated, faults>>

\* Mutant: the name of the current key is not updated.
SaveVersionOnly(r) ==
  /\ pc[r] = "save"
  /\ metadata' = [metadata EXCEPT !.version = rotated[r].version]
  /\ Goto(r, "settle")
  /\ UNCHANGED <<serviceKey, lastValue, vault, queue, job, secret, rotated, faults>>

\* The whole record is written, whatever it is by now.
SaveSecret(r) ==
  /\ pc[r] = "save"
  /\ metadata' = [key |-> NextKey(secret[r].key), version |-> rotated[r].version]
  /\ Goto(r, "settle")
  /\ UNCHANGED <<serviceKey, lastValue, vault, queue, job, secret, rotated, faults>>

\* The message of a rotation that succeeded is deleted, if nobody received it
\* since (MessageProcessing, DeleteMessage).
Settle(r) ==
  /\ pc[r] = "settle"
  /\ request' = IF receiver[job[r]] = r
                  THEN [request EXCEPT ![job[r]] = "done"]
                  ELSE request
  /\ Rest(r)
  /\ UNCHANGED <<services, receiver, attempts, faults>>

\* Mutant: a failed attempt settles the request, as a success does.
CallFailsUnseen(r) ==
  /\ pc[r] \in {"regenerate", "store", "disable", "save"}
  /\ Fault
  /\ request' = [request EXCEPT ![job[r]] = "done"]
  /\ Rest(r)
  /\ UNCHANGED <<services, receiver, attempts>>

\* A call throws: the attempt failed.  The message returns after its timeout,
\* or is archived when it is out of attempts.
CallFails(r) ==
  /\ pc[r] \in {"regenerate", "store", "disable", "save"}
  /\ Fault
  /\ request' = IF receiver[job[r]] = r /\ attempts[job[r]] > MaxNumberProcessingAttempts
                  THEN [request EXCEPT ![job[r]] = "archived"]
                  ELSE request
  /\ Rest(r)
  /\ UNCHANGED <<services, receiver, attempts>>

\* The host ends, or its drain of the queue does.
Crash(r) ==
  /\ pc[r] # "idle"
  /\ Fault
  /\ Rest(r)
  /\ UNCHANGED <<services, queue>>

-----------------------------------------------------------------------------
Rotate(r) ==
  \/ RegenerateKey(r)
  \/ SetSecret(r)
  \/ DisablePrevious(r)
  \/ SaveSecret(r)
  \/ Settle(r)

Next ==
  \/ \E q \in Requests : Request(q) \/ Redeliver(q)
  \/ \E r \in Rotators, q \in Requests : Load(r, q)
  \/ \E r \in Rotators : Rotate(r) \/ CallFails(r) \/ Crash(r)

Spec == Init /\ [][Next]_vars

(***************************************************************************)
(* Every call of a rotation returns or throws, a timeout ends, and the     *)
(* workers drain the queue (MessageProcessing, EventuallyRemoved).         *)
(***************************************************************************)
Fairness ==
  /\ \A r \in Rotators : WF_vars(Rotate(r))
  /\ \A q \in Requests : WF_vars(Redeliver(q))
  /\ \A q \in Requests : SF_vars(\E r \in Rotators : Load(r, q))

FairSpec == Spec /\ Fairness

-----------------------------------------------------------------------------
(* Properties.                                                             *)

(***************************************************************************)
(* The version that applications read is never disabled, however many      *)
(* rotators overlap, although each disables the version of a record it     *)
(* loaded four calls ago (AzureSecretManager.cs:164).                      *)
(***************************************************************************)
LatestEnabled == vault[Latest].enabled

(***************************************************************************)
(* With one rotator, once the record names the version that applications   *)
(* read, the service accepts its value: also while the next rotation is    *)
(* halfway, and after any failure.                                         *)
(***************************************************************************)
AgreedIsLive == Agreed => Live

(***************************************************************************)
(* With one rotator and no faults, applications always read a value the    *)
(* service accepts: a rotation has no outage of its own.                   *)
(***************************************************************************)
NoOutageWithoutFault == faults = 0 => Live

(***************************************************************************)
(* With one rotator and no faults, the value of the previous version stays *)
(* accepted until the next rotation begins to change a key: dependents     *)
(* that still use it keep working until they are updated.                  *)
(***************************************************************************)
GracePeriod ==
  faults = 0 /\ (\A r \in Rotators : pc[r] \in {"idle", "regenerate", "settle"}) =>
    \A v \in {Latest - 1, Latest} \ {0} : \E k \in KeyName : serviceKey[k] = vault[v].value

(***************************************************************************)
(* With one rotator, an outage ends with a retry of the rotation, unless   *)
(* a request ran out of attempts.                                          *)
(***************************************************************************)
OutageEnds == ~Live ~> Live \/ (\E q \in Requests : request[q] = "archived")

=============================================================================
