---------------------------- MODULE MetadataStore ----------------------------
(***************************************************************************)
(* The metadata store: one blob for each policy, service configuration,    *)
(* secret and association.  A record refers to others by their ids: a      *)
(* secret to its service, a service to its policy, an association to two   *)
(* secrets.  Nothing spans two blobs, so a loader puts a secret together   *)
(* from three reads, while an operator writes the sample data set, the API *)
(* saves policies and a rotation saves the record it loaded.  No record is *)
(* ever deleted: the deletes of the store are not implemented.             *)
(***************************************************************************)
EXTENDS Integers, FiniteSets

CONSTANTS
  Policies,       \* ids of policies
  SamplePolicies, \* those of the sample data set
  Services,       \* ids of service configurations
  Secrets,        \* keys of secrets
  PolicyOf,       \* the policy each service of the data set refers to
  ServiceOf,      \* the service of each attached secret, None for a dependent one
  Associations,   \* pairs: what a secret is built from, and that secret
  Rotators,       \* the workers that rotate secrets
  None,           \* no record
  MaxSaves,       \* bound on the saves of each policy
  MaxVersion,     \* bound on the rotations
  MaxSeeds        \* bound on the runs of the sample data set

\* What a record of a secret says: its version in the vault and its service.
Record == [version : Nat, service : Services \cup {None}]

ASSUME StoreAssumption ==
  /\ SamplePolicies \subseteq Policies
  /\ PolicyOf \in [Services -> SamplePolicies]
  /\ ServiceOf \in [Secrets -> Services \cup {None}]
  /\ Associations \subseteq Secrets \X Secrets
  /\ None \notin Policies \cup Services \cup Secrets \cup Record
  /\ Rotators \cap Secrets = {}
  /\ {MaxSaves, MaxVersion, MaxSeeds} \subseteq Nat

VARIABLES
  policies,      \* how often each policy was saved: 0 when it has no blob
  services,      \* the services that have a blob
  secrets,       \* the record of each secret, or None without a blob
  associations,  \* the associations that have a blob
  seed,          \* the run of CreateSampleDataSetAsync
  seeds,         \* how often it was started
  seeded,        \* has a run ended that saved everything?
  partial,       \* did a run leave something out before that?
  loads,         \* what each loader has of its secret so far
  version        \* the newest version of a secret in the vault

blobs == <<policies, services, secrets, associations>>
seeding == <<seed, seeds, seeded, partial>>
vars == <<blobs, seeding, loads, version>>

Attached(s) == ServiceOf[s] # None

\* A loader is a rotation, or the task that a listing starts for a secret.
Loaders == Rotators \cup Secrets

Stage == {"off", "policies", "services", "secrets", "associations"}
Switches == {"policies", "services", "secrets"}
Sample == SamplePolicies \cup Services \cup Secrets \cup Associations

NotSeeding == [stage |-> "off", save |-> {}, todo |-> {}]

NoLoad == [stage |-> "idle", of |-> None, record |-> None, service |-> None,
           policy |-> 0, since |-> 0]

TypeOK ==
  /\ policies \in [Policies -> Nat]
  /\ services \in SUBSET Services
  /\ secrets \in [Secrets -> Record \cup {None}]
  /\ associations \in SUBSET Associations
  /\ seed \in [stage : Stage, save : SUBSET Switches, todo : SUBSET Sample]
  /\ seeds \in 0..MaxSeeds
  /\ seeded \in BOOLEAN
  /\ partial \in BOOLEAN
  /\ loads \in [Loaders -> [stage : {"idle", "secret", "service", "policy", "loaded", "save"},
                            of : Secrets \cup {None}, record : Record \cup {None},
                            service : Services \cup {None}, policy : Nat, since : Nat]]
  /\ version \in 0..MaxVersion

\* An empty container.
Init ==
  /\ policies = [p \in Policies |-> 0]
  /\ services = {}
  /\ secrets = [s \in Secrets |-> None]
  /\ associations = {}
  /\ seed = NotSeeding
  /\ seeds = 0
  /\ seeded = FALSE
  /\ partial = FALSE
  /\ loads = [l \in Loaders |-> NoLoad]
  /\ version = 0

-----------------------------------------------------------------------------
(* The sample data set (Host.CreateSampleDataSetAsync): policies, services, *)
(* secrets and associations in this order, each kind but the last only if  *)
(* it was asked for.                                                       *)

\* Mutant: secrets are saved before services.
SecretsBeforeServices(stage) ==
  CASE stage = "policies" -> "secrets"
    [] stage = "secrets" -> "services"
    [] stage = "services" -> "associations"
    [] stage = "associations" -> "off"

\* The kind of record that is saved next.
Follows(stage) ==
  CASE stage = "policies" -> "services"
    [] stage = "services" -> "secrets"
    [] stage = "secrets" -> "associations"
    [] stage = "associations" -> "off"

\* Mutant: secrets are saved whether asked for or not.
SecretsAlways(stage, save) ==
  CASE stage = "policies" /\ stage \in save -> SamplePolicies
    [] stage = "services" /\ stage \in save -> Services
    [] stage = "secrets" -> Secrets
    [] stage = "associations" -> Associations
    [] OTHER -> {}

\* The records to save in a stage.
Records(stage, save) ==
  CASE stage = "policies" /\ stage \in save -> SamplePolicies
    [] stage = "services" /\ stage \in save -> Services
    [] stage = "secrets" /\ stage \in save -> Secrets
    [] stage = "associations" -> Associations
    [] OTHER -> {}

StartSeed(save) ==
  /\ seed.stage = "off"
  /\ seeds < MaxSeeds
  /\ seeds' = seeds + 1
  /\ seed' = [stage |-> "policies", save |-> save, todo |-> Records("policies", save)]
  /\ partial' = (partial \/ (~seeded /\ save # Switches))
  /\ UNCHANGED <<blobs, seeded, loads, version>>

NextStage ==
  /\ seed.stage # "off"
  /\ seed.todo = {}
  /\ LET next == Follows(seed.stage)
     IN  /\ seed' = IF next = "off" THEN NotSeeding
                     ELSE [seed EXCEPT !.stage = next, !.todo = Records(next, seed.save)]
         /\ seeded' = (seeded \/ (next = "off" /\ seed.save = Switches))
  /\ UNCHANGED <<blobs, seeds, partial, loads, version>>

Saved(x) == seed' = [seed EXCEPT !.todo = @ \ {x}]

\* The blob of a policy is overwritten, whatever it holds.
SeedPolicy(p) ==
  /\ seed.stage = "policies" /\ p \in seed.todo
  /\ policies[p] < MaxSaves
  /\ policies' = [policies EXCEPT ![p] = @ + 1]
  /\ Saved(p)
  /\ UNCHANGED <<services, secrets, associations, seeds, seeded, partial, loads, version>>

SeedService(c) ==
  /\ seed.stage = "services" /\ c \in seed.todo
  /\ services' = services \cup {c}
  /\ Saved(c)
  /\ UNCHANGED <<policies, secrets, associations, seeds, seeded, partial, loads, version>>

\* So is that of a secret, with the version in the data set.
SeedSecret(s) ==
  /\ seed.stage = "secrets" /\ s \in seed.todo
  /\ secrets' = [secrets EXCEPT ![s] = [version |-> 0, service |-> ServiceOf[s]]]
  /\ Saved(s)
  /\ UNCHANGED <<policies, services, associations, seeds, seeded, partial, loads, version>>

SeedAssociation(a) ==
  /\ seed.stage = "associations" /\ a \in seed.todo
  /\ associations' = associations \cup {a}
  /\ Saved(a)
  /\ UNCHANGED <<policies, services, secrets, seeds, seeded, partial, loads, version>>

\* A save throws, or the process ends: what was saved stays.
SeedFails ==
  /\ seed.stage # "off"
  /\ seed' = NotSeeding
  /\ UNCHANGED <<blobs, seeds, seeded, partial, loads, version>>

Seeding ==
  \/ \E save \in SUBSET Switches : StartSeed(save)
  \/ NextStage
  \/ \E p \in SamplePolicies : SeedPolicy(p)
  \/ \E c \in Services : SeedService(c)
  \/ \E s \in Secrets : SeedSecret(s)
  \/ \E a \in Associations : SeedAssociation(a)
  \/ SeedFails

-----------------------------------------------------------------------------
(* The API saves a policy: it is the only kind it can save.                *)

SavePolicy(p) ==
  /\ policies[p] < MaxSaves
  /\ policies' = [policies EXCEPT ![p] = @ + 1]
  /\ UNCHANGED <<services, secrets, associations, seeding, loads, version>>

-----------------------------------------------------------------------------
(* Loading a configured secret: GetConfiguredSecretAsync.                  *)

\* The saves so far of the policy a secret has by way of its service.
PolicySaves(s) == IF Attached(s) THEN policies[PolicyOf[ServiceOf[s]]] ELSE 0

Loading(s) ==
  [stage |-> "secret", of |-> s, record |-> None, service |-> None,
   policy |-> 0, since |-> PolicySaves(s)]

\* The task that a rotation awaits.
StartRotation(r, s) ==
  /\ loads[r].stage = "idle"
  /\ loads' = [loads EXCEPT ![r] = Loading(s)]
  /\ UNCHANGED <<blobs, seeding, version>>

\* The tasks that a listing starts and waits for: one for each blob it found.
List(found) ==
  /\ found # {}
  /\ \A s \in Secrets : loads[s].stage = "idle"
  /\ loads' = [l \in Loaders |-> IF l \in found THEN Loading(l) ELSE loads[l]]
  /\ UNCHANGED <<blobs, seeding, version>>

ListSecrets == List({s \in Secrets : secrets[s] # None})

ListDependents(s) == List({d \in Secrets : <<s, d>> \in associations})

\* Without a record there is nothing to return; without a service nothing to read.
ReadSecret(l) ==
  /\ loads[l].stage = "secret"
  /\ LET record == secrets[loads[l].of]
         further == record # None /\ record.service # None
     IN  loads' = [loads EXCEPT ![l].record = record,
                                ![l].stage = IF further THEN "service" ELSE "loaded"]
  /\ UNCHANGED <<blobs, seeding, version>>

\* Mutant: the policy of a service is not looked up (GetConfigurationAsync).
ReadServiceShallow(l) ==
  /\ loads[l].stage = "service"
  /\ loads' = [loads EXCEPT ![l].stage = "loaded",
                            ![l].service = IF loads[l].record.service \in services
                                           THEN loads[l].record.service ELSE None]
  /\ UNCHANGED <<blobs, seeding, version>>

\* The configuration of a service that has no blob is null.
ReadService(l) ==
  /\ loads[l].stage = "service"
  /\ LET service == loads[l].record.service
     IN  loads' = IF service \in services
                  THEN [loads EXCEPT ![l].service = service, ![l].stage = "policy"]
                  ELSE [loads EXCEPT ![l].stage = "loaded"]
  /\ UNCHANGED <<blobs, seeding, version>>

\* Mutant: a policy is read once and remembered.
ReadPolicyCached(l) ==
  /\ loads[l].stage = "policy"
  /\ loads' = [loads EXCEPT ![l].policy = IF policies[PolicyOf[loads[l].service]] > 0 THEN 1 ELSE 0,
                            ![l].stage = "loaded"]
  /\ UNCHANGED <<blobs, seeding, version>>

ReadPolicy(l) ==
  /\ loads[l].stage = "policy"
  /\ loads' = [loads EXCEPT ![l].policy = policies[PolicyOf[loads[l].service]],
                            ![l].stage = "loaded"]
  /\ UNCHANGED <<blobs, seeding, version>>

\* All tasks of a listing have ended, and it returns.
ListReturns ==
  /\ \E s \in Secrets : loads[s].stage = "loaded"
  /\ \A s \in Secrets : loads[s].stage \in {"idle", "loaded"}
  /\ loads' = [l \in Loaders |-> IF l \in Secrets THEN NoLoad ELSE loads[l]]
  /\ UNCHANGED <<blobs, seeding, version>>

-----------------------------------------------------------------------------
(* A rotation, seen from the store: SecretMetadataManager.ProcessSecret    *)
(* and SecretManagerFactory.RotateSecretAsync.                             *)

\* It goes on with a secret that has all an attached secret needs.
Complete(load) == Attached(load.of) => load.service # None /\ load.policy > 0

\* The event of an unknown secret is carried out by doing nothing.
IgnoreUnknown(r) ==
  /\ loads[r].stage = "loaded"
  /\ loads[r].record = None
  /\ loads' = [loads EXCEPT ![r] = NoLoad]
  /\ UNCHANGED <<blobs, seeding, version>>

\* It throws, before it changes anything or when a service or the vault fails.
RotationFails(r) ==
  /\ r \in Rotators
  /\ loads[r].stage # "idle"
  /\ loads' = [loads EXCEPT ![r] = NoLoad]
  /\ UNCHANGED <<blobs, seeding, version>>

\* The secret gets a new version in the vault, which its copy of the record names.
Rotate(r) ==
  /\ loads[r].stage = "loaded"
  /\ loads[r].record # None
  /\ Complete(loads[r])
  /\ version < MaxVersion
  /\ version' = version + 1
  /\ loads' = [loads EXCEPT ![r].stage = "save",
                            ![r].record = [@ EXCEPT !.version = version + 1]]
  /\ UNCHANGED <<blobs, seeding>>

\* Mutant: the id of the configuration is not written.
SaveWithoutService(r) ==
  /\ loads[r].stage = "save"
  /\ secrets' = [secrets EXCEPT ![loads[r].of] =
                   [version |-> loads[r].record.version, service |-> None]]
  /\ loads' = [loads EXCEPT ![r] = NoLoad]
  /\ UNCHANGED <<policies, services, associations, seeding, version>>

\* The whole record is written, with the service of the copy.
SaveSecret(r) ==
  /\ loads[r].stage = "save"
  /\ Attached(loads[r].of) => loads[r].service # None
  /\ secrets' = [secrets EXCEPT ![loads[r].of] =
                   [version |-> loads[r].record.version, service |-> loads[r].service]]
  /\ loads' = [loads EXCEPT ![r] = NoLoad]
  /\ UNCHANGED <<policies, services, associations, seeding, version>>

Rotation(r) == IgnoreUnknown(r) \/ RotationFails(r) \/ Rotate(r) \/ SaveSecret(r)

Next ==
  \/ Seeding
  \/ \E p \in Policies : SavePolicy(p)
  \/ \E r \in Rotators, s \in Secrets : StartRotation(r, s)
  \/ ListSecrets
  \/ \E s \in Secrets : ListDependents(s)
  \/ \E l \in Loaders : ReadSecret(l) \/ ReadService(l) \/ ReadPolicy(l)
  \/ ListReturns
  \/ \E r \in Rotators : Rotation(r)

Spec == Init /\ [][Next]_vars

-----------------------------------------------------------------------------
\* Every reference leads to a record, at any moment of a seeding and after any
\* failure of it, unless a run left a kind of record out of a store that never
\* had all of them (the order of the saves in CreateSampleDataSetAsync).
ReferencesResolve ==
  partial \/
  /\ \A c \in services : policies[PolicyOf[c]] > 0
  /\ \A s \in Secrets : secrets[s] # None /\ Attached(s) => ServiceOf[s] \in services
  /\ \A a \in associations : secrets[a[1]] # None /\ secrets[a[2]] # None

\* With the same exception what is found is whole: a task of a listing returns a
\* secret, never null, and an attached secret comes with service and policy, though
\* they are read later than it and while they are written (ScheduleDependencyUpdates-
\* RequestProcessor uses the result unchecked; RotateSecretAsync throws without them).
LoadsResolve ==
  \A l \in Loaders : loads[l].stage = "loaded" =>
    \/ partial
    \/ loads[l].record = None /\ l \in Rotators
    \/ loads[l].record # None /\ Complete(loads[l])

\* Not even then does a rotation lose the service of a secret, although it writes the
\* record from its copy (the guards of ProcessSecret and SaveSecretAsync).
ServiceKept ==
  \A s \in Secrets : secrets[s] # None => secrets[s].service = ServiceOf[s]

\* A secret is stored to expire by its policy as it was when its rotation began, or as
\* it was saved since: a saved policy is never ignored (GetPolicyAsync reads the blob).
NewestPolicyApplied ==
  \A r \in Rotators : loads[r].stage = "save" => loads[r].policy >= loads[r].since

\* A record never goes back to an older version, neither by a rotation that saves a copy
\* it read before nor by a seeding that was asked for other kinds.  Only the very save of
\* that record by a seeding that was asked to save secrets may do so (Host.cs 349-355).
VersionsKept ==
  [][\A s \in Secrets :
       secrets[s] # None =>
         \/ secrets'[s] # None /\ secrets'[s].version >= secrets[s].version
         \/ "secrets" \in seed.save /\ SeedSecret(s)]_vars
=============================================================================
