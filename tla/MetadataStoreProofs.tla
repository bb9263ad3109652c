------------------------- MODULE MetadataStoreProofs -------------------------
(***************************************************************************)
(* For any data set and any number of rotators, listings, seedings and     *)
(* saves: references resolve at every moment, a loader finds whole records *)
(* although it reads them one by one, and no rotation loses a service.     *)
(* With one rotator no record goes back to an older version.               *)
(***************************************************************************)
EXTENDS MetadataStore, TLAPS

\* What a full seeding has saved, stage by stage.
SavedBefore ==
  LET Past(stages) == seed.stage \in stages
  IN  /\ \A p \in SamplePolicies :
           Past({"services", "secrets", "associations"})
             \/ (Past({"policies"}) /\ p \notin seed.todo) => policies[p] > 0
      /\ \A c \in Services :
           Past({"secrets", "associations"})
             \/ (Past({"services"}) /\ c \notin seed.todo) => c \in services
      /\ \A s \in Secrets :
           Past({"associations"})
             \/ (Past({"secrets"}) /\ s \notin seed.todo) => secrets[s] # None

\* The store has every record but associations.
AllSaved ==
  /\ \A p \in SamplePolicies : policies[p] > 0
  /\ \A c \in Services : c \in services
  /\ \A s \in Secrets : secrets[s] # None

\* Until something was left out, the store has everything or is being filled in order.
SeedInv ==
  /\ seed.save = Switches => SavedBefore
  /\ seeded => AllSaved
  /\ partial \/ seeded \/ seed.stage = "off" \/ seed.save = Switches

\* What a loader has so far belongs to the secret it loads.
LoadInv(l) ==
  LET load == loads[l]
  IN  /\ load.stage # "idle" => load.of \in Secrets
      /\ load.record # None => load.of \in Secrets /\ load.record.service = ServiceOf[load.of]
      /\ load.service # None => load.record # None /\ load.service = load.record.service
      /\ load.stage = "service" => load.record # None /\ load.record.service # None
      /\ load.stage = "policy" => load.service # None
      /\ load.stage = "save" => load.record # None /\ Complete(load)
      /\ load.stage = "save" => l \in Rotators

\* A task of a listing loads a secret that has a record.
ListInv(l) == l \in Secrets /\ loads[l].stage # "idle" => partial \/ secrets[loads[l].of] # None

\* The policy of a loading secret was saved no less often than when the loading began.
PolicyInv(l) ==
  LET load == loads[l]
  IN  /\ load.stage # "idle" => load.since <= PolicySaves(load.of)
      /\ load.stage \in {"loaded", "save"} /\ load.service # None => load.policy >= load.since

\* What was read still exists.
FoundInv(l) ==
  LET load == loads[l]
  IN  /\ load.record # None => secrets[load.of] # None
      /\ load.service # None => load.service \in services

StoreInv == TypeOK /\ SeedInv /\ ReferencesResolve /\ ServiceKept

Sound(l) == LoadInv(l) /\ ListInv(l) /\ PolicyInv(l) /\ FoundInv(l)

LoaderInv == \A l \in Loaders : Sound(l)

\* What LoadsResolve says of one loader.
Whole(l) ==
  loads[l].stage = "loaded" =>
    \/ partial
    \/ loads[l].record = None /\ l \in Rotators
    \/ loads[l].record # None /\ Complete(loads[l])

IInv == StoreInv /\ LoaderInv /\ LoadsResolve

USE StoreAssumption DEF NotSeeding

-----------------------------------------------------------------------------
LEMMA Basics ==
  /\ \A s \in Secrets : Attached(s) => ServiceOf[s] \in Services
  /\ \A c \in Services : PolicyOf[c] \in Policies /\ PolicyOf[c] \in SamplePolicies
  /\ \A r \in Record : r # None
  /\ \A s \in Secrets : s # None
  /\ \A c \in Services : c # None
BY DEF Attached

LEMMA RecordsInSample ==
  ASSUME NEW stage, NEW save
  PROVE  Records(stage, save) \subseteq Sample
BY DEF Records, Sample

\* A seeding step keeps the types.
LEMMA SeedingTypes ==
  ASSUME TypeOK, Seeding
  PROVE  TypeOK'
<1> USE DEF TypeOK, blobs, Stage
<1>1. ASSUME NEW save \in SUBSET Switches, StartSeed(save)
      PROVE  TypeOK'
  BY <1>1, RecordsInSample DEF StartSeed
<1>2. CASE NextStage
  <2>1. Follows(seed.stage) \in Stage
    BY <1>2 DEF NextStage, Follows
  <2>2. QED
    BY <1>2, <2>1, RecordsInSample DEF NextStage
<1>3. ASSUME NEW p \in SamplePolicies, SeedPolicy(p)
      PROVE  TypeOK'
  BY <1>3 DEF SeedPolicy, Saved
<1>4. ASSUME NEW c \in Services, SeedService(c)
      PROVE  TypeOK'
  BY <1>4 DEF SeedService, Saved
<1>5. ASSUME NEW s \in Secrets, SeedSecret(s)
      PROVE  TypeOK'
  BY <1>5 DEF SeedSecret, Saved, Record
<1>6. ASSUME NEW a \in Associations, SeedAssociation(a)
      PROVE  TypeOK'
  BY <1>6 DEF SeedAssociation, Saved
<1>7. CASE SeedFails
  BY <1>7 DEF SeedFails
<1>8. QED
  BY <1>1, <1>2, <1>3, <1>4, <1>5, <1>6, <1>7 DEF Seeding

LEMMA PolicySavesType ==
  ASSUME TypeOK, NEW s \in Secrets
  PROVE  PolicySaves(s) \in Nat
BY Basics DEF PolicySaves, TypeOK

\* So do loads, rotations and saved policies.
LEMMA LoadingTypes ==
  ASSUME TypeOK, NEW found \in SUBSET Secrets, NEW r \in Rotators, NEW s \in Secrets,
         List(found) \/ StartRotation(r, s) \/ ListReturns
  PROVE  TypeOK'
<1> USE DEF TypeOK, blobs, seeding, Loading, Loaders
<1>1. CASE List(found)
  BY <1>1, PolicySavesType DEF List
<1>2. CASE StartRotation(r, s)
  BY <1>2, PolicySavesType DEF StartRotation
<1>3. CASE ListReturns
  BY <1>3 DEF ListReturns, NoLoad
<1>4. QED
  BY <1>1, <1>2, <1>3

LEMMA ReadTypes ==
  ASSUME TypeOK, LoaderInv, NEW l \in Loaders, ReadSecret(l) \/ ReadService(l) \/ ReadPolicy(l)
  PROVE  TypeOK'
<1> USE DEF TypeOK, blobs, seeding
<1>0. LoadInv(l)
  BY DEF LoaderInv, Sound
<1>1. CASE ReadSecret(l)
  BY <1>0, <1>1 DEF ReadSecret, LoadInv
<1>2. CASE ReadService(l)
  BY <1>0, <1>2 DEF ReadService, LoadInv
<1>3. CASE ReadPolicy(l)
  <2>1. loads[l].service \in Services
    BY <1>0, <1>3 DEF ReadPolicy, LoadInv
  <2>2. policies[PolicyOf[loads[l].service]] \in Nat
    BY <2>1, Basics
  <2>3. QED
    BY <1>3, <2>2 DEF ReadPolicy
<1>4. QED
  BY <1>1, <1>2, <1>3

LEMMA RotationTypes ==
  ASSUME TypeOK, LoaderInv, NEW r \in Rotators, Rotation(r)
  PROVE  TypeOK'
<1> USE DEF TypeOK, blobs, seeding, Loaders
<1>0. LoadInv(r)
  BY DEF LoaderInv, Sound
<1>1. CASE IgnoreUnknown(r) \/ RotationFails(r)
  BY <1>1 DEF IgnoreUnknown, RotationFails, NoLoad
<1>2. CASE Rotate(r)
  <2>1. loads[r].record \in Record
    BY <1>2 DEF Rotate
  <2>2. [loads[r].record EXCEPT !.version = version + 1] \in Record
    BY <2>1 DEF Record
  <2>3. [loads EXCEPT ![r].stage = "save",
                     ![r].record = [@ EXCEPT !.version = version + 1]]
          = [loads EXCEPT ![r] = [loads[r] EXCEPT !.stage = "save",
                                    !.record = [loads[r].record EXCEPT !.version = version + 1]]]
    OBVIOUS
  <2>4. version' \in 0..MaxVersion
    BY <1>2, SMTT(30) DEF Rotate
  <2>5. loads' \in [Loaders -> [stage : {"idle", "secret", "service", "policy", "loaded", "save"},
                            of : Secrets \cup {None}, record : Record \cup {None},
                            service : Services \cup {None}, policy : Nat, since : Nat]]
    BY <1>2, <2>2, <2>3, SMTT(30) DEF Rotate
  <2>6. QED
    BY <1>2, <2>4, <2>5 DEF Rotate
<1>3. CASE SaveSecret(r)
  <2>1. loads[r].record \in Record /\ loads[r].of \in Secrets
    BY <1>0, <1>3 DEF SaveSecret, LoadInv
  <2>2. [version |-> loads[r].record.version, service |-> loads[r].service] \in Record
    BY <2>1 DEF Record
  <2>3. QED
    BY <1>3, <2>1, <2>2 DEF SaveSecret, NoLoad
<1>4. QED
  BY <1>1, <1>2, <1>3 DEF Rotation
LEMMA TypesKept ==
  ASSUME TypeOK, LoaderInv, [Next]_vars
  PROVE  TypeOK'
<1>1. CASE Seeding
  BY <1>1, SeedingTypes
<1>2. ASSUME NEW p \in Policies, SavePolicy(p)
      PROVE  TypeOK'
  BY <1>2 DEF SavePolicy, seeding, TypeOK
<1>3. ASSUME NEW r \in Rotators, NEW s \in Secrets, StartRotation(r, s)
      PROVE  TypeOK'
  BY <1>3 DEF StartRotation, TypeOK, blobs, seeding, Loading, Loaders, PolicySaves, Attached
<1>4. ASSUME NEW found \in SUBSET Secrets, List(found)
      PROVE  TypeOK'
  BY <1>4, PolicySavesType DEF List, TypeOK, blobs, seeding, Loading, Loaders
<1>5. CASE ListReturns
  BY <1>5 DEF ListReturns, TypeOK, blobs, seeding, Loaders, NoLoad
<1>6. ASSUME NEW l \in Loaders, ReadSecret(l) \/ ReadService(l) \/ ReadPolicy(l)
      PROVE  TypeOK'
  BY <1>6, ReadTypes
<1>7. ASSUME NEW r \in Rotators, Rotation(r)
      PROVE  TypeOK'
  BY <1>7, RotationTypes
<1>8. CASE UNCHANGED vars
  BY <1>8 DEF vars, blobs, seeding, TypeOK
<1>9. QED
  BY <1>1, <1>2, <1>3, <1>4, <1>5, <1>6, <1>7, <1>8 DEF Next, ListSecrets, ListDependents

-----------------------------------------------------------------------------
\* Nothing is ever removed from the store.
Grown ==
  /\ \A p \in Policies : policies'[p] >= policies[p]
  /\ services \subseteq services'
  /\ \A s \in Secrets : secrets[s] # None => secrets'[s] # None
  /\ partial => partial'

LEMMA StoreGrows ==
  ASSUME TypeOK, LoaderInv, [Next]_vars
  PROVE  Grown
<1> USE DEF Grown, TypeOK, blobs, seeding
<1>1. CASE Seeding
  BY <1>1, Basics DEF Seeding, StartSeed, NextStage, SeedPolicy, SeedService, SeedSecret,
                      SeedAssociation, SeedFails, Saved, Record
<1>2. ASSUME NEW p \in Policies, SavePolicy(p)
      PROVE  Grown
  BY <1>2 DEF SavePolicy
<1>3. ASSUME NEW r \in Rotators, SaveSecret(r)
      PROVE  Grown
  <2>1. LoadInv(r)
    BY DEF LoaderInv, Sound, Loaders
  <2>2. loads[r] \in [stage : {"idle", "secret", "service", "policy", "loaded", "save"},
                      of : Secrets \cup {None}, record : Record \cup {None},
                      service : Services \cup {None}, policy : Nat, since : Nat]
    BY DEF Loaders
  <2>3. [version |-> loads[r].record.version, service |-> loads[r].service] \in Record
    BY <1>3, <2>1, <2>2 DEF SaveSecret, LoadInv, Record
  <2>4. QED
    BY <1>3, <2>3, Basics DEF SaveSecret
<1>4. CASE UNCHANGED blobs /\ UNCHANGED seeding
  BY <1>4
<1>5. QED
  BY <1>1, <1>2, <1>3, <1>4 DEF Next, StartRotation, ListSecrets, ListDependents, List,
        ReadSecret, ReadService, ReadPolicy, ListReturns, Rotation, IgnoreUnknown,
        RotationFails, Rotate, vars

\* A full seeding goes on in order, and the store stays complete.
LEMMA SeedInvKept ==
  ASSUME TypeOK, LoaderInv, SeedInv, [Next]_vars
  PROVE  SeedInv'
<1>0. Grown /\ policies' \in [Policies -> Nat]
  BY StoreGrows, TypesKept DEF TypeOK
<1>1. AllSaved => AllSaved'
  BY <1>0 DEF AllSaved, Grown, TypeOK
<1> USE DEF SeedInv, SavedBefore, AllSaved, TypeOK, Switches
<1>2. ASSUME NEW save \in SUBSET Switches, StartSeed(save)
      PROVE  SeedInv'
  BY <1>2, <1>1 DEF StartSeed, blobs, Records
<1>3. CASE NextStage
  BY <1>3, <1>1 DEF NextStage, blobs, Records, Follows, Stage
<1>4. ASSUME NEW p \in SamplePolicies, SeedPolicy(p)
      PROVE  SeedInv'
  BY <1>4, <1>1 DEF SeedPolicy, Saved
<1>5. ASSUME NEW c \in Services, SeedService(c)
      PROVE  SeedInv'
  BY <1>5, <1>1 DEF SeedService, Saved
<1>6. ASSUME NEW s \in Secrets, SeedSecret(s)
      PROVE  SeedInv'
  BY <1>6, <1>1, Basics DEF SeedSecret, Saved, Record
<1>7. ASSUME NEW a \in Associations, SeedAssociation(a)
      PROVE  SeedInv'
  BY <1>7, <1>1 DEF SeedAssociation, Saved
<1>8. CASE SeedFails
  BY <1>8, <1>1 DEF SeedFails, blobs
<1>9. CASE UNCHANGED seeding
  <2>1. SavedBefore => SavedBefore'
    BY <1>0, <1>9 DEF seeding, Grown
  <2>2. QED
    BY <1>1, <1>9, <2>1 DEF seeding
<1>10. QED
  BY <1>2, <1>3, <1>4, <1>5, <1>6, <1>7, <1>8, <1>9 DEF Next, Seeding, SavePolicy, StartRotation,
        ListSecrets, ListDependents, List, ReadSecret, ReadService, ReadPolicy, ListReturns,
        Rotation, IgnoreUnknown, RotationFails, Rotate, SaveSecret, vars
-----------------------------------------------------------------------------
LEMMA ServiceKeptKept ==
  ASSUME TypeOK, LoaderInv, ServiceKept, [Next]_vars
  PROVE  ServiceKept'
<1> USE DEF ServiceKept, TypeOK, blobs
<1>1. ASSUME NEW s \in Secrets, SeedSecret(s)
      PROVE  ServiceKept'
  BY <1>1 DEF SeedSecret
<1>2. ASSUME NEW r \in Rotators, SaveSecret(r)
      PROVE  ServiceKept'
  <2>1. LoadInv(r)
    BY DEF LoaderInv, Sound, Loaders
  <2>2. loads[r].of \in Secrets /\ loads[r].service = ServiceOf[loads[r].of]
    BY <1>2, <2>1 DEF SaveSecret, LoadInv, Complete, Attached
  <2>3. QED
    BY <1>2, <2>2 DEF SaveSecret
<1>3. CASE UNCHANGED secrets
  BY <1>3
<1>4. QED
  BY <1>1, <1>2, <1>3 DEF Next, Seeding, StartSeed, NextStage, SeedPolicy, SeedService,
        SeedAssociation, SeedFails, SavePolicy, StartRotation, ListSecrets, ListDependents, List,
        ReadSecret, ReadService, ReadPolicy, ListReturns, Rotation, IgnoreUnknown,
        RotationFails, Rotate, vars

\* A record is saved after those it refers to.
LEMMA ReferencesKept ==
  ASSUME TypeOK, LoaderInv, SeedInv, ReferencesResolve, [Next]_vars
  PROVE  ReferencesResolve'
<1>0. Grown /\ TypeOK'
  BY StoreGrows, TypesKept
<1> SUFFICES ASSUME ~partial'
             PROVE  ReferencesResolve'
  BY DEF ReferencesResolve
<1>1. /\ \A c \in services : policies[PolicyOf[c]] > 0
      /\ \A s \in Secrets : secrets[s] # None /\ Attached(s) => ServiceOf[s] \in services
      /\ \A a \in associations : secrets[a[1]] # None /\ secrets[a[2]] # None
  BY <1>0 DEF Grown, ReferencesResolve
<1>2. \A c \in services : PolicyOf[c] \in Policies /\ policies'[PolicyOf[c]] > 0
  BY <1>0, <1>1, Basics DEF Grown, TypeOK
<1>3. \A a \in associations : a[1] \in Secrets /\ a[2] \in Secrets
                                /\ secrets'[a[1]] # None /\ secrets'[a[2]] # None
  BY <1>0, <1>1 DEF Grown, TypeOK
<1>4. AllSaved \/ seed.stage = "off" \/ SavedBefore
  BY <1>0 DEF SeedInv, Grown
<1> USE DEF ReferencesResolve, Attached
<1>5. ASSUME NEW c \in Services, SeedService(c)
      PROVE  ReferencesResolve'
  <2>1. policies[PolicyOf[c]] > 0
    BY <1>4, <1>5, Basics DEF SeedService, AllSaved, SavedBefore
  <2>2. QED
    BY <1>1, <1>5, <2>1 DEF SeedService
<1>6. ASSUME NEW s \in Secrets, SeedSecret(s)
      PROVE  ReferencesResolve'
  <2>1. Attached(s) => ServiceOf[s] \in services
    BY <1>4, <1>6, Basics DEF SeedSecret, AllSaved, SavedBefore
  <2>2. QED
    BY <1>1, <1>3, <1>6, <2>1 DEF SeedSecret, TypeOK
<1>7. ASSUME NEW a \in Associations, SeedAssociation(a)
      PROVE  ReferencesResolve'
  <2>1. secrets[a[1]] # None /\ secrets[a[2]] # None
    BY <1>4, <1>7 DEF SeedAssociation, AllSaved, SavedBefore
  <2>2. QED
    BY <1>1, <1>7, <2>1 DEF SeedAssociation
<1>8. ASSUME NEW r \in Rotators, SaveSecret(r)
      PROVE  ReferencesResolve'
  <2>1. LoadInv(r) /\ FoundInv(r)
    BY DEF LoaderInv, Sound, Loaders
  <2>2. loads[r].of \in Secrets /\ secrets[loads[r].of] # None
    BY <1>8, <2>1 DEF SaveSecret, LoadInv, FoundInv
  <2>3. \A s \in Secrets : secrets'[s] # None => secrets[s] # None
    BY <1>8, <2>2 DEF SaveSecret, TypeOK
  <2>4. QED
    BY <1>1, <1>3, <1>8, <2>3 DEF SaveSecret
<1>9. CASE UNCHANGED <<services, secrets, associations>>
  BY <1>1, <1>2, <1>9
<1>10. QED
  BY <1>5, <1>6, <1>7, <1>8, <1>9 DEF Next, Seeding, StartSeed, NextStage, SeedPolicy,
        SeedFails, SavePolicy, StartRotation, ListSecrets, ListDependents, List,
        ReadSecret, ReadService, ReadPolicy, ListReturns, Rotation, IgnoreUnknown,
        RotationFails, Rotate, vars, blobs
-----------------------------------------------------------------------------
LoadType ==
  [stage : {"idle", "secret", "service", "policy", "loaded", "save"},
   of : Secrets \cup {None}, record : Record \cup {None},
   service : Services \cup {None}, policy : Nat, since : Nat]

\* The saves of the policy of a secret only grow in number.
LEMMA PolicySavesGrow ==
  ASSUME TypeOK, LoaderInv, [Next]_vars, NEW s \in Secrets
  PROVE  PolicySaves(s) \in Nat /\ PolicySaves(s)' \in Nat /\ PolicySaves(s) <= PolicySaves(s)'
<1>1. Grown /\ TypeOK'
  BY StoreGrows, TypesKept
<1>2. policies \in [Policies -> Nat] /\ policies' \in [Policies -> Nat]
  BY <1>1 DEF TypeOK
<1>3. QED
  BY <1>1, <1>2, Basics DEF PolicySaves, Grown

\* A loader that does nothing stays sound, whatever the store does.
LEMMA StaysSound ==
  ASSUME TypeOK, LoaderInv, [Next]_vars, NEW l \in Loaders, loads'[l] = loads[l], Whole(l)
  PROVE  Sound(l)' /\ Whole(l)'
<1>1. Sound(l) /\ Grown
  BY StoreGrows DEF LoaderInv
<1>2. loads[l] \in LoadType
  BY DEF TypeOK, LoadType
<1>3. LoadInv(l)'
  BY <1>1 DEF Sound, LoadInv, Complete, Attached
<1>4. ListInv(l)' /\ FoundInv(l)'
  BY <1>1, <1>2 DEF Sound, LoadInv, ListInv, FoundInv, Grown
<1>5. PolicyInv(l)'
  <2>1. loads[l].stage # "idle" =>
          loads[l].of \in Secrets /\ loads[l].since <= PolicySaves(loads[l].of)
    BY <1>1 DEF Sound, LoadInv, PolicyInv
  <2>2. CASE loads[l].stage = "idle"
    BY <2>2 DEF PolicyInv
  <2>3. CASE loads[l].stage # "idle"
    <3>1. PolicySaves(loads[l].of) \in Nat /\ PolicySaves(loads[l].of)' \in Nat
          /\ PolicySaves(loads[l].of) <= PolicySaves(loads[l].of)'
      <4>1. \A s \in Secrets : PolicySaves(s) \in Nat /\ PolicySaves(s)' \in Nat
                                /\ PolicySaves(s) <= PolicySaves(s)'
        BY PolicySavesGrow
      <4>2. PolicySaves(loads[l].of)'
              = IF Attached(loads[l].of) THEN policies'[PolicyOf[ServiceOf[loads[l].of]]] ELSE 0
        BY DEF PolicySaves, Attached
      <4>3. QED
        BY <2>1, <2>3, <4>1, <4>2 DEF PolicySaves, Attached
    <3>2. loads[l].since <= IF Attached(loads[l].of)
                            THEN policies'[PolicyOf[ServiceOf[loads[l].of]]] ELSE 0
      BY <1>2, <2>1, <2>3, <3>1 DEF PolicySaves, LoadType, Attached
    <3>3. QED
      BY <1>1, <3>2 DEF Sound, PolicyInv, PolicySaves, Attached
  <2>4. QED
    BY <2>2, <2>3
<1>6. Whole(l)'
  BY <1>1 DEF Whole, Complete, Attached, Grown
<1>7. QED
  BY <1>3, <1>4, <1>5, <1>6 DEF Sound

LEMMA RestSound ==
  ASSUME NEW l \in Loaders, loads'[l] = NoLoad
  PROVE  Sound(l)' /\ Whole(l)'
BY DEF NoLoad, Sound, LoadInv, ListInv, PolicyInv, FoundInv, Whole

LEMMA BeginsSound ==
  ASSUME TypeOK, NEW l \in Loaders, NEW s \in Secrets, loads'[l] = Loading(s),
         UNCHANGED <<blobs, seeding>>, l \in Secrets => partial \/ secrets[s] # None
  PROVE  Sound(l)' /\ Whole(l)'
<1>1. PolicySaves(s) \in Nat
  BY PolicySavesType
<1>2. LoadInv(l)' /\ ListInv(l)' /\ FoundInv(l)' /\ Whole(l)'
  BY Basics DEF Loading, LoadInv, ListInv, FoundInv, Whole, blobs, seeding
<1>3. PolicyInv(l)'
  BY <1>1 DEF Loading, PolicyInv, PolicySaves, Attached, blobs
<1>4. QED
  BY <1>2, <1>3 DEF Sound

\* The record comes first: the service it names is there, unless something was left out.
LEMMA ReadSound ==
  ASSUME IInv, NEW l \in Loaders, ReadSecret(l) \/ ReadService(l) \/ ReadPolicy(l)
  PROVE  Sound(l)' /\ Whole(l)'
<1>1. Sound(l) /\ loads[l] \in LoadType /\ loads \in [Loaders -> LoadType]
  BY DEF IInv, LoaderInv, StoreInv, TypeOK, LoadType
<1>2. UNCHANGED <<policies, services, secrets, partial>>
  BY DEF ReadSecret, ReadService, ReadPolicy, blobs, seeding
<1>3. loads[l].of \in Secrets
  BY <1>1 DEF Sound, LoadInv, ReadSecret, ReadService, ReadPolicy
<1>4. PolicySaves(loads[l].of) \in Nat
  BY <1>3, PolicySavesType DEF IInv, StoreInv
<1> DEFINE of == loads[l].of
<1> USE DEF Sound, LoadInv, ListInv, PolicyInv, FoundInv, Whole, Complete, Attached, PolicySaves
<1>5. CASE ReadSecret(l)
  <2> DEFINE record == secrets[of]
             further == record # None /\ record.service # None
  <2>1. /\ loads'[l].stage = IF further THEN "service" ELSE "loaded"
        /\ loads'[l].record = record
        /\ loads'[l].of = of /\ loads'[l].since = loads[l].since
        /\ loads'[l].service = loads[l].service /\ loads'[l].policy = loads[l].policy
    BY <1>1, <1>5 DEF ReadSecret, LoadType
  <2>2. record # None => record.service = ServiceOf[of]
    BY <1>3 DEF IInv, StoreInv, ServiceKept
  <2>3. loads[l].service # None => record # None /\ loads[l].service = record.service
    BY <1>1, <1>3, <2>2
  <2>4. l \in Secrets => partial \/ record # None
    BY <1>1, <1>5 DEF ReadSecret
  <2>5. l \notin Secrets => l \in Rotators
    BY DEF Loaders
  <2>6. LoadInv(l)'
    BY <1>2, <1>3, <2>1, <2>2, <2>3
  <2>7. ListInv(l)' /\ FoundInv(l)'
    BY <1>1, <1>2, <1>3, <2>1, <2>4
  <2>8. PolicyInv(l)'
    <3>1. loads'[l].since <= PolicySaves(of)
      BY <1>1, <1>5, <2>1 DEF ReadSecret
    <3>2. loads'[l].stage = "loaded" => loads'[l].service = None
      BY <1>1, <2>1, <2>3
    <3>3. QED
      BY <1>2, <2>1, <3>1, <3>2
  <2>9. Whole(l)'
    BY <1>2, <1>3, <2>1, <2>2, <2>4, <2>5
  <2>10. QED
    BY <2>6, <2>7, <2>8, <2>9
<1>6. CASE ReadService(l)
  <2> DEFINE service == loads[l].record.service
  <2>1. /\ loads[l].record # None /\ service = ServiceOf[of] /\ service # None
        /\ secrets[of] # None
    BY <1>1, <1>6 DEF ReadService
  <2>2. CASE service \in services
    <3>1. loads'[l] = [loads[l] EXCEPT !.service = service, !.stage = "policy"]
      BY <1>1, <1>6, <2>2 DEF ReadService
    <3>2. /\ loads'[l].stage = "policy" /\ loads'[l].service = service
          /\ loads'[l].of = of /\ loads'[l].record = loads[l].record
          /\ loads'[l].since = loads[l].since
      BY <1>1, <3>1 DEF LoadType
    <3>3. QED
      BY <1>1, <1>2, <1>3, <1>6, <2>1, <2>2, <3>2 DEF ReadService
  <2>3. CASE service \notin services
    <3>1. loads'[l] = [loads[l] EXCEPT !.stage = "loaded"]
      BY <1>1, <1>6, <2>3 DEF ReadService
    <3>2. /\ loads'[l].stage = "loaded" /\ loads'[l].service = loads[l].service
          /\ loads'[l].of = of /\ loads'[l].record = loads[l].record
          /\ loads'[l].since = loads[l].since
      BY <1>1, <3>1 DEF LoadType
    <3>3. partial
      BY <1>3, <2>1, <2>3 DEF IInv, StoreInv, ReferencesResolve
    <3>4. loads[l].service = None
      BY <1>1, <2>1, <2>3
    <3>5. QED
      BY <1>1, <1>2, <1>3, <1>6, <2>1, <3>2, <3>3, <3>4 DEF ReadService
  <2>4. QED
    BY <2>2, <2>3
<1>7. CASE ReadPolicy(l)
  <2> DEFINE saves == policies[PolicyOf[loads[l].service]]
  <2>1. /\ loads[l].record # None /\ loads[l].service = ServiceOf[of]
        /\ loads[l].service # None /\ loads[l].service \in services
    BY <1>1, <1>7 DEF ReadPolicy
  <2>2. /\ loads'[l].stage = "loaded" /\ loads'[l].service = loads[l].service
        /\ loads'[l].of = of /\ loads'[l].record = loads[l].record
        /\ loads'[l].since = loads[l].since /\ loads'[l].policy = saves
    BY <1>1, <1>7 DEF ReadPolicy, LoadType
  <2>3. saves = PolicySaves(of) /\ saves >= loads[l].since
    <3>1. saves = PolicySaves(of)
      BY <2>1
    <3>2. loads[l].since <= PolicySaves(of) /\ loads[l].since \in Nat
      BY <1>1, <1>7 DEF ReadPolicy, LoadType
    <3>3. QED
      BY <1>4, <3>1, <3>2
  <2>4. partial \/ saves > 0
    BY <2>1 DEF IInv, StoreInv, ReferencesResolve
  <2>5. LoadInv(l)' /\ ListInv(l)' /\ FoundInv(l)'
    <3>1. loads[l].stage = "policy" /\ loads'[l].record = loads[l].record
      BY <1>1, <1>7 DEF ReadPolicy, LoadType
    <3>2. LoadInv(l)'
      BY <1>1, <1>3, <2>1, <2>2, <3>1
    <3>3. ListInv(l)'
      BY <1>1, <1>2, <2>2, <3>1
    <3>4. FoundInv(l)'
      BY <1>1, <1>2, <2>1, <2>2, <3>1
    <3>5. QED
      BY <3>2, <3>3, <3>4
  <2>6. PolicyInv(l)' /\ Whole(l)'
    BY <1>2, <2>1, <2>2, <2>3, <2>4
  <2>7. QED
    BY <2>5, <2>6
<1>8. QED
  BY <1>5, <1>6, <1>7

LEMMA RotateSound ==
  ASSUME IInv, NEW r \in Rotators, Rotate(r)
  PROVE  Sound(r)' /\ Whole(r)'
<1>1. Sound(r) /\ loads[r] \in LoadType /\ loads \in [Loaders -> LoadType] /\ r \in Loaders
  BY DEF IInv, LoaderInv, StoreInv, TypeOK, LoadType, Loaders
<1>2. loads[r].record \in Record
  BY <1>1 DEF Rotate, LoadType
<1>3. /\ loads'[r].record = [loads[r].record EXCEPT !.version = version + 1]
      /\ loads'[r].stage = "save" /\ loads'[r].of = loads[r].of
      /\ loads'[r].service = loads[r].service /\ loads'[r].policy = loads[r].policy
      /\ loads'[r].since = loads[r].since
  BY <1>1, <1>2 DEF Rotate, LoadType
<1>4. loads'[r].record \in Record /\ loads'[r].record.service = loads[r].record.service
  BY <1>2, <1>3 DEF Record, IInv, StoreInv, TypeOK
<1>5. loads'[r].record # None
  BY <1>4, Basics
<1>6. r \notin Secrets
  OBVIOUS
<1> USE DEF Sound, LoadInv, ListInv, PolicyInv, FoundInv, Whole, Complete, Attached, PolicySaves
<1>7. LoadInv(r)' /\ ListInv(r)' /\ Whole(r)'
  BY <1>1, <1>3, <1>4, <1>5, <1>6 DEF Rotate
<1>8. PolicyInv(r)' /\ FoundInv(r)'
  BY <1>1, <1>3, <1>4, <1>5 DEF Rotate, blobs
<1>9. QED
  BY <1>7, <1>8
-----------------------------------------------------------------------------
LEMMA InitIInv == Init => IInv
<1> SUFFICES ASSUME Init
             PROVE  IInv
  OBVIOUS
<1>1. StoreInv
  <2>1. TypeOK
    <3>1. NoLoad \in [stage : {"idle", "secret", "service", "policy", "loaded", "save"},
                      of : Secrets \cup {None}, record : Record \cup {None},
                      service : Services \cup {None}, policy : Nat, since : Nat]
      BY DEF NoLoad
    <3>2. seed \in [stage : Stage, save : SUBSET Switches, todo : SUBSET Sample]
      BY DEF Init, Stage
    <3>3. secrets \in [Secrets -> Record \cup {None}] /\ policies \in [Policies -> Nat]
      BY DEF Init
    <3>4. 0 \in 0..MaxSeeds /\ 0 \in 0..MaxVersion
      OBVIOUS
    <3>5. QED
      BY <3>1, <3>2, <3>3, <3>4 DEF Init, TypeOK
  <2>2. SeedInv
    BY DEF Init, SeedInv, Switches
  <2>3. ReferencesResolve /\ ServiceKept
    BY DEF Init, ReferencesResolve, ServiceKept
  <2>4. QED
    BY <2>1, <2>2, <2>3 DEF StoreInv
<1>2. LoaderInv /\ LoadsResolve
  BY DEF Init, NoLoad, LoaderInv, Sound, LoadInv, ListInv, PolicyInv, FoundInv, LoadsResolve
<1>3. QED
  BY <1>1, <1>2 DEF IInv

\* Every loader is sound after every step, and what it loaded is whole.
LEMMA LoaderStep ==
  ASSUME IInv, [Next]_vars, NEW l \in Loaders
  PROVE  Sound(l)' /\ Whole(l)'
<1>0. /\ TypeOK /\ LoaderInv /\ Whole(l)
      /\ loads \in [Loaders -> LoadType]
      /\ Rotators \subseteq Loaders /\ Secrets \subseteq Loaders
  BY DEF IInv, StoreInv, TypeOK, LoadsResolve, Whole, LoadType, Loaders
<1>1. CASE loads'[l] = loads[l]
  BY <1>0, <1>1, StaysSound
<1>2. CASE loads'[l] = NoLoad
  BY <1>2, RestSound
<1>3. ASSUME NEW r \in Rotators, NEW s \in Secrets, StartRotation(r, s), l = r
      PROVE  Sound(l)' /\ Whole(l)'
  <2>1. loads'[l] = Loading(s) /\ UNCHANGED <<blobs, seeding>> /\ l \notin Secrets
    BY <1>0, <1>3 DEF StartRotation
  <2>2. QED
    BY <1>0, <2>1, BeginsSound
<1>4. ASSUME NEW found \in SUBSET Secrets, List(found), l \in found,
             partial \/ secrets[l] # None
      PROVE  Sound(l)' /\ Whole(l)'
  <2>1. loads'[l] = Loading(l) /\ UNCHANGED <<blobs, seeding>>
    BY <1>0, <1>4 DEF List
  <2>2. QED
    BY <1>0, <1>4, <2>1, BeginsSound
<1>5. CASE ReadSecret(l) \/ ReadService(l) \/ ReadPolicy(l)
  BY <1>5, ReadSound
<1>6. ASSUME NEW r \in Rotators, Rotate(r), l = r
      PROVE  Sound(l)' /\ Whole(l)'
  BY <1>6, RotateSound
<1> HIDE DEF Sound, Whole
<1>7. CASE Seeding \/ (\E p \in Policies : SavePolicy(p)) \/ UNCHANGED vars
  <2>1. loads'[l] = loads[l]
    BY <1>7 DEF Seeding, StartSeed, NextStage, SeedPolicy, SeedService, SeedSecret,
                SeedAssociation, SeedFails, SavePolicy, vars
  <2>2. QED
    BY <1>1, <2>1
<1>8. ASSUME NEW r \in Rotators, NEW s \in Secrets, StartRotation(r, s)
      PROVE  Sound(l)' /\ Whole(l)'
  <2>1. l = r \/ loads'[l] = loads[l]
    BY <1>0, <1>8 DEF StartRotation
  <2>2. QED
    BY <1>1, <1>3, <1>8, <2>1
<1>9. CASE ListSecrets
  <2> DEFINE found == {s \in Secrets : secrets[s] # None}
  <2>1. List(found)
    BY <1>9 DEF ListSecrets
  <2>2. l \in found \/ loads'[l] = loads[l]
    BY <1>0, <2>1 DEF List
  <2>3. QED
    BY <1>1, <1>4, <2>1, <2>2
<1>10. ASSUME NEW s \in Secrets, ListDependents(s)
       PROVE  Sound(l)' /\ Whole(l)'
  <2> DEFINE found == {d \in Secrets : <<s, d>> \in associations}
  <2>1. List(found)
    BY <1>10 DEF ListDependents
  <2>2. l \in found \/ loads'[l] = loads[l]
    BY <1>0, <2>1 DEF List
  <2>3. ASSUME l \in found
        PROVE  partial \/ secrets[l] # None
    BY <2>3 DEF IInv, StoreInv, ReferencesResolve
  <2>4. QED
    BY <1>1, <1>4, <2>1, <2>2, <2>3
<1>11. ASSUME NEW k \in Loaders, ReadSecret(k) \/ ReadService(k) \/ ReadPolicy(k)
       PROVE  Sound(l)' /\ Whole(l)'
  <2>1. l = k \/ loads'[l] = loads[l]
    BY <1>0, <1>11 DEF ReadSecret, ReadService, ReadPolicy
  <2>2. QED
    BY <1>1, <1>5, <1>11, <2>1
<1>12. CASE ListReturns
  <2>1. loads'[l] = NoLoad \/ loads'[l] = loads[l]
    BY <1>0, <1>12 DEF ListReturns
  <2>2. QED
    BY <1>1, <1>2, <2>1
<1>13. ASSUME NEW r \in Rotators, Rotation(r)
       PROVE  Sound(l)' /\ Whole(l)'
  <2>1. CASE Rotate(r)
    <3>1. l = r \/ loads'[l] = loads[l]
      BY <1>0, <2>1 DEF Rotate
    <3>2. QED
      BY <1>1, <1>6, <2>1, <3>1
  <2>2. CASE IgnoreUnknown(r) \/ RotationFails(r) \/ SaveSecret(r)
    <3>1. loads'[l] = NoLoad \/ loads'[l] = loads[l]
      BY <1>0, <2>2 DEF IgnoreUnknown, RotationFails, SaveSecret
    <3>2. QED
      BY <1>1, <1>2, <3>1
  <2>3. QED
    BY <1>13, <2>1, <2>2 DEF Rotation
<1>14. QED
  BY <1>7, <1>8, <1>9, <1>10, <1>11, <1>12, <1>13 DEF Next

LEMMA InductiveStep == IInv /\ [Next]_vars => IInv'
<1> SUFFICES ASSUME IInv, [Next]_vars
             PROVE  IInv'
  OBVIOUS
<1>1. StoreInv'
  BY TypesKept, SeedInvKept, ReferencesKept, ServiceKeptKept DEF IInv, StoreInv
<1>2. LoaderInv' /\ LoadsResolve'
  <2>1. \A l \in Loaders : Sound(l)' /\ Whole(l)'
    BY LoaderStep
  <2>2. LoaderInv'
    BY <2>1 DEF LoaderInv, Loaders
  <2>3. LoadsResolve'
    BY <2>1 DEF LoadsResolve, Whole, Loaders
  <2>4. QED
    BY <2>2, <2>3
<1>3. QED
  BY <1>1, <1>2 DEF IInv

LEMMA Invariance == Spec => []IInv
BY InitIInv, InductiveStep, PTL DEF Spec

\* The types of the store and of its loaders.
THEOREM TypeCorrect == Spec => []TypeOK
<1>1. IInv => TypeOK
  BY DEF IInv, StoreInv
<1>2. QED
  BY <1>1, Invariance, PTL

\* Every reference leads to a record, whenever a seeding is interrupted.
THEOREM ReferencesAlwaysResolve == Spec => []ReferencesResolve
<1>1. IInv => ReferencesResolve
  BY DEF IInv, StoreInv
<1>2. QED
  BY <1>1, Invariance, PTL

\* What a rotation or a listing has loaded is whole, although it was read in pieces.
THEOREM LoadsAlwaysResolve == Spec => []LoadsResolve
<1>1. IInv => LoadsResolve
  BY DEF IInv
<1>2. QED
  BY <1>1, Invariance, PTL

\* A secret keeps its service through every rotation, even in an incomplete store.
THEOREM ServiceAlwaysKept == Spec => []ServiceKept
<1>1. IInv => ServiceKept
  BY DEF IInv, StoreInv
<1>2. QED
  BY <1>1, Invariance, PTL

\* A rotation goes by the policy as it was saved before it began, or later.
THEOREM NewestPolicyAlwaysApplied == Spec => []NewestPolicyApplied
<1>1. ASSUME IInv, NEW r \in Rotators, loads[r].stage = "save"
      PROVE  loads[r].policy >= loads[r].since
  <2>1. LoadInv(r) /\ PolicyInv(r) /\ loads[r] \in LoadType
    <3>1. r \in Loaders /\ LoaderInv /\ TypeOK
      BY <1>1 DEF IInv, StoreInv, Loaders
    <3>2. Sound(r)
      BY <3>1 DEF LoaderInv
    <3>3. loads[r] \in LoadType
      BY <3>1 DEF TypeOK, LoadType
    <3>4. QED
      BY <3>2, <3>3 DEF Sound
  <2>2. CASE loads[r].service # None
    BY <1>1, <2>1, <2>2 DEF PolicyInv
  <2>3. CASE loads[r].service = None
    <3>1. ~Attached(loads[r].of) /\ loads[r].of \in Secrets
      BY <1>1, <2>1, <2>3 DEF LoadInv, Complete
    <3>2. loads[r].since <= 0 /\ loads[r].since \in Nat /\ loads[r].policy \in Nat
      BY <1>1, <2>1, <3>1 DEF PolicyInv, PolicySaves, LoadType
    <3>3. QED
      BY <3>2
  <2>4. QED
    BY <2>2, <2>3
<1>2. IInv => NewestPolicyApplied
  BY <1>1 DEF NewestPolicyApplied
<1>3. QED
  BY <1>2, Invariance, PTL

-----------------------------------------------------------------------------
(* Versions.                                                               *)

OneRotator == \A q, r \in Rotators : q = r

\* No record is ahead of the vault, and what is about to be saved is not behind it.
VersionInv ==
  /\ \A s \in Secrets : secrets[s] # None => secrets[s].version <= version
  /\ \A r \in Rotators : loads[r].stage = "save" => loads[r].record.version = version

\* A seeding saves secrets only if it was asked to.
AskedInv == "secrets" \notin seed.save /\ seed.stage = "secrets" => seed.todo = {}

LEMMA NextAskedInv == TypeOK /\ AskedInv /\ [Next]_vars => AskedInv'
<1> SUFFICES ASSUME TypeOK, AskedInv, [Next]_vars PROVE AskedInv'
  OBVIOUS
<1>0. seed \in [stage : Stage, save : SUBSET Switches, todo : SUBSET Sample]
  BY DEF TypeOK
<1>1. CASE Seeding
  <2>1. ASSUME NEW x, Saved(x) PROVE AskedInv'
    BY <1>0, <2>1 DEF Saved, AskedInv
  <2>2. ASSUME NEW save \in SUBSET Switches, StartSeed(save) PROVE AskedInv'
    BY <2>2 DEF StartSeed, AskedInv
  <2>3. CASE SeedFails
    BY <2>3 DEF SeedFails, AskedInv
  <2>4. CASE NextStage
    BY <1>0, <2>4 DEF NextStage, Records, AskedInv
  <2> QED
    BY <1>1, <2>1, <2>2, <2>3, <2>4 DEF Seeding, SeedPolicy, SeedService, SeedSecret, SeedAssociation
<1>2. CASE UNCHANGED seed
  BY <1>2 DEF AskedInv
<1> QED
  BY <1>1, <1>2 DEF Next, SavePolicy, StartRotation, ListSecrets, ListDependents, List, ReadSecret,
    ReadService, ReadPolicy, ListReturns, Rotation, IgnoreUnknown, RotationFails, Rotate, SaveSecret,
    seeding, vars

\* A step that saves no secret and does not rotate.
LEMMA SameVersions ==
  ASSUME VersionInv, UNCHANGED <<secrets, version>>,
         \A r \in Rotators : loads'[r].stage = "save" => loads'[r] = loads[r]
  PROVE  VersionInv'
BY DEF VersionInv

LEMMA SaveOfVersion ==
  ASSUME IInv, VersionInv, NEW r \in Rotators, SaveSecret(r)
  PROVE  /\ loads[r].of \in Secrets /\ secrets'[loads[r].of].version = version
         /\ \A s \in Secrets : s # loads[r].of => secrets'[s] = secrets[s]
         /\ \A q \in Rotators : q # r => loads'[q] = loads[q]
         /\ loads'[r].stage = "idle" /\ version' = version
<1>1. TypeOK /\ Sound(r) /\ r \in Loaders
  BY DEF IInv, StoreInv, LoaderInv, Loaders
<1>2. loads[r].of \in Secrets /\ loads[r].record.version = version
  BY <1>1 DEF Sound, LoadInv, SaveSecret, VersionInv
<1> QED
  BY <1>1, <1>2 DEF TypeOK, SaveSecret, NoLoad, Loaders

LEMMA NextVersionInv ==
  ASSUME OneRotator, IInv, VersionInv, [Next]_vars
  PROVE  VersionInv'
<1>0. /\ TypeOK /\ loads \in [Loaders -> LoadType] /\ Rotators \subseteq Loaders
      /\ secrets \in [Secrets -> Record \cup {None}] /\ version \in Nat
  BY DEF IInv, StoreInv, TypeOK, LoadType, Loaders
<1>1. CASE UNCHANGED vars
  BY <1>1, SameVersions DEF vars, blobs
<1>2. CASE Seeding
  <2>1. CASE UNCHANGED <<secrets, version, loads>>
    BY <2>1, SameVersions
  <2>2. ASSUME NEW s \in Secrets, SeedSecret(s) PROVE VersionInv'
    <3>1. /\ UNCHANGED <<version, loads>> /\ secrets'[s].version = 0
          /\ \A t \in Secrets \ {s} : secrets'[t] = secrets[t]
      BY <1>0, <2>2 DEF SeedSecret
    <3> QED
      BY <1>0, <3>1 DEF VersionInv
  <2> QED
    BY <1>2, <2>1, <2>2 DEF Seeding, StartSeed, NextStage, SeedPolicy, SeedService,
      SeedAssociation, SeedFails, blobs
<1>3. ASSUME NEW p \in Policies, SavePolicy(p) PROVE VersionInv'
  BY <1>3, SameVersions DEF SavePolicy
<1>4. ASSUME NEW r \in Rotators, NEW s \in Secrets, StartRotation(r, s) PROVE VersionInv'
  BY <1>0, <1>4, SameVersions DEF StartRotation, Loading, blobs
<1>5. ASSUME NEW found \in SUBSET Secrets, List(found) PROVE VersionInv'
  <2>1. \A r \in Rotators : loads'[r] = loads[r]
    BY <1>0, <1>5 DEF List
  <2> QED
    BY <1>5, <2>1, SameVersions DEF List, blobs
<1>6. ASSUME NEW l \in Loaders, ReadSecret(l) \/ ReadService(l) \/ ReadPolicy(l)
      PROVE  VersionInv'
  <2>1. loads'[l].stage # "save" /\ \A k \in Loaders \ {l} : loads'[k] = loads[k]
    BY <1>0, <1>6 DEF ReadSecret, ReadService, ReadPolicy, LoadType
  <2> QED
    BY <1>0, <1>6, <2>1, SameVersions DEF ReadSecret, ReadService, ReadPolicy, blobs
<1>7. CASE ListReturns
  <2>1. \A r \in Rotators : loads'[r] = loads[r]
    BY <1>0, <1>7 DEF ListReturns
  <2> QED
    BY <1>7, <2>1, SameVersions DEF ListReturns, blobs
<1>8. ASSUME NEW r \in Rotators, IgnoreUnknown(r) \/ RotationFails(r) PROVE VersionInv'
  <2>1. loads'[r].stage = "idle" /\ \A q \in Rotators \ {r} : loads'[q] = loads[q]
    BY <1>0, <1>8 DEF IgnoreUnknown, RotationFails, NoLoad
  <2> QED
    BY <1>8, <2>1, SameVersions DEF IgnoreUnknown, RotationFails, blobs
<1>9. ASSUME NEW r \in Rotators, Rotate(r) PROVE VersionInv'
  <2>1. version' = version + 1 /\ secrets' = secrets
    BY <1>9 DEF Rotate, blobs
  <2>2. loads[r].record \in Record /\ \A q \in Rotators : q = r
    BY <1>0, <1>9 DEF Rotate, LoadType, OneRotator
  <2>3. loads'[r].record = [loads[r].record EXCEPT !.version = version + 1]
    BY <1>0, <1>9 DEF Rotate, LoadType
  <2>4. loads'[r].record.version = version'
    BY <2>1, <2>2, <2>3 DEF Record
  <2>5. \A s \in Secrets : secrets[s] # None => secrets[s].version <= version'
    <3>1. \A s \in Secrets : secrets[s] # None => secrets[s].version \in Nat
      BY <1>0 DEF Record
    <3> QED
      BY <1>0, <2>1, <3>1 DEF VersionInv
  <2> QED
    BY <2>1, <2>2, <2>4, <2>5 DEF VersionInv
<1>10. ASSUME NEW r \in Rotators, SaveSecret(r) PROVE VersionInv'
  BY <1>0, <1>10, SaveOfVersion DEF VersionInv
<1> QED
  BY <1>1, <1>2, <1>3, <1>4, <1>5, <1>6, <1>7, <1>8, <1>9, <1>10
    DEF Next, Rotation, ListSecrets, ListDependents

(***************************************************************************)
(* With one rotator (one host that handles one message after the other) a  *)
(* record never goes back to an older version of its secret, except in the *)
(* step in which a seeding that was asked to save secrets saves that very  *)
(* record; after it the versions grow again (MetadataStore, VersionsKept). *)
(***************************************************************************)
THEOREM VersionsAlwaysKept == OneRotator /\ Spec => VersionsKept
<1> SUFFICES ASSUME OneRotator PROVE Spec => VersionsKept
  OBVIOUS
<1>1. Init => VersionInv /\ AskedInv
  BY DEF Init, VersionInv, AskedInv, NoLoad, Loaders
<1>2. IInv /\ VersionInv /\ [Next]_vars => VersionInv'
  BY NextVersionInv
<1>2a. IInv /\ AskedInv /\ [Next]_vars => AskedInv'
  BY NextAskedInv DEF IInv, StoreInv
<1>3. IInv /\ VersionInv /\ AskedInv /\ [Next]_vars
        => [\A s \in Secrets :
              secrets[s] # None =>
                \/ secrets'[s] # None /\ secrets'[s].version >= secrets[s].version
                \/ "secrets" \in seed.save /\ SeedSecret(s)]_vars
  <2> SUFFICES ASSUME IInv, VersionInv, AskedInv, Next, NEW s \in Secrets, secrets[s] # None,
                      ~("secrets" \in seed.save /\ SeedSecret(s))
               PROVE  secrets'[s] # None /\ secrets'[s].version >= secrets[s].version
    OBVIOUS
  <2>1. secrets[s].version \in Nat /\ secrets[s].version <= version /\ version \in Nat
    BY DEF IInv, StoreInv, TypeOK, Record, VersionInv
  <2>2. CASE secrets' = secrets
    BY <2>1, <2>2
  <2>3. ASSUME NEW r \in Rotators, SaveSecret(r)
        PROVE  secrets'[s] # None /\ secrets'[s].version >= secrets[s].version
    <3>1. s = loads[r].of \/ secrets'[s] = secrets[s]
      BY <2>3, SaveOfVersion
    <3>2. s = loads[r].of => secrets'[s] # None /\ secrets'[s].version = version
      <4>1. loads[r].of \in Secrets /\ TypeOK /\ secrets'[loads[r].of].version = version
        BY <2>3, SaveOfVersion DEF IInv, StoreInv
      <4>2. loads[r].record \in Record
        <5>1. Sound(r) /\ loads[r] \in LoadType
          BY <4>1 DEF IInv, LoaderInv, Loaders, TypeOK, LoadType
        <5> QED
          BY <2>3, <5>1 DEF Sound, LoadInv, SaveSecret, LoadType
      <4>3. loads[r].service \in Services \cup {None}
        BY <4>1 DEF TypeOK, Loaders
      <4>4. [version |-> loads[r].record.version, service |-> loads[r].service] \in Record
        BY <4>2, <4>3 DEF Record
      <4>5. secrets'[loads[r].of] \in Record
        BY <2>3, <4>1, <4>4 DEF SaveSecret, TypeOK
      <4> QED
        BY <4>1, <4>5, Basics
    <3> QED
      BY <2>1, <3>1, <3>2
  <2>4. ASSUME NEW t \in Secrets, SeedSecret(t)
        PROVE  secrets'[s] # None /\ secrets'[s].version >= secrets[s].version
    <3>1. seed.stage = "secrets" /\ t \in seed.todo
      BY <2>4 DEF SeedSecret
    <3>2. "secrets" \in seed.save
      BY <3>1 DEF AskedInv
    <3>3. t # s
      BY <2>4, <3>2
    <3>4. secrets'[s] = secrets[s]
      BY <2>4, <3>3 DEF SeedSecret, IInv, StoreInv, TypeOK
    <3> QED
      BY <2>1, <3>4
  <2> QED
    BY <2>2, <2>3, <2>4 DEF Next, Seeding, StartSeed, NextStage, SeedPolicy, SeedService,
      SeedAssociation, SeedFails, SavePolicy, StartRotation, ListSecrets, ListDependents, List,
      ReadSecret, ReadService, ReadPolicy, ListReturns, Rotation, IgnoreUnknown, RotationFails,
      Rotate, blobs
<1> QED
  BY <1>1, <1>2, <1>2a, <1>3, Invariance, PTL DEF Spec, VersionsKept
=============================================================================
