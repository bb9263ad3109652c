------------------------ MODULE SecretRotationProofs ------------------------
(***************************************************************************)
(* Theorems about SecretRotation for all sets of requests and rotators,    *)
(* every limit on attempts and every number of faults.                     *)
(***************************************************************************)
EXTENDS SecretRotation, TLAPS

Busy == {"regenerate", "store", "disable", "save", "settle"}

(***************************************************************************)
(* A rotator's record names a version the vault has, and the version it    *)
(* stores is newer than that one: so it never disables the latest.         *)
(***************************************************************************)
VersionInv ==
  /\ Latest >= 1
  /\ metadata.version \in 1..Latest
  /\ \A r \in Rotators : pc[r] \in Busy => job[r] \in Requests /\ secret[r].version \in 1..Latest
  /\ \A r \in Rotators : pc[r] \in {"disable", "save"} =>
       secret[r].version < rotated[r].version /\ rotated[r].version <= Latest

SafeInv == TypeOK /\ VersionInv /\ LatestEnabled

(***************************************************************************)
(* With one rotator: its record is the saved one until it saves, and what  *)
(* it generated is what the service has and the vault is given.            *)
(***************************************************************************)
OneRotator == \A r, s \in Rotators : r = s

OrderInv ==
  \A r \in Rotators :
    /\ pc[r] \in {"regenerate", "store", "disable", "save"} => secret[r] = metadata
    /\ pc[r] = "store" => rotated[r].value = serviceKey[NextKey(metadata.key)]
    /\ pc[r] \in {"disable", "save"} =>
         /\ rotated[r].version = Latest
         /\ vault[Latest].value = serviceKey[NextKey(metadata.key)]

CurrentInv == Agreed => serviceKey[metadata.key] = vault[Latest].value

\* Only a fault leaves a new version behind that the record does not name.
CleanInv == faults = 0 => Agreed \/ \E r \in Rotators : pc[r] \in {"disable", "save"}

LiveInv == SafeInv /\ OrderInv /\ CurrentInv /\ CleanInv

\* Without faults, the value of the previous version is that of the key which is
\* rotated next: until it is, and again from when the next version is stored.
PreviousInv ==
  faults = 0 =>
    /\ (\A r \in Rotators : pc[r] \in {"idle", "regenerate", "settle"}) /\ Latest > 1 =>
         vault[Latest - 1].value = serviceKey[NextKey(metadata.key)]
    /\ (\E r \in Rotators : pc[r] \in {"disable", "save"}) =>
         Latest > 1 /\ vault[Latest - 1].value = serviceKey[metadata.key]

USE RotationAssumption

-----------------------------------------------------------------------------
(* The data a rotation updates.                                            *)

KeyRecord == [value : Nat, version : Nat]
VaultVersion == [value : Nat, enabled : BOOLEAN]

LEMMA KeyRecordUpdate ==
  ASSUME NEW k \in KeyRecord, NEW n \in Nat
  PROVE  [k EXCEPT !.value = n] \in KeyRecord /\ [k EXCEPT !.version = n] \in KeyRecord
BY DEF KeyRecord

LEMMA VersionDisabled ==
  ASSUME NEW e \in VaultVersion
  PROVE  [e EXCEPT !.enabled = FALSE] \in VaultVersion
BY DEF VaultVersion

LEMMA VaultUpdate ==
  ASSUME NEW v \in Seq(VaultVersion), NEW i \in 1..Len(v)
  PROVE  /\ [v EXCEPT ![i].enabled = FALSE] \in Seq(VaultVersion)
         /\ Len([v EXCEPT ![i].enabled = FALSE]) = Len(v)
<1> DEFINE e == [v[i] EXCEPT !.enabled = FALSE]
<1>1. v[i] \in VaultVersion
  OBVIOUS
<1>2. e \in VaultVersion
  BY <1>1, VersionDisabled
<1>3. [v EXCEPT ![i].enabled = FALSE] = [v EXCEPT ![i] = e]
  OBVIOUS
<1> HIDE DEF e
<1>4. [v EXCEPT ![i] = e] \in Seq(VaultVersion) /\ Len([v EXCEPT ![i] = e]) = Len(v)
  BY <1>2
<1>5. QED
  BY <1>3, <1>4

-----------------------------------------------------------------------------
(* Versions.                                                               *)

LEMMA InitSafe == Init => SafeInv
<1> SUFFICES ASSUME Init PROVE SafeInv
  OBVIOUS
<1> USE DEF Init, Latest
<1>1. TypeOK
  BY DEF TypeOK, Record, NoRecord, NoKey, KeyName
<1>2. VersionInv
  BY DEF VersionInv, Busy
<1>3. LatestEnabled
  BY DEF LatestEnabled
<1>4. QED
  BY <1>1, <1>2, <1>3 DEF SafeInv

LEMMA RequestSafe ==
  ASSUME NEW q \in Requests, SafeInv, Request(q)
  PROVE  SafeInv'
<1> USE DEF SafeInv, TypeOK, Record, NoRecord, NoKey, KeyName, services, queue, rotator, Rest, Goto, Fault, Latest, Request
<1>1. TypeOK'
  BY DEF NextKey, Busy, VersionInv
<1>2. VersionInv'
  BY DEF VersionInv, Busy
<1>3. LatestEnabled'
  BY DEF LatestEnabled, VersionInv
<1>4. QED
  BY <1>1, <1>2, <1>3

LEMMA RedeliverSafe ==
  ASSUME NEW q \in Requests, SafeInv, Redeliver(q)
  PROVE  SafeInv'
<1> USE DEF SafeInv, TypeOK, Record, NoRecord, NoKey, KeyName, services, queue, rotator, Rest, Goto, Fault, Latest, Redeliver
<1>1. TypeOK'
  BY DEF NextKey, Busy, VersionInv
<1>2. VersionInv'
  BY DEF VersionInv, Busy
<1>3. LatestEnabled'
  BY DEF LatestEnabled, VersionInv
<1>4. QED
  BY <1>1, <1>2, <1>3

LEMMA LoadSafe ==
  ASSUME NEW r \in Rotators, NEW q \in Requests, SafeInv, Load(r, q)
  PROVE  SafeInv'
<1> USE DEF SafeInv, TypeOK, Record, NoRecord, NoKey, KeyName, services, queue, rotator, Rest, Goto, Fault, Latest, Load
<1>1. TypeOK'
  BY SMTT(30) DEF NextKey, Busy, VersionInv
<1>2. VersionInv'
  BY DEF VersionInv, Busy
<1>3. LatestEnabled'
  BY DEF LatestEnabled, VersionInv
<1>4. QED
  BY <1>1, <1>2, <1>3

LEMMA RegenerateKeySafe ==
  ASSUME NEW r \in Rotators, SafeInv, RegenerateKey(r)
  PROVE  SafeInv'
<1> USE DEF SafeInv, TypeOK, Record, NoRecord, NoKey, KeyName, services, queue, rotator, Rest, Goto, Fault, Latest, RegenerateKey
<1>1. TypeOK'
  <2>1. secret[r].key \in KeyName /\ NextKey(secret[r].key) \in KeyName
    BY DEF NextKey
  <2>2. serviceKey' \in [KeyName -> Nat]
    BY <2>1
  <2>3. rotated' \in [Rotators -> [value : Nat, version : Nat]]
    <3>1. [rotated[r] EXCEPT !.value = lastValue + 1] \in KeyRecord
      <4>1. rotated[r] \in KeyRecord /\ lastValue + 1 \in Nat
        BY DEF KeyRecord
      <4>2. QED
        BY <4>1, KeyRecordUpdate
    <3>2. QED
      BY <3>1 DEF KeyRecord
  <2>4. QED
    BY <2>2, <2>3
<1>2. VersionInv'
  BY DEF VersionInv, Busy
<1>3. LatestEnabled'
  BY DEF LatestEnabled, VersionInv
<1>4. QED
  BY <1>1, <1>2, <1>3

LEMMA SetSecretSafe ==
  ASSUME NEW r \in Rotators, SafeInv, SetSecret(r)
  PROVE  SafeInv'
<1> USE DEF SafeInv, TypeOK, Record, NoRecord, NoKey, KeyName, services, queue, rotator, Rest, Goto, Fault, Latest, SetSecret
<1> DEFINE new == [value |-> rotated[r].value, enabled |-> TRUE]
<1>0. /\ new \in [value : Nat, enabled : BOOLEAN]
      /\ vault' \in Seq([value : Nat, enabled : BOOLEAN])
      /\ Len(vault') = Len(vault) + 1
      /\ Len(vault) \in Nat
  OBVIOUS
<1>1. TypeOK'
  <2>1. rotated' \in [Rotators -> [value : Nat, version : Nat]]
    BY <1>0, SMTT(40)
  <2>2. QED
    BY <1>0, <2>1
<1>2. VersionInv'
  <2> HIDE DEF new
  <2>1. rotated' = [rotated EXCEPT ![r].version = Len(vault) + 1]
    BY <1>0
  <2>2. \A t \in Rotators : t # r => rotated'[t] = rotated[t] /\ pc'[t] = pc[t]
    BY <2>1
  <2>3. rotated'[r].version = Len(vault) + 1 /\ pc'[r] = "disable"
    BY <2>1
  <2>4. \A t \in Rotators : pc'[t] \in {"disable", "save"} =>
          secret[t].version < rotated'[t].version /\ rotated'[t].version <= Len(vault) + 1
    <3> SUFFICES ASSUME NEW t \in Rotators, pc'[t] \in {"disable", "save"}
                 PROVE  secret[t].version < rotated'[t].version /\ rotated'[t].version <= Len(vault) + 1
      OBVIOUS
    <3>1. CASE t = r
      BY <3>1, <1>0, <2>3, SMTT(40) DEF VersionInv, Busy
    <3>2. CASE t # r
      BY <3>2, <1>0, <2>2, SMTT(30) DEF VersionInv
    <3>3. QED
      BY <3>1, <3>2
  <2>5. \A t \in Rotators : pc'[t] \in Busy => job[t] \in Requests /\ secret[t].version \in 1..(Len(vault) + 1)
    <3> SUFFICES ASSUME NEW t \in Rotators, pc'[t] \in Busy
                 PROVE  job[t] \in Requests /\ secret[t].version \in 1..(Len(vault) + 1)
      OBVIOUS
    <3>1. pc[t] \in Busy
      BY <2>2 DEF Busy
    <3>2. QED
      BY <3>1, <1>0, SMTT(30) DEF VersionInv
  <2>6. QED
    BY <1>0, <2>4, <2>5, SMTT(40) DEF VersionInv
<1>3. LatestEnabled'
  BY DEF LatestEnabled, VersionInv
<1>4. QED
  BY <1>1, <1>2, <1>3

LEMMA DisablePreviousSafe ==
  ASSUME NEW r \in Rotators, SafeInv, DisablePrevious(r)
  PROVE  SafeInv'
<1> USE DEF SafeInv, TypeOK, Record, NoRecord, NoKey, KeyName, services, queue, rotator, Rest, Goto, Fault, Latest, DisablePrevious
<1>0. /\ vault' \in Seq([value : Nat, enabled : BOOLEAN])
      /\ Len(vault') = Len(vault)
  <2>1. secret[r].version \in 1..Len(vault)
    BY DEF VersionInv, Busy
  <2>2. vault' = [vault EXCEPT ![secret[r].version].enabled = FALSE] \/ vault' = vault
    OBVIOUS
  <2>3. QED
    BY <2>1, <2>2, VaultUpdate DEF VaultVersion
<1>1. TypeOK'
  BY <1>0
<1>2. VersionInv'
  BY <1>0 DEF VersionInv, Busy
<1>3. LatestEnabled'
  BY DEF LatestEnabled, VersionInv
<1>4. QED
  BY <1>1, <1>2, <1>3

LEMMA SaveSecretSafe ==
  ASSUME NEW r \in Rotators, SafeInv, SaveSecret(r)
  PROVE  SafeInv'
<1> USE DEF SafeInv, TypeOK, Record, NoRecord, NoKey, KeyName, services, queue, rotator, Rest, Goto, Fault, Latest, SaveSecret
<1>1. TypeOK'
  BY DEF NextKey, Busy, VersionInv
<1>2. VersionInv'
  BY DEF VersionInv, Busy
<1>3. LatestEnabled'
  BY DEF LatestEnabled, VersionInv
<1>4. QED
  BY <1>1, <1>2, <1>3

LEMMA SettleSafe ==
  ASSUME NEW r \in Rotators, SafeInv, Settle(r)
  PROVE  SafeInv'
<1> USE DEF SafeInv, TypeOK, Record, NoRecord, NoKey, KeyName, services, queue, rotator, Rest, Goto, Fault, Latest, Settle
<1>1. TypeOK'
  BY DEF NextKey, Busy, VersionInv
<1>2. VersionInv'
  BY DEF VersionInv, Busy
<1>3. LatestEnabled'
  BY DEF LatestEnabled, VersionInv
<1>4. QED
  BY <1>1, <1>2, <1>3

LEMMA CallFailsSafe ==
  ASSUME NEW r \in Rotators, SafeInv, CallFails(r)
  PROVE  SafeInv'
<1> USE DEF SafeInv, TypeOK, Record, NoRecord, NoKey, KeyName, services, queue, rotator, Rest, Goto, Fault, Latest, CallFails
<1>1. TypeOK'
  BY SMTT(40) DEF NextKey, Busy, VersionInv
<1>2. VersionInv'
  BY DEF VersionInv, Busy
<1>3. LatestEnabled'
  BY DEF LatestEnabled, VersionInv
<1>4. QED
  BY <1>1, <1>2, <1>3

LEMMA CrashSafe ==
  ASSUME NEW r \in Rotators, SafeInv, Crash(r)
  PROVE  SafeInv'
<1> USE DEF SafeInv, TypeOK, Record, NoRecord, NoKey, KeyName, services, queue, rotator, Rest, Goto, Fault, Latest, Crash
<1>1. TypeOK'
  BY DEF NextKey, Busy, VersionInv
<1>2. VersionInv'
  BY DEF VersionInv, Busy
<1>3. LatestEnabled'
  BY DEF LatestEnabled, VersionInv
<1>4. QED
  BY <1>1, <1>2, <1>3

LEMMA SafeStep == SafeInv /\ [Next]_vars => SafeInv'
<1> SUFFICES ASSUME SafeInv, [Next]_vars PROVE SafeInv'
  OBVIOUS
<1>1. ASSUME NEW q \in Requests, Request(q) PROVE SafeInv'
  BY <1>1, RequestSafe
<1>2. ASSUME NEW q \in Requests, Redeliver(q) PROVE SafeInv'
  BY <1>2, RedeliverSafe
<1>3. ASSUME NEW r \in Rotators, NEW q \in Requests, Load(r, q) PROVE SafeInv'
  BY <1>3, LoadSafe
<1>4. ASSUME NEW r \in Rotators, RegenerateKey(r) PROVE SafeInv'
  BY <1>4, RegenerateKeySafe
<1>5. ASSUME NEW r \in Rotators, SetSecret(r) PROVE SafeInv'
  BY <1>5, SetSecretSafe
<1>6. ASSUME NEW r \in Rotators, DisablePrevious(r) PROVE SafeInv'
  BY <1>6, DisablePreviousSafe
<1>7. ASSUME NEW r \in Rotators, SaveSecret(r) PROVE SafeInv'
  BY <1>7, SaveSecretSafe
<1>8. ASSUME NEW r \in Rotators, Settle(r) PROVE SafeInv'
  BY <1>8, SettleSafe
<1>9. ASSUME NEW r \in Rotators, CallFails(r) PROVE SafeInv'
  BY <1>9, CallFailsSafe
<1>10. ASSUME NEW r \in Rotators, Crash(r) PROVE SafeInv'
  BY <1>10, CrashSafe
<1>11. CASE UNCHANGED vars
  BY <1>11 DEF SafeInv, TypeOK, VersionInv, LatestEnabled, Latest, vars, services, queue, rotator
<1>12. QED
  BY <1>1, <1>2, <1>3, <1>4, <1>5, <1>6, <1>7, <1>8, <1>9, <1>10, <1>11 DEF Next, Rotate

(***************************************************************************)
(* The variables of a rotation keep their types.                           *)
(***************************************************************************)
THEOREM TypeCorrect == Spec => []TypeOK
<1>1. SafeInv => TypeOK
  BY DEF SafeInv
<1>2. QED
  BY <1>1, InitSafe, SafeStep, PTL DEF Spec

(***************************************************************************)
(* However many rotators overlap, fail and start again, the version that   *)
(* applications read is never disabled: every rotator disables a version   *)
(* older than one it stored itself.                                        *)
(***************************************************************************)
THEOREM LatestNeverDisabled == Spec => []LatestEnabled
<1>1. SafeInv => LatestEnabled
  BY DEF SafeInv
<1>2. QED
  BY <1>1, InitSafe, SafeStep, PTL DEF Spec

-----------------------------------------------------------------------------
(* Values, with one rotator.                                               *)

LEMMA InitLive == Init => LiveInv
<1> SUFFICES ASSUME Init PROVE LiveInv
  OBVIOUS
<1> USE DEF Init, Latest
<1>1. SafeInv
  BY InitSafe
<1>2. OrderInv
  BY DEF OrderInv
<1>3. CurrentInv
  BY DEF CurrentInv
<1>4. CleanInv
  BY DEF CleanInv, Agreed
<1>5. QED
  BY <1>1, <1>2, <1>3, <1>4 DEF LiveInv

LEMMA RequestLive ==
  ASSUME OneRotator, NEW q \in Requests, LiveInv, Request(q)
  PROVE  LiveInv'
<1> USE DEF SafeInv, TypeOK, Record, NoRecord, NoKey, KeyName, services, queue, rotator, Rest, Goto, Fault, Latest, Request, LiveInv, Agreed
<1>1. SafeInv'
  BY RequestSafe
<1>2. OrderInv'
  BY DEF OrderInv, OneRotator, NextKey
<1>3. CurrentInv'
  BY DEF CurrentInv, OrderInv, NextKey, VersionInv
<1>4. CleanInv'
  BY DEF CleanInv, OneRotator, OrderInv
<1>5. QED
  BY <1>1, <1>2, <1>3, <1>4

LEMMA RedeliverLive ==
  ASSUME OneRotator, NEW q \in Requests, LiveInv, Redeliver(q)
  PROVE  LiveInv'
<1> USE DEF SafeInv, TypeOK, Record, NoRecord, NoKey, KeyName, services, queue, rotator, Rest, Goto, Fault, Latest, Redeliver, LiveInv, Agreed
<1>1. SafeInv'
  BY RedeliverSafe
<1>2. OrderInv'
  BY DEF OrderInv, OneRotator, NextKey
<1>3. CurrentInv'
  BY DEF CurrentInv, OrderInv, NextKey, VersionInv
<1>4. CleanInv'
  BY DEF CleanInv, OneRotator, OrderInv
<1>5. QED
  BY <1>1, <1>2, <1>3, <1>4

LEMMA LoadLive ==
  ASSUME OneRotator, NEW r \in Rotators, NEW q \in Requests, LiveInv, Load(r, q)
  PROVE  LiveInv'
<1> USE DEF SafeInv, TypeOK, Record, NoRecord, NoKey, KeyName, services, queue, rotator, Rest, Goto, Fault, Latest, Load, LiveInv, Agreed
<1>1. SafeInv'
  BY LoadSafe
<1>2. OrderInv'
  BY DEF OrderInv, OneRotator, NextKey
<1>3. CurrentInv'
  BY DEF CurrentInv, OrderInv, NextKey, VersionInv
<1>4. CleanInv'
  BY DEF CleanInv, OneRotator, OrderInv
<1>5. QED
  BY <1>1, <1>2, <1>3, <1>4

LEMMA RegenerateKeyLive ==
  ASSUME OneRotator, NEW r \in Rotators, LiveInv, RegenerateKey(r)
  PROVE  LiveInv'
<1> USE DEF SafeInv, TypeOK, Record, NoRecord, NoKey, KeyName, services, queue, rotator, Rest, Goto, Fault, Latest, RegenerateKey, LiveInv, Agreed
<1>1. SafeInv'
  BY RegenerateKeySafe
<1>2. OrderInv'
  BY DEF OrderInv, OneRotator, NextKey
<1>3. CurrentInv'
  BY DEF CurrentInv, OrderInv, NextKey, VersionInv
<1>4. CleanInv'
  BY DEF CleanInv, OneRotator, OrderInv
<1>5. QED
  BY <1>1, <1>2, <1>3, <1>4

LEMMA SetSecretLive ==
  ASSUME OneRotator, NEW r \in Rotators, LiveInv, SetSecret(r)
  PROVE  LiveInv'
<1> USE DEF SafeInv, TypeOK, Record, NoRecord, NoKey, KeyName, services, queue, rotator, Rest, Goto, Fault, Latest, SetSecret, LiveInv, Agreed
<1>1. SafeInv'
  BY SetSecretSafe
<1>2. OrderInv'
  BY DEF OrderInv, OneRotator, NextKey
<1>3. CurrentInv'
  BY DEF CurrentInv, OrderInv, NextKey, VersionInv
<1>4. CleanInv'
  BY DEF CleanInv, OneRotator, OrderInv
<1>5. QED
  BY <1>1, <1>2, <1>3, <1>4

LEMMA DisablePreviousLive ==
  ASSUME OneRotator, NEW r \in Rotators, LiveInv, DisablePrevious(r)
  PROVE  LiveInv'
<1> USE DEF SafeInv, TypeOK, Record, NoRecord, NoKey, KeyName, services, queue, rotator, Rest, Goto, Fault, Latest, DisablePrevious, LiveInv, Agreed
<1>1. SafeInv'
  BY DisablePreviousSafe
<1>2. OrderInv'
  BY DEF OrderInv, OneRotator, NextKey
<1>3. CurrentInv'
  BY DEF CurrentInv, OrderInv, NextKey, VersionInv
<1>4. CleanInv'
  BY DEF CleanInv, OneRotator, OrderInv
<1>5. QED
  BY <1>1, <1>2, <1>3, <1>4

LEMMA SaveSecretLive ==
  ASSUME OneRotator, NEW r \in Rotators, LiveInv, SaveSecret(r)
  PROVE  LiveInv'
<1> USE DEF SafeInv, TypeOK, Record, NoRecord, NoKey, KeyName, services, queue, rotator, Rest, Goto, Fault, Latest, SaveSecret, LiveInv, Agreed
<1>1. SafeInv'
  BY SaveSecretSafe
<1>2. OrderInv'
  BY DEF OrderInv, OneRotator, NextKey
<1>3. CurrentInv'
  BY DEF CurrentInv, OrderInv, NextKey, VersionInv
<1>4. CleanInv'
  BY DEF CleanInv, OneRotator, OrderInv
<1>5. QED
  BY <1>1, <1>2, <1>3, <1>4

LEMMA SettleLive ==
  ASSUME OneRotator, NEW r \in Rotators, LiveInv, Settle(r)
  PROVE  LiveInv'
<1> USE DEF SafeInv, TypeOK, Record, NoRecord, NoKey, KeyName, services, queue, rotator, Rest, Goto, Fault, Latest, Settle, LiveInv, Agreed
<1>1. SafeInv'
  BY SettleSafe
<1>2. OrderInv'
  BY DEF OrderInv, OneRotator, NextKey
<1>3. CurrentInv'
  BY DEF CurrentInv, OrderInv, NextKey, VersionInv
<1>4. CleanInv'
  BY DEF CleanInv, OneRotator, OrderInv
<1>5. QED
  BY <1>1, <1>2, <1>3, <1>4

LEMMA CallFailsLive ==
  ASSUME OneRotator, NEW r \in Rotators, LiveInv, CallFails(r)
  PROVE  LiveInv'
<1> USE DEF SafeInv, TypeOK, Record, NoRecord, NoKey, KeyName, services, queue, rotator, Rest, Goto, Fault, Latest, CallFails, LiveInv, Agreed
<1>1. SafeInv'
  BY CallFailsSafe
<1>2. OrderInv'
  BY DEF OrderInv, OneRotator, NextKey
<1>3. CurrentInv'
  BY DEF CurrentInv, OrderInv, NextKey, VersionInv
<1>4. CleanInv'
  BY DEF CleanInv, OneRotator, OrderInv
<1>5. QED
  BY <1>1, <1>2, <1>3, <1>4

LEMMA CrashLive ==
  ASSUME OneRotator, NEW r \in Rotators, LiveInv, Crash(r)
  PROVE  LiveInv'
<1> USE DEF SafeInv, TypeOK, Record, NoRecord, NoKey, KeyName, services, queue, rotator, Rest, Goto, Fault, Latest, Crash, LiveInv, Agreed
<1>1. SafeInv'
  BY CrashSafe
<1>2. OrderInv'
  BY DEF OrderInv, OneRotator, NextKey
<1>3. CurrentInv'
  BY DEF CurrentInv, OrderInv, NextKey, VersionInv
<1>4. CleanInv'
  BY DEF CleanInv, OneRotator, OrderInv
<1>5. QED
  BY <1>1, <1>2, <1>3, <1>4

LEMMA LiveStep == OneRotator /\ LiveInv /\ [Next]_vars => LiveInv'
<1> SUFFICES ASSUME OneRotator, LiveInv, [Next]_vars PROVE LiveInv'
  OBVIOUS
<1>1. ASSUME NEW q \in Requests, Request(q) PROVE LiveInv'
  BY <1>1, RequestLive
<1>2. ASSUME NEW q \in Requests, Redeliver(q) PROVE LiveInv'
  BY <1>2, RedeliverLive
<1>3. ASSUME NEW r \in Rotators, NEW q \in Requests, Load(r, q) PROVE LiveInv'
  BY <1>3, LoadLive
<1>4. ASSUME NEW r \in Rotators, RegenerateKey(r) PROVE LiveInv'
  BY <1>4, RegenerateKeyLive
<1>5. ASSUME NEW r \in Rotators, SetSecret(r) PROVE LiveInv'
  BY <1>5, SetSecretLive
<1>6. ASSUME NEW r \in Rotators, DisablePrevious(r) PROVE LiveInv'
  BY <1>6, DisablePreviousLive
<1>7. ASSUME NEW r \in Rotators, SaveSecret(r) PROVE LiveInv'
  BY <1>7, SaveSecretLive
<1>8. ASSUME NEW r \in Rotators, Settle(r) PROVE LiveInv'
  BY <1>8, SettleLive
<1>9. ASSUME NEW r \in Rotators, CallFails(r) PROVE LiveInv'
  BY <1>9, CallFailsLive
<1>10. ASSUME NEW r \in Rotators, Crash(r) PROVE LiveInv'
  BY <1>10, CrashLive
<1>11. CASE UNCHANGED vars
  <2>1. SafeInv'
    BY <1>11, SafeStep DEF LiveInv
  <2>2. (OrderInv /\ CurrentInv /\ CleanInv)'
    BY <1>11 DEF LiveInv, OrderInv, CurrentInv, CleanInv, Agreed, Latest, vars, services, queue, rotator
  <2>3. QED
    BY <2>1, <2>2 DEF LiveInv
<1>12. QED
  BY <1>1, <1>2, <1>3, <1>4, <1>5, <1>6, <1>7, <1>8, <1>9, <1>10, <1>11 DEF Next, Rotate

(***************************************************************************)
(* With one rotator, whenever the record names the version applications    *)
(* read, the service accepts the value: a rotation only ever changes the   *)
(* key the record does not name.                                           *)
(***************************************************************************)
THEOREM RecordedValueIsLive == OneRotator /\ Spec => []AgreedIsLive
<1> SUFFICES ASSUME OneRotator PROVE Spec => []AgreedIsLive
  OBVIOUS
<1>1. LiveInv => AgreedIsLive
  BY DEF LiveInv, CurrentInv, AgreedIsLive, Live, SafeInv, TypeOK, Record
<1>2. LiveInv /\ [Next]_vars => LiveInv'
  BY LiveStep
<1>3. QED
  BY <1>1, <1>2, InitLive, PTL DEF Spec

(***************************************************************************)
(* With one rotator and no faults, rotations cause no outage.              *)
(***************************************************************************)
THEOREM NoOutage == OneRotator /\ Spec => []NoOutageWithoutFault
<1> SUFFICES ASSUME OneRotator PROVE Spec => []NoOutageWithoutFault
  OBVIOUS
<1>1. LiveInv => NoOutageWithoutFault
  <2> SUFFICES ASSUME LiveInv, faults = 0 PROVE Live
    BY DEF NoOutageWithoutFault
  <2>1. CASE Agreed
    BY <2>1 DEF LiveInv, CurrentInv, Live, SafeInv, TypeOK, Record
  <2>2. ASSUME NEW r \in Rotators, pc[r] \in {"disable", "save"} PROVE Live
    BY <2>2 DEF LiveInv, OrderInv, Live, NextKey, KeyName
  <2>3. QED
    BY <2>1, <2>2 DEF LiveInv, CleanInv
<1>2. LiveInv /\ [Next]_vars => LiveInv'
  BY LiveStep
<1>3. QED
  BY <1>1, <1>2, InitLive, PTL DEF Spec

-----------------------------------------------------------------------------
(* The previous version, with one rotator.                                 *)

LEMMA QuietPrevious ==
  ASSUME PreviousInv, UNCHANGED <<services, rotator>>, faults' = 0 => faults = 0
  PROVE  PreviousInv'
BY DEF PreviousInv, services, rotator, Latest

LEMMA LoadPrevious ==
  ASSUME OneRotator, NEW r \in Rotators, NEW q \in Requests, LiveInv, PreviousInv, Load(r, q)
  PROVE  PreviousInv'
BY DEF PreviousInv, Load, Goto, services, Latest, OneRotator, LiveInv, SafeInv, TypeOK

LEMMA RegenerateKeyPrevious ==
  ASSUME OneRotator, NEW r \in Rotators, LiveInv, PreviousInv, RegenerateKey(r)
  PROVE  PreviousInv'
BY DEF PreviousInv, RegenerateKey, Goto, Latest, OneRotator, LiveInv, SafeInv, TypeOK

\* The version that was the latest becomes the previous one.
LEMMA SetSecretPrevious ==
  ASSUME OneRotator, NEW r \in Rotators, LiveInv, PreviousInv, SetSecret(r)
  PROVE  PreviousInv'
<1>1. /\ Len(vault') = Len(vault) + 1 /\ Len(vault) \in Nat /\ Len(vault) >= 1
      /\ vault'[Len(vault)] = vault[Len(vault)]
  BY DEF SetSecret, LiveInv, SafeInv, TypeOK, VersionInv, Latest
<1>2. faults = 0 => vault[Len(vault)].value = serviceKey[metadata.key]
  BY DEF SetSecret, LiveInv, CleanInv, CurrentInv, OneRotator, Latest
<1>3. pc'[r] = "disable"
  BY DEF SetSecret, Goto, LiveInv, SafeInv, TypeOK
<1>4. UNCHANGED <<serviceKey, metadata, faults>>
  BY DEF SetSecret
<1>5. QED
  BY <1>1, <1>2, <1>3, <1>4 DEF PreviousInv, Latest, OneRotator

\* Disabling a version keeps its value.
LEMMA DisablePreviousPrevious ==
  ASSUME OneRotator, NEW r \in Rotators, LiveInv, PreviousInv, DisablePrevious(r)
  PROVE  PreviousInv'
<1>1. secret[r].version \in 1..Len(vault) /\ vault \in Seq(VaultVersion)
  BY DEF DisablePrevious, LiveInv, SafeInv, VersionInv, Busy, TypeOK, VaultVersion, Latest
<1>2. Len(vault') = Len(vault) /\ \A i \in 1..Len(vault) : vault'[i].value = vault[i].value
  BY <1>1 DEF DisablePrevious, VaultVersion
<1>3. pc[r] = "disable" /\ pc'[r] = "save" /\ UNCHANGED <<serviceKey, metadata, faults>>
  BY DEF DisablePrevious, Goto, LiveInv, SafeInv, TypeOK
<1>4. Len(vault) \in Nat
  BY <1>1
<1>5. QED
  BY <1>2, <1>3, <1>4, SMTT(40) DEF PreviousInv, Latest, OneRotator

\* The record names the other key from now on.
LEMMA SaveSecretPrevious ==
  ASSUME OneRotator, NEW r \in Rotators, LiveInv, PreviousInv, SaveSecret(r)
  PROVE  PreviousInv'
<1>1. pc[r] = "save" /\ pc'[r] = "settle" /\ UNCHANGED <<serviceKey, vault, faults>>
  BY DEF SaveSecret, Goto, LiveInv, SafeInv, TypeOK
<1>2. metadata.key \in KeyName /\ metadata'.key = NextKey(metadata.key)
  BY <1>1 DEF SaveSecret, LiveInv, OrderInv, SafeInv, TypeOK, Record
<1>3. NextKey(metadata'.key) = metadata.key
  BY <1>2 DEF NextKey, KeyName
<1>4. QED
  BY <1>1, <1>3 DEF PreviousInv, Latest, OneRotator

LEMMA SettlePrevious ==
  ASSUME OneRotator, NEW r \in Rotators, LiveInv, PreviousInv, Settle(r)
  PROVE  PreviousInv'
<1>1. pc[r] = "settle" /\ pc'[r] = "idle" /\ UNCHANGED <<serviceKey, metadata, vault, faults>>
  BY DEF Settle, Rest, services, LiveInv, SafeInv, TypeOK
<1>2. QED
  BY <1>1 DEF PreviousInv, Latest, OneRotator

LEMMA PreviousStep == OneRotator /\ LiveInv /\ PreviousInv /\ [Next]_vars => PreviousInv'
<1> SUFFICES ASSUME OneRotator, LiveInv, PreviousInv, [Next]_vars PROVE PreviousInv'
  OBVIOUS
<1>0. faults \in Nat
  BY DEF LiveInv, SafeInv, TypeOK
<1>1. ASSUME NEW q \in Requests, Request(q) \/ Redeliver(q) PROVE PreviousInv'
  BY <1>0, <1>1, QuietPrevious DEF Request, Redeliver, Fault
<1>2. ASSUME NEW r \in Rotators, NEW q \in Requests, Load(r, q) PROVE PreviousInv'
  BY <1>2, LoadPrevious
<1>3. ASSUME NEW r \in Rotators, Rotate(r) PROVE PreviousInv'
  BY <1>3, RegenerateKeyPrevious, SetSecretPrevious, DisablePreviousPrevious, SaveSecretPrevious,
     SettlePrevious DEF Rotate
<1>4. ASSUME NEW r \in Rotators, CallFails(r) \/ Crash(r) PROVE PreviousInv'
  <2>1. faults' # 0
    BY <1>0, <1>4 DEF CallFails, Crash, Fault
  <2>2. QED
    BY <2>1 DEF PreviousInv
<1>5. CASE UNCHANGED vars
  BY <1>5, QuietPrevious DEF vars
<1>6. QED
  BY <1>1, <1>2, <1>3, <1>4, <1>5 DEF Next

(***************************************************************************)
(* With one rotator and no faults, dependents that still use the previous  *)
(* value keep working until the next rotation begins: the service accepts  *)
(* the values of the latest two versions.                                  *)
(***************************************************************************)
THEOREM PreviousValueAccepted == OneRotator /\ Spec => []GracePeriod
<1> SUFFICES ASSUME OneRotator PROVE Spec => []GracePeriod
  OBVIOUS
<1>1. Init => PreviousInv
  BY DEF Init, PreviousInv, Latest
<1>2. LiveInv /\ PreviousInv => GracePeriod
  <2> SUFFICES ASSUME LiveInv, PreviousInv, faults = 0,
                      \A r \in Rotators : pc[r] \in {"idle", "regenerate", "settle"},
                      NEW v \in {Latest - 1, Latest} \ {0}
               PROVE  \E k \in KeyName : serviceKey[k] = vault[v].value
    BY DEF GracePeriod
  <2>1. metadata.key \in KeyName /\ NextKey(metadata.key) \in KeyName
    BY DEF LiveInv, SafeInv, TypeOK, Record, NextKey, KeyName
  <2>2. CASE v = Latest
    BY <2>1, <2>2 DEF LiveInv, CleanInv, CurrentInv
  <2>3. CASE v = Latest - 1
    <3>1. Latest > 1
      BY <2>3 DEF LiveInv, SafeInv, VersionInv, TypeOK, Latest
    <3>2. QED
      BY <2>1, <2>3, <3>1 DEF PreviousInv
  <2>4. QED
    BY <2>2, <2>3
<1>3. LiveInv /\ [Next]_vars => LiveInv'
  BY LiveStep
<1>4. LiveInv /\ PreviousInv /\ [Next]_vars => PreviousInv'
  BY PreviousStep
<1>5. QED
  BY <1>1, <1>2, <1>3, <1>4, InitLive, PTL DEF Spec

=============================================================================
