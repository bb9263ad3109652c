------------------------------- MODULE SiteValues -------------------------------
(***************************************************************************)
(* The pure functions of the management site: the codecs and lookups of    *)
(* common.js, the values, names and conversions of entities.js.  A         *)
(* character is its code, a text a sequence of them where characters       *)
(* matter; else texts, contracts and view models are values and records.   *)
(***************************************************************************)
EXTENDS Integers, FiniteSets, SequencesExt

CONSTANT Null  \* JavaScript's null

-----------------------------------------------------------------------------
(* Base 64 (common.js).                                                    *)

CR == 13
LF == 10

\* string.replace(/\r\n/g, "\n")
WithUnixLines(text) ==
  LET Dropped(i) == text[i] = CR /\ i < Len(text) /\ text[i + 1] = LF
      kept == SelectSeq([i \in DOMAIN text |-> i], LAMBDA i : ~Dropped(i))
  IN [i \in DOMAIN kept |-> text[kept[i]]]

\* The bytes of a character of 16 bits.
BytesOf(c) ==
  CASE c < 128 -> <<c>>
    [] c \in 128..2047 -> <<192 + c \div 64, 128 + (c % 64)>>
    [] OTHER -> <<224 + c \div 4096, 128 + ((c \div 64) % 64), 128 + (c % 64)>>

Utf8Encode(text) == LET t == WithUnixLines(text) IN FlattenSeq([i \in DOMAIN t |-> BytesOf(t[i])])

\* How many bytes the decoder takes for a character, by the first of them.
Width(b) == IF b < 128 THEN 1 ELSE IF b \in 192..223 THEN 2 ELSE 3

Utf8Decode(bytes) ==
  LET Char(i) == CASE Width(bytes[i]) = 1 -> bytes[i]
                   [] Width(bytes[i]) = 2 -> (bytes[i] % 32) * 64 + (bytes[i + 1] % 64)
                   [] OTHER -> (bytes[i] % 16) * 4096 + (bytes[i + 1] % 64) * 64 + (bytes[i + 2] % 64)
      from[i \in 1..(Len(bytes) + 1)] ==
        IF i > Len(bytes) THEN <<>> ELSE <<Char(i)>> \o from[i + Width(bytes[i])]
  IN from[1]

\* The place of "=" in _keyStr; the others are the digits 0..63.
Pad == 64

\* The four digits of up to three bytes; a byte that is not there counts as 0
\* in the digit it shares, and a digit it would have for itself is "=".
Base64Encode(text) ==
  LET bytes == Utf8Encode(text)
      Byte(i) == IF i \in DOMAIN bytes THEN bytes[i] ELSE 0
      Quad(g) == LET a == Byte(3 * g + 1)
                     b == Byte(3 * g + 2)
                     c == Byte(3 * g + 3)
                 IN <<a \div 4, (a % 4) * 16 + b \div 16,
                      IF 3 * g + 2 > Len(bytes) THEN Pad ELSE (b % 16) * 4 + c \div 64,
                      IF 3 * g + 3 > Len(bytes) THEN Pad ELSE c % 64>>
  IN FlattenSeq([g \in 1..((Len(bytes) + 2) \div 3) |-> Quad(g - 1)])

\* Digits come in fours: what the encoder makes.
Base64Decode(digits) ==
  LET Triple(g) == LET a == digits[4 * g + 1]
                       b == digits[4 * g + 2]
                       c == digits[4 * g + 3]
                       d == digits[4 * g + 4]
                   IN <<a * 4 + b \div 16>>
                      \o (IF c = Pad THEN <<>> ELSE <<(b % 16) * 16 + c \div 4>>)
                      \o (IF d = Pad THEN <<>> ELSE <<(c % 4) * 64 + d>>)
  IN Utf8Decode(FlattenSeq([g \in 1..(Len(digits) \div 4) |-> Triple(g - 1)]))

-----------------------------------------------------------------------------
(* Lookups and formats (common.js).                                        *)

\* The value of the first pair with the key; keys are compared in lower case.
QueryString(pairs, key) ==
  LET at == {i \in DOMAIN pairs : key # "" /\ pairs[i].key = key}
  IN IF at = {} THEN Null ELSE pairs[CHOOSE i \in at : \A j \in at : i <= j].value

\* A phone number of ten digits is shown in three groups.
PhoneGroups(digits) ==
  IF Len(digits) = 10
  THEN <<SubSeq(digits, 1, 3), SubSeq(digits, 4, 6), SubSeq(digits, 7, 10)>> ELSE <<digits>>

\* Number.prototype.pad: how many characters a number takes, two if it can.
PaddedLength(n) == IF n < 100 THEN 2 ELSE IF n < 1000 THEN 3 ELSE 4

-----------------------------------------------------------------------------
(* Names (entities.js, with the numbers of enums.js).                      *)

NameIn(names, value) == IF value \in DOMAIN names THEN names[value] ELSE "Unknown"

\* secretType; enums.secretType
SecretTypeName(type) == NameIn([t \in 0..1 |-> <<"attached", "dependency">>[t + 1]], type)

\* serviceType; enums.serviceType
ServiceTypeName(type) ==
  NameIn([t \in 0..8 |-> <<"unspecified", "storageAccountKey", "cosmosDbAccountKey",
            "cosmosDbAccountReadOnlyKey", "sqlServerPassword", "eventGrid", "apimManagement",
            "appRegistrationPassword", "redisCache">>[t + 1]], type)

EventName(event) ==
  NameIn([e \in 0..3 |-> <<"Unknown", "Created", "Expiring", "Expired">>[e + 1]], event)

\* A cleanup is what becomes of an expired secret, so it is called a rotation.
ActionName(action) ==
  NameIn([a \in 1..5 |-> <<"Skipped", "Rotate", "Schedule Dependencies", "Update Dependency",
            "Rotate">>[a]], action)

PurposeName(purpose) == NameIn([p \in 1..2 |-> <<"KV Event", "Exec Process">>[p]], purpose)

Has(mask, bit) == (mask \div bit) % 2 = 1

\* enums.tracking.status
StatusBits == <<1, 2, 4, 8, 16, 32, 64, 128>>

\* The bits that a description tells, in its order: all but deleteMessage.
StatusDescription(mask) == SelectSeq(<<1, 2, 4, 8, 16, 32, 128>>, LAMBDA bit : Has(mask, bit))

\* What the chart counts of the transactions with these masks.  A transaction
\* with several bits is counted several times.
Pivot(masks) ==
  LET Count(bit) == Cardinality({i \in DOMAIN masks : Has(masks[i], bit)})
  IN [pending |-> Count(1), done |-> Count(2), retrying |-> Count(16), err |-> Count(32),
      total |-> Len(masks)]

-----------------------------------------------------------------------------
(* Conversions of what the server sends (entities.js).                     *)

\* The type of a number among those the page knows.
FindServiceType(number) == IF number \in 0..8 THEN ServiceTypeName(number) ELSE Null

FindSecretType(number) == IF number \in 0..1 THEN SecretTypeName(number) ELSE Null

PolicyView(contract) ==
  IF contract = Null THEN Null
  ELSE [id |-> contract.policyId, name |-> contract.name, seconds |-> contract.rotationIntervalInSec]

ServiceView(contract) ==
  IF contract = Null THEN Null
  ELSE [id |-> contract.configurationId, name |-> contract.name,
        type |-> FindServiceType(contract.serviceType), policy |-> PolicyView(contract.policy)]

SecretView(contract) ==
  IF contract = Null THEN Null
  ELSE [id |-> contract.key, name |-> contract.name, type |-> FindSecretType(contract.secretType),
        lastRotated |-> contract.lastRotated, service |-> ServiceView(contract.configuration)]

ServiceNameText(secret) == IF secret.service = Null THEN "N/A" ELSE secret.service.name

\* Whatever the date of the last rotation is.
RotationOverdue(secret) ==
  /\ secret.type # "dependency"
  /\ secret.lastRotated # Null
  /\ secret.service # Null

\* attempt(startingStatus, endingStatus, startingTime, endingTime)
Attempt(startingStatus, endingStatus, startingTime, endingTime) ==
  [starting |-> [status |-> startingStatus, time |-> startingTime],
   ending |-> [status |-> endingStatus, time |-> endingTime]]

\* The times are handed over first.
AttemptView(contract) ==
  Attempt(contract.startTimeUtc, contract.endTimeUtc,
          contract.startingStatus, IF contract.endingStatus = Null THEN 0 ELSE contract.endingStatus)

\* A transaction with its parents, the nearest first, and its attempts.
TransactionView(contracts) ==
  LET View(contract) ==
        LET given == SelectSeq(contract.attempts, LAMBDA a : a # Null)
        IN [id |-> contract.transactionId, action |-> contract.action, purpose |-> contract.purpose,
            key |-> contract.secretKey, uri |-> contract.secretUri,
            attempts |-> [i \in DOMAIN given |-> AttemptView(given[i])]]
  IN [i \in DOMAIN contracts |-> View(contracts[i])]

CompositeAction(tx) == IF tx.purpose = 1 THEN "Event Received" ELSE ActionName(tx.action)

\* The name that the table has for the secret of a transaction.
SecretName(tx, instance) ==
  IF instance # Null THEN instance.name ELSE IF tx.uri # Null THEN tx.uri ELSE tx.key

-----------------------------------------------------------------------------
(* The interval of a policy (entities.js).  A text that is not a number    *)
(* counts as 0 and stays in its field.                                     *)

Number(value) == IF value = Null THEN 0 ELSE value

TotalSeconds(t) ==
  ((Number(t.days) * 24 + Number(t.hours)) * 60 + Number(t.minutes)) * 60 + Number(t.seconds)

\* updateValues
TimeSpan(seconds) ==
  IF seconds < 0 THEN [days |-> 0, hours |-> 0, minutes |-> 0, seconds |-> seconds]
  ELSE [days |-> seconds \div 86400, hours |-> (seconds \div 3600) % 24,
        minutes |-> (seconds \div 60) % 60, seconds |-> seconds % 60]

\* The fields after one is typed: all are made anew if it is too large.
Typed(t, field, value) ==
  LET typed == [t EXCEPT ![field] = value]
      limit == [hours |-> 23, minutes |-> 59, seconds |-> 59]
  IN IF field # "days" /\ Number(value) > limit[field] THEN TimeSpan(TotalSeconds(typed)) ELSE typed

-----------------------------------------------------------------------------
(* The pager (entities.js).                                                *)

\* Whether page i of n (from 0) has an indicator when page s is selected.
PageVisible(i, n, s) ==
  \/ n <= 5
  \/ i \notin {0, n - 1} /\ (s < 0 \/ i - s \in -2..2)

=============================================================================
