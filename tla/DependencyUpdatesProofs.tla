----------------------- MODULE DependencyUpdatesProofs ----------------------
(***************************************************************************)
(* Theorems about DependencyUpdates with one worker, for every set of      *)
(* secrets and every assignment of tokens, also a circular one.            *)
(***************************************************************************)
EXTENDS DependencyUpdates, TLAPS

OneWorker == \A v, w \in Workers : v = w

\* A worker with a message knows the secret it is about.
JobInv == \A w \in Workers : pc[w] # "idle" => job[w] \in Secrets

\* A message that timed out while it is worked on waits on the queue.
TimedOutInv ==
  \A w \in Workers :
    /\ pc[w] = "schedule" /\ ~holds[w] => created[job[w]] > 0
    /\ pc[w] \in {"evaluate", "settle"} /\ ~holds[w] => update[job[w]] > 0

\* Nothing is built from a version that does not exist, and what a worker has
\* read is no older than what it will replace.
VersionInv ==
  /\ \A d, s \in Secrets : content[d][s] <= version[s]
  /\ \A w \in Workers, s \in Secrets : read[w][s] <= version[s]
  /\ \A w \in Workers, d, s \in Secrets : pc[w] = "evaluate" /\ job[w] = d =>
       read[w][s] >= content[d][s] \/ read[w][s] = Blank

\* A token that became older since it was read has an event waiting.
ReadInv ==
  \A w \in Workers, d \in Secrets : \A s \in Tokens[d] :
    pc[w] = "evaluate" /\ job[w] = d =>
      read[w][s] \in {Blank, version[s]} \/ created[s] > 0

IInv == TypeOK /\ JobInv /\ TimedOutInv /\ VersionInv /\ ReadInv /\ NoLostUpdate

USE SecretsAssumption

-----------------------------------------------------------------------------
\* A counter that goes up.
LEMMA Increment ==
  ASSUME NEW f \in [Secrets -> Nat], NEW j \in Secrets
  PROVE  /\ [f EXCEPT ![j] = @ + 1] \in [Secrets -> Nat]
         /\ \A s \in Secrets : [f EXCEPT ![j] = @ + 1][s] >= f[s]
OBVIOUS

\* A message that returns only adds to what waits.
LEMMA ReturnAdds ==
  ASSUME NEW w \in Workers, created \in [Secrets -> Nat], update \in [Secrets -> Nat],
         job[w] \in Secrets, Return(w) \/ UNCHANGED queueVars
  PROVE  /\ created' \in [Secrets -> Nat] /\ update' \in [Secrets -> Nat]
         /\ \A s \in Secrets : created'[s] >= created[s] /\ update'[s] >= update[s]
<1>1. CASE UNCHANGED queueVars
  BY <1>1 DEF queueVars
<1>2. CASE Return(w) /\ pc[w] = "schedule"
  <2>1. created' = [created EXCEPT ![job[w]] = @ + 1] /\ update' = update
    BY <1>2 DEF Return
  <2>2. QED
    BY <2>1, Increment
<1>3. CASE Return(w) /\ pc[w] # "schedule"
  <2>1. update' = [update EXCEPT ![job[w]] = @ + 1] /\ created' = created
    BY <1>3 DEF Return
  <2>2. QED
    BY <2>1, Increment
<1>4. QED
  BY <1>1, <1>2, <1>3

LEMMA InitInv == Init => IInv
<1> SUFFICES ASSUME Init PROVE IInv
  OBVIOUS
<1> USE DEF Init, Blank
<1>1. TypeOK
  BY DEF TypeOK, NoTokens
<1>2. JobInv /\ TimedOutInv /\ ReadInv
  BY DEF JobInv, TimedOutInv, ReadInv
<1>3. VersionInv
  BY DEF VersionInv, NoTokens
<1>4. NoLostUpdate
  BY DEF NoLostUpdate
<1>5. QED
  BY <1>1, <1>2, <1>3, <1>4 DEF IInv

LEMMA RotateStep ==
  ASSUME OneWorker, NEW s \in Secrets, IInv, Rotate(s)
  PROVE  IInv'
<1> USE DEF IInv, TypeOK, vaultVars, queueVars, workerVars, Begin, Rest, Return, Fault, NoTokens, Blank, Rotate
<1>1. TypeOK'
  BY DEF JobInv, Dependents
<1>2. JobInv'
  BY DEF JobInv
<1>3. TimedOutInv'
  BY DEF TimedOutInv, JobInv, OneWorker
<1>4. VersionInv'
  BY DEF VersionInv, JobInv, OneWorker
<1>5. ReadInv'
  BY DEF ReadInv, JobInv, OneWorker
<1>6. NoLostUpdate'
  BY DEF NoLostUpdate, Coming, JobInv, TimedOutInv, ReadInv, OneWorker, Dependents
<1>7. QED
  BY <1>1, <1>2, <1>3, <1>4, <1>5, <1>6

LEMMA TakeCreatedStep ==
  ASSUME OneWorker, NEW w \in Workers, NEW s \in Secrets, IInv, TakeCreated(w, s)
  PROVE  IInv'
<1> USE DEF IInv, TypeOK, vaultVars, queueVars, workerVars, Begin, Rest, Return, Fault, NoTokens, Blank, TakeCreated
<1>1. TypeOK'
  BY DEF JobInv, Dependents
<1>2. JobInv'
  BY DEF JobInv
<1>3. TimedOutInv'
  BY DEF TimedOutInv, JobInv, OneWorker
<1>4. VersionInv'
  BY DEF VersionInv, JobInv, OneWorker
<1>5. ReadInv'
  BY DEF ReadInv, JobInv, OneWorker
<1>6. NoLostUpdate'
  BY DEF NoLostUpdate, Coming, JobInv, TimedOutInv, ReadInv, OneWorker, Dependents
<1>7. QED
  BY <1>1, <1>2, <1>3, <1>4, <1>5, <1>6

LEMMA SendUpdateStep ==
  ASSUME OneWorker, NEW w \in Workers, NEW d \in Secrets, IInv, SendUpdate(w, d)
  PROVE  IInv'
<1> USE DEF IInv, TypeOK, vaultVars, queueVars, workerVars, Begin, Rest, Return, Fault, NoTokens, Blank, SendUpdate
<1>1. TypeOK'
  BY DEF JobInv, Dependents
<1>2. JobInv'
  BY DEF JobInv
<1>3. TimedOutInv'
  BY DEF TimedOutInv, JobInv, OneWorker
<1>4. VersionInv'
  BY DEF VersionInv, JobInv, OneWorker
<1>5. ReadInv'
  BY DEF ReadInv, JobInv, OneWorker
<1>6. NoLostUpdate'
  BY DEF NoLostUpdate, Coming, JobInv, TimedOutInv, ReadInv, OneWorker, Dependents
<1>7. QED
  BY <1>1, <1>2, <1>3, <1>4, <1>5, <1>6

LEMMA TakeUpdateStep ==
  ASSUME OneWorker, NEW w \in Workers, NEW d \in Secrets, IInv, TakeUpdate(w, d)
  PROVE  IInv'
<1> USE DEF IInv, TypeOK, vaultVars, queueVars, workerVars, Begin, Rest, Return, Fault, NoTokens, Blank, TakeUpdate
<1>1. TypeOK'
  BY DEF JobInv, Dependents
<1>2. JobInv'
  BY DEF JobInv
<1>3. TimedOutInv'
  BY DEF TimedOutInv, JobInv, OneWorker
<1>4. VersionInv'
  BY DEF VersionInv, JobInv, OneWorker
<1>5. ReadInv'
  BY DEF ReadInv, JobInv, OneWorker
<1>6. NoLostUpdate'
  BY DEF NoLostUpdate, Coming, JobInv, TimedOutInv, ReadInv, OneWorker, Dependents
<1>7. QED
  BY <1>1, <1>2, <1>3, <1>4, <1>5, <1>6

LEMMA LookupTokenStep ==
  ASSUME OneWorker, NEW w \in Workers, NEW s \in Secrets, IInv, LookupToken(w, s)
  PROVE  IInv'
<1> USE DEF IInv, TypeOK, vaultVars, queueVars, workerVars, Begin, Rest, Return, Fault, NoTokens, Blank, LookupToken
<1>1. TypeOK'
  BY DEF JobInv, Dependents
<1>2. JobInv'
  BY DEF JobInv
<1>3. TimedOutInv'
  BY DEF TimedOutInv, JobInv, OneWorker
<1>4. VersionInv'
  BY DEF VersionInv, JobInv, OneWorker
<1>5. ReadInv'
  BY DEF ReadInv, JobInv, OneWorker
<1>6. NoLostUpdate'
  <2> SUFFICES ASSUME NEW d \in Secrets, NEW t \in Tokens[d],
                      content[d][t] \notin {version[t], Blank}
               PROVE  Coming(d, t)'
    BY DEF NoLostUpdate
  <2>1. t \in Secrets /\ Coming(d, t)
    BY DEF NoLostUpdate
  <2>2. CASE created[t] > 0 \/ update[d] > 0
    BY <2>2 DEF Coming
  <2>3. ASSUME NEW v \in Workers, pc[v] = "evaluate", job[v] = d, read[v][t] \in {Blank, version[t]}
        PROVE  Coming(d, t)'
    <3>1. v = w
      BY DEF OneWorker
    <3>2. read'[w][t] \in {Blank, version[t]}
      <4>1. read' = [read EXCEPT ![w][s] = version[s]]
        OBVIOUS
      <4>2. CASE t = s
        BY <4>1, <4>2
      <4>3. CASE t # s
        BY <4>1, <4>3, <3>1, <2>3, <2>1
      <4>4. QED
        BY <4>2, <4>3
    <3>3. QED
      BY <3>1, <3>2, <2>3 DEF Coming
  <2>4. QED
    BY <2>1, <2>2, <2>3 DEF Coming, OneWorker
<1>7. QED
  BY <1>1, <1>2, <1>3, <1>4, <1>5, <1>6

LEMMA LookupFailsStep ==
  ASSUME OneWorker, NEW w \in Workers, NEW s \in Secrets, IInv, LookupFails(w, s)
  PROVE  IInv'
<1> USE DEF IInv, TypeOK, vaultVars, queueVars, workerVars, Begin, Rest, Return, Fault, NoTokens, Blank, LookupFails
<1>1. TypeOK'
  BY DEF JobInv, Dependents
<1>2. JobInv'
  BY DEF JobInv
<1>3. TimedOutInv'
  BY DEF TimedOutInv, JobInv, OneWorker
<1>4. VersionInv'
  BY DEF VersionInv, JobInv, OneWorker
<1>5. ReadInv'
  BY DEF ReadInv, JobInv, OneWorker
<1>6. NoLostUpdate'
  BY DEF NoLostUpdate, Coming, JobInv, TimedOutInv, ReadInv, OneWorker, Dependents
<1>7. QED
  BY <1>1, <1>2, <1>3, <1>4, <1>5, <1>6

LEMMA SetSecretStep ==
  ASSUME OneWorker, NEW w \in Workers, IInv, SetSecret(w)
  PROVE  IInv'
<1> USE DEF IInv, TypeOK, vaultVars, queueVars, workerVars, Begin, Rest, Return, Fault, NoTokens, Blank, SetSecret
<1>1. TypeOK'
  BY DEF JobInv, Dependents
<1>2. JobInv'
  BY DEF JobInv
<1>3. TimedOutInv'
  BY DEF TimedOutInv, JobInv, OneWorker
<1>4. VersionInv'
  BY DEF VersionInv, JobInv, OneWorker
<1>5. ReadInv'
  BY DEF ReadInv, JobInv, OneWorker
<1>6. NoLostUpdate'
  BY DEF NoLostUpdate, Coming, JobInv, TimedOutInv, ReadInv, OneWorker, Dependents
<1>7. QED
  BY <1>1, <1>2, <1>3, <1>4, <1>5, <1>6

LEMMA SettleStep ==
  ASSUME OneWorker, NEW w \in Workers, IInv, Settle(w)
  PROVE  IInv'
<1> USE DEF IInv, TypeOK, vaultVars, queueVars, workerVars, Begin, Rest, Return, Fault, NoTokens, Blank, Settle
<1>1. TypeOK'
  BY DEF JobInv, Dependents
<1>2. JobInv'
  BY DEF JobInv
<1>3. TimedOutInv'
  BY DEF TimedOutInv, JobInv, OneWorker
<1>4. VersionInv'
  BY DEF VersionInv, JobInv, OneWorker
<1>5. ReadInv'
  BY DEF ReadInv, JobInv, OneWorker
<1>6. NoLostUpdate'
  BY DEF NoLostUpdate, Coming, JobInv, TimedOutInv, ReadInv, OneWorker, Dependents
<1>7. QED
  BY <1>1, <1>2, <1>3, <1>4, <1>5, <1>6

LEMMA FailsStep ==
  ASSUME OneWorker, NEW w \in Workers, IInv, Fails(w)
  PROVE  IInv'
<1> USE DEF IInv, TypeOK, vaultVars, queueVars, workerVars, Begin, Rest, Return, Fault, NoTokens, Blank, Fails
<1>1. TypeOK'
  <2>1. job[w] \in Secrets
    BY DEF JobInv
  <2>2. created' \in [Secrets -> Nat] /\ update' \in [Secrets -> Nat]
    <3>1. Return(w) \/ UNCHANGED queueVars
      OBVIOUS
    <3>2. created \in [Secrets -> Nat] /\ update \in [Secrets -> Nat]
      OBVIOUS
    <3> QED
      BY <2>1, <3>1, <3>2, ReturnAdds
  <2>3. QED
    BY <2>2
<1>2. JobInv'
  BY DEF JobInv
<1>3. TimedOutInv'
  BY DEF TimedOutInv, JobInv, OneWorker
<1>4. VersionInv'
  BY DEF VersionInv, JobInv, OneWorker
<1>5. ReadInv'
  BY DEF ReadInv, JobInv, OneWorker
<1>6. NoLostUpdate'
  BY DEF NoLostUpdate, Coming, JobInv, TimedOutInv, ReadInv, OneWorker, Dependents
<1>7. QED
  BY <1>1, <1>2, <1>3, <1>4, <1>5, <1>6

LEMMA VisibilityTimeoutStep ==
  ASSUME OneWorker, NEW w \in Workers, IInv, VisibilityTimeout(w)
  PROVE  IInv'
<1> USE DEF IInv, TypeOK, vaultVars, queueVars, workerVars, Begin, Rest, Return, Fault, NoTokens, Blank, VisibilityTimeout
<1>1. TypeOK'
  <2>1. job[w] \in Secrets
    BY DEF JobInv
  <2>2. created' \in [Secrets -> Nat] /\ update' \in [Secrets -> Nat]
    <3>1. Return(w) \/ UNCHANGED queueVars
      OBVIOUS
    <3>2. created \in [Secrets -> Nat] /\ update \in [Secrets -> Nat]
      OBVIOUS
    <3> QED
      BY <2>1, <3>1, <3>2, ReturnAdds
  <2>3. QED
    BY <2>2
<1>2. JobInv'
  BY DEF JobInv
<1>3. TimedOutInv'
  BY DEF TimedOutInv, JobInv, OneWorker
<1>4. VersionInv'
  BY DEF VersionInv, JobInv, OneWorker
<1>5. ReadInv'
  BY DEF ReadInv, JobInv, OneWorker
<1>6. NoLostUpdate'
  <2> SUFFICES ASSUME NEW d \in Secrets, NEW t \in Tokens[d],
                      content[d][t] \notin {version[t], Blank}
               PROVE  Coming(d, t)'
    BY DEF NoLostUpdate
  <2>1. t \in Secrets /\ Coming(d, t) /\ job[w] \in Secrets
    BY DEF NoLostUpdate, JobInv
  <2>2. created'[t] >= created[t] /\ update'[d] >= update[d]
    <3>1. Return(w) /\ created \in [Secrets -> Nat] /\ update \in [Secrets -> Nat]
      OBVIOUS
    <3>2. QED
      BY <2>1, <3>1, ReturnAdds
  <2>3. UNCHANGED <<pc, job, todo, read, version>>
    OBVIOUS
  <2>4. created[t] \in Nat /\ update[d] \in Nat
    BY <2>1
  <2>5. created'[t] \in Nat /\ update'[d] \in Nat
    BY <1>1, <2>1
  <2>6. CASE created[t] > 0 \/ update[d] > 0
    BY <2>6, <2>2, <2>4, <2>5 DEF Coming
  <2>7. CASE ~(created[t] > 0 \/ update[d] > 0)
    BY <2>7, <2>1, <2>3 DEF Coming
  <2>8. QED
    BY <2>6, <2>7
<1>7. QED
  BY <1>1, <1>2, <1>3, <1>4, <1>5, <1>6

LEMMA InvStep == OneWorker /\ IInv /\ [Next]_vars => IInv'
<1> SUFFICES ASSUME OneWorker, IInv, [Next]_vars PROVE IInv'
  OBVIOUS
<1>1. ASSUME NEW s \in Secrets, Rotate(s) PROVE IInv'
  BY <1>1, RotateStep
<1>2. ASSUME NEW w \in Workers, NEW s \in Secrets, TakeCreated(w, s) PROVE IInv'
  BY <1>2, TakeCreatedStep
<1>3. ASSUME NEW w \in Workers, NEW d \in Secrets, SendUpdate(w, d) PROVE IInv'
  BY <1>3, SendUpdateStep
<1>4. ASSUME NEW w \in Workers, NEW d \in Secrets, TakeUpdate(w, d) PROVE IInv'
  BY <1>4, TakeUpdateStep
<1>5. ASSUME NEW w \in Workers, NEW s \in Secrets, LookupToken(w, s) PROVE IInv'
  BY <1>5, LookupTokenStep
<1>6. ASSUME NEW w \in Workers, NEW s \in Secrets, LookupFails(w, s) PROVE IInv'
  BY <1>6, LookupFailsStep
<1>7. ASSUME NEW w \in Workers, SetSecret(w) PROVE IInv'
  BY <1>7, SetSecretStep
<1>8. ASSUME NEW w \in Workers, Settle(w) PROVE IInv'
  BY <1>8, SettleStep
<1>9. ASSUME NEW w \in Workers, Fails(w) PROVE IInv'
  BY <1>9, FailsStep
<1>10. ASSUME NEW w \in Workers, VisibilityTimeout(w) PROVE IInv'
  BY <1>10, VisibilityTimeoutStep
<1>11. CASE UNCHANGED vars
  BY <1>11 DEF IInv, TypeOK, JobInv, TimedOutInv, VersionInv, ReadInv, NoLostUpdate, Coming,
             vars, vaultVars, queueVars, workerVars
<1>12. QED
  BY <1>1, <1>2, <1>3, <1>4, <1>5, <1>6, <1>7, <1>8, <1>9, <1>10, <1>11 DEF Next, Work

(***************************************************************************)
(* With one worker no update of a dependent secret is lost: what is not    *)
(* the newest value will be replaced, or could not be read.                *)
(***************************************************************************)
THEOREM UpdatesNotLost == OneWorker /\ Spec => []NoLostUpdate
<1> SUFFICES ASSUME OneWorker PROVE Spec => []NoLostUpdate
  OBVIOUS
<1>1. IInv => NoLostUpdate
  BY DEF IInv
<1>2. IInv /\ [Next]_vars => IInv'
  BY InvStep
<1>3. QED
  BY <1>1, <1>2, InitInv, PTL DEF Spec

(***************************************************************************)
(* With one worker a dependent secret only ever gets newer values.         *)
(***************************************************************************)
THEOREM NoOlderValue == OneWorker /\ Spec => NoRegression
<1> SUFFICES ASSUME OneWorker PROVE Spec => NoRegression
  OBVIOUS
<1> DEFINE Newer ==
      \A d \in Secrets : \A s \in Tokens[d] :
        content'[d][s] >= content[d][s] \/ content'[d][s] = Blank
<1>1. IInv /\ [Next]_vars => [Newer]_vars
  <2> SUFFICES ASSUME IInv, Next PROVE Newer
    OBVIOUS
  <2>1. CASE UNCHANGED content
    <3>1. \A d, s \in Secrets : content[d][s] \in Nat
      BY DEF IInv, TypeOK
    <3>2. QED
      BY <2>1, <3>1
  <2>2. ASSUME NEW w \in Workers, SetSecret(w) PROVE Newer
    <3>1. job[w] \in Secrets /\ pc[w] = "evaluate"
      BY <2>2 DEF IInv, JobInv, SetSecret
    <3>2. content' = [content EXCEPT ![job[w]] = read[w]]
      BY <2>2 DEF SetSecret
    <3>3. \A d, s \in Secrets : content[d][s] \in Nat /\ content \in [Secrets -> [Secrets -> Nat]]
      BY DEF IInv, TypeOK
    <3>4. \A s \in Secrets : read[w][s] >= content[job[w]][s] \/ read[w][s] = Blank
      BY <3>1 DEF IInv, VersionInv
    <3>5. QED
      BY <3>1, <3>2, <3>3, <3>4
  <2>3. QED
    BY <2>1, <2>2 DEF Next, Work, Rotate, TakeCreated, SendUpdate, TakeUpdate, LookupToken,
       LookupFails, Settle, Fails, VisibilityTimeout, vaultVars
<1>2. IInv /\ [Next]_vars => IInv'
  BY InvStep
<1>3. QED
  BY <1>1, <1>2, InitInv, PTL DEF Spec, NoRegression

=============================================================================
