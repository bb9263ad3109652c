--------------------------- MODULE TrackingProofs ---------------------------
(***************************************************************************)
(* For any number of drains, messages, deliveries and faults: the history  *)
(* never attributes an end to the wrong attempt without a lost start, a    *)
(* failure costs no more than the rest of its drain, and the dashboard     *)
(* shows the outcome whatever the order of the attempts.                   *)
(***************************************************************************)
EXTENDS Tracking, FiniteSetTheorems, TLAPS

\* A delivery is under way.
Underway(w) == pc[w] \notin {"idle", "draining"}

Types ==
  /\ message \in Seq(Messages)
  /\ transactions \in SUBSET Messages
  /\ pc \in [Workers -> {"idle", "draining", "starting", "processing", "ending", "saving"}]
  /\ current \in [Workers -> 0..Len(message)]
  /\ own \in [Workers -> Nat]
  /\ entries = [w \in Workers |-> entries[w]]
  /\ added \in [Workers -> SUBSET Messages]
  /\ failed \in [Workers -> BOOLEAN]

\* What EndsAttributed says of the database, said of the attempts of a context.
Attributed(f) ==
  \A d \in DOMAIN f :
    /\ d \in Delivered
    /\ \/ f[d] \in {0, d}
       \/ f[d] \in lostStarts /\ f[d] \in Delivered /\ f[d] > d /\ message[f[d]] = message[d]

\* A context holds the attempts of its own drain, the one under way last.
Newest ==
  \A w \in Workers :
    /\ Attributed(entries[w])
    /\ \A d \in DOMAIN entries[w] : d <= current[w]
    /\ Underway(w) => current[w] \in Delivered

\* The attempt of the delivery under way is in the context, or its start was lost.
Started ==
  \A w \in Workers :
    /\ own[w] # 0 => own[w] = current[w]
    /\ Underway(w) => current[w] \in DOMAIN entries[w] \/ current[w] \in lostStarts
    /\ pc[w] = "starting" => current[w] \in DOMAIN entries[w]

Attribution == Types /\ Attributed(attempts) /\ Newest /\ Started

-----------------------------------------------------------------------------
\* What is saved comes from a context that is attributed.
LEMMA SaveAttributed ==
  ASSUME Attribution, NEW w \in Workers, SaveChanges(w),
         UNCHANGED <<message, lostStarts>>
  PROVE  Attributed(attempts)'
<1>1. Attributed(attempts) /\ Attributed(entries[w])
  BY DEF Attribution, Newest
<1> QED
  BY <1>1 DEF SaveChanges, Attributed, Delivered

LEMMA SaveTypes ==
  ASSUME Types, NEW w \in Workers, SaveChanges(w) \/ SaveFails(w)
  PROVE  /\ transactions' \in SUBSET Messages
         /\ added' \in [Workers -> SUBSET Messages]
         /\ failed' \in [Workers -> BOOLEAN]
<1>1. CASE SaveChanges(w)
  BY <1>1 DEF SaveChanges, Types
<1>2. CASE SaveFails(w)
  BY <1>2 DEF SaveFails, Fails, database, context, Types
<1> QED
  BY <1>1, <1>2

\* Initially no attempt is recorded.
LEMMA InitAttribution == Init => Attribution
<1> SUFFICES ASSUME Init PROVE Attribution
  OBVIOUS
<1>1. message \in Seq(Messages) /\ Len(message) = 0
  BY DEF Init
<1> QED
  BY <1>1 DEF Init, Attribution, Types, Attributed, Newest, Started, NoAttempts, Delivered, Underway

\* A delivery that starts has a number of its own.
LEMMA NextDeliveryNumber ==
  ASSUME Types, NEW w \in Workers, NEW m \in Messages, NextDelivery(w, m)
  PROVE  /\ message' \in Seq(Messages)
         /\ Len(message') = Len(message) + 1
         /\ Len(message) \in Nat
         /\ \A d \in Delivered : message'[d] = message[d]
         /\ Delivered' = Delivered \cup {Len(message) + 1}
         /\ current' \in [Workers -> 0..Len(message')]
         /\ current'[w] = Len(message) + 1
         /\ \A v \in Workers \ {w} : current'[v] = current[v]
BY DEF Types, NextDelivery, Delivered

\* The number of deliveries only grows: what was attributed stays so.
LEMMA StaysAttributed ==
  ASSUME Types, NEW w \in Workers, NEW m \in Messages, NextDelivery(w, m),
         lostStarts \subseteq lostStarts', NEW f, Attributed(f)
  PROVE  \A d \in DOMAIN f :
    /\ d \in Delivered'
    /\ \/ f[d] \in {0, d}
       \/ f[d] \in lostStarts' /\ f[d] \in Delivered' /\ f[d] > d /\ message'[f[d]] = message'[d]
BY NextDeliveryNumber DEF Attributed

\* Every step preserves the invariant.
LEMMA NextAttribution == Attribution /\ [Next]_vars => Attribution'
<1> SUFFICES ASSUME Attribution, [Next]_vars PROVE Attribution'
  OBVIOUS
<1> USE DEF Attribution
<1>1. ASSUME NEW w \in Workers, StartDrain(w) PROVE Attribution'
  BY <1>1 DEF StartDrain, Goto, database, deliveries, context,
       Types, Attributed, Newest, Started, Underway, Delivered
<1>2. ASSUME NEW w \in Workers, EndDrain(w) \/ Crash(w) PROVE Attribution'
  <2>1. /\ DropContext(w)
        /\ pc' = [pc EXCEPT ![w] = "idle"]
        /\ UNCHANGED <<transactions, attempts, message, current, lostStarts>>
    BY <1>2 DEF EndDrain, Crash, Goto, database, deliveries
  <2>2. Types'
    BY <2>1 DEF DropContext, Types
  <2>3. Attributed(attempts)'
    BY <2>1 DEF Attributed, Delivered
  <2>4. /\ DOMAIN entries'[w] = {} /\ own'[w] = 0 /\ pc'[w] = "idle"
        /\ \A v \in Workers \ {w} :
             entries'[v] = entries[v] /\ own'[v] = own[v] /\ pc'[v] = pc[v]
    BY <2>1 DEF DropContext, NoAttempts, Types
  <2> QED
    BY <2>1, <2>2, <2>3, <2>4 DEF Attributed, Newest, Started, Underway, Delivered
<1>3. ASSUME NEW w \in Workers, NEW m \in Messages, RecordStart(w, m) PROVE Attribution'
  <2>1. NextDelivery(w, m) /\ lostStarts' = lostStarts
    BY <1>3 DEF RecordStart
  <2>2. Types'
    <3>1. message' \in Seq(Messages) /\ current' \in [Workers -> 0..Len(message')]
      BY <2>1, NextDeliveryNumber
    <3>2. own' \in [Workers -> Nat] /\ transactions' \in SUBSET Messages
      BY <1>3, <2>1 DEF RecordStart, NextDelivery, Types, database
    <3>3. added' \in [Workers -> SUBSET Messages] /\ failed' \in [Workers -> BOOLEAN]
      BY <1>3 DEF RecordStart, Types
    <3>4. entries' = [v \in Workers |-> entries'[v]]
      BY <1>3 DEF RecordStart, Types
    <3>5. pc' = [pc EXCEPT ![w] = "starting"]
      BY <1>3 DEF RecordStart, Goto
    <3> QED
      BY <3>1, <3>2, <3>3, <3>4, <3>5 DEF Types
  <2>3. Attributed(attempts)'
    BY <1>3, <2>1, StaysAttributed DEF RecordStart, Attributed, database
  <2>4. ASSUME NEW v \in Workers \ {w}
        PROVE  Attributed(entries[v])' /\ (\A d \in DOMAIN entries'[v] : d <= current'[v])
    <3>1. entries'[v] = entries[v] /\ Attributed(entries[v]) /\ current'[v] = current[v]
      BY <1>3, <2>1, NextDeliveryNumber DEF RecordStart, Newest, Types
    <3> QED
      BY <3>1, <2>1, StaysAttributed DEF Attributed, Newest
  <2>5. entries'[w] = [d \in DOMAIN entries[w] \cup {Len(message')} |->
                         IF d \in DOMAIN entries[w] THEN entries[w][d] ELSE 0]
    BY <1>3 DEF RecordStart, Types
  <2>6. current[w] \in 0..Len(message) /\ current'[w] = Len(message) + 1
        /\ Len(message') = Len(message) + 1 /\ Len(message) \in Nat /\ Len(message') \in Delivered'
    BY <2>1, NextDeliveryNumber DEF Types
  <2>7. Attributed(entries[w])' /\ (\A d \in DOMAIN entries'[w] : d <= current'[w])
    <3>1. Attributed(entries[w]) /\ (\A d \in DOMAIN entries[w] : d <= current[w])
      BY DEF Newest
    <3>2. ASSUME NEW d \in DOMAIN entries[w]
          PROVE  /\ d \in Delivered' /\ d <= current'[w]
                 /\ \/ entries'[w][d] \in {0, d}
                    \/ entries'[w][d] \in lostStarts' /\ entries'[w][d] \in Delivered'
                       /\ entries'[w][d] > d /\ message'[entries'[w][d]] = message'[d]
      <4>1. d \in 1..Len(message) /\ d <= current'[w]
        BY <3>1, <2>6 DEF Attributed, Delivered
      <4> QED
        BY <4>1, <2>5, <3>1, <2>1, StaysAttributed
    <3>3. DOMAIN entries'[w] = DOMAIN entries[w] \cup {current'[w]}
      BY <2>5, <2>6
    <3>4. current'[w] \in Delivered' /\ current'[w] <= current'[w]
      BY <2>6 DEF Types
    <3>5. current'[w] \notin DOMAIN entries[w] => entries'[w][current'[w]] = 0
      BY <2>5, <2>6
    <3> QED
      BY <3>2, <3>3, <3>4, <3>5 DEF Attributed
  <2>8. Newest'
    <3>1. ASSUME NEW v \in Workers, Underway(v)' PROVE (current[v] \in Delivered)'
      <4>1. CASE v = w
        BY <4>1, <2>6
      <4>2. CASE v # w
        BY <4>2, <3>1, <1>3, <2>1, NextDeliveryNumber
          DEF RecordStart, Goto, Types, Newest, Underway
      <4> QED
        BY <4>1, <4>2
    <3> QED
      BY <2>4, <2>7, <3>1 DEF Newest
  <2>9. Started'
    <3>1. ASSUME NEW v \in Workers \ {w}
          PROVE  /\ own'[v] = own[v] /\ current'[v] = current[v]
                 /\ pc'[v] = pc[v] /\ entries'[v] = entries[v]
      BY <1>3, <2>1, NextDeliveryNumber DEF RecordStart, NextDelivery, Goto, Types
    <3>2. own'[w] = 0 /\ current'[w] \in DOMAIN entries'[w]
      BY <2>1, <2>5, <2>6 DEF NextDelivery, Types
    <3> QED
      BY <3>1, <3>2, <2>1 DEF Started, Underway
  <2> QED
    BY <2>2, <2>3, <2>8, <2>9
<1>4. ASSUME NEW w \in Workers, NEW m \in Messages, StartThrows(w, m) PROVE Attribution'
  <2>1. NextDelivery(w, m) /\ lostStarts' = lostStarts \cup {Len(message')}
        /\ entries' = entries /\ added' = added /\ attempts' = attempts
    BY <1>4 DEF StartThrows, context, database
  <2>2. Types'
    <3>1. message' \in Seq(Messages) /\ current' \in [Workers -> 0..Len(message')]
      BY <2>1, NextDeliveryNumber
    <3>2. own' \in [Workers -> Nat] /\ transactions' \in SUBSET Messages
      BY <1>4, <2>1 DEF StartThrows, NextDelivery, Types, database
    <3>3. failed' \in [Workers -> BOOLEAN]
      BY <1>4 DEF StartThrows, Fails, Types
    <3>4. pc' = [pc EXCEPT ![w] = "processing"]
      BY <1>4 DEF StartThrows, Goto
    <3> QED
      BY <2>1, <3>1, <3>2, <3>3, <3>4 DEF Types
  <2>3. Attributed(attempts)'
    BY <2>1, StaysAttributed DEF Attributed
  <2>4. ASSUME NEW v \in Workers \ {w}
        PROVE  /\ own'[v] = own[v] /\ current'[v] = current[v] /\ pc'[v] = pc[v]
    BY <1>4, <2>1, NextDeliveryNumber DEF StartThrows, NextDelivery, Goto, Types
  <2>5. /\ current[w] \in 0..Len(message) /\ current'[w] = Len(message) + 1
        /\ Len(message') = Len(message) + 1 /\ Len(message) \in Nat /\ Len(message') \in Delivered'
        /\ own'[w] = 0 /\ pc'[w] = "processing"
    BY <1>4, <2>1, NextDeliveryNumber DEF StartThrows, NextDelivery, Types, Goto
  <2>6. Newest'
    <3>1. ASSUME NEW v \in Workers
          PROVE  Attributed(entries[v])' /\ (\A d \in DOMAIN entries'[v] : d <= current'[v])
      <4>1. Attributed(entries[v]) /\ (\A d \in DOMAIN entries[v] : d <= current[v])
        BY DEF Newest
      <4>2. Attributed(entries[v])'
        BY <2>1, <4>1, StaysAttributed DEF Attributed
      <4>3. \A d \in DOMAIN entries[v] : d \in Nat
        BY <4>1 DEF Attributed, Delivered
      <4> QED
        BY <2>1, <2>4, <2>5, <4>1, <4>2, <4>3
    <3>2. ASSUME NEW v \in Workers, Underway(v)' PROVE (current[v] \in Delivered)'
      <4>1. CASE v = w
        BY <4>1, <2>5
      <4>2. CASE v # w
        BY <4>2, <3>2, <2>1, <2>4, NextDeliveryNumber DEF Newest, Underway
      <4> QED
        BY <4>1, <4>2
    <3> QED
      BY <3>1, <3>2 DEF Newest
  <2>7. Started'
    BY <2>1, <2>4, <2>5 DEF Started, Underway
  <2> QED
    BY <2>2, <2>3, <2>6, <2>7
<1>5. ASSUME NEW w \in Workers, SaveStart(w) PROVE Attribution'
  <2>1. UNCHANGED <<message, current, lostStarts, entries>>
    BY <1>5 DEF SaveStart, SaveChanges, SaveFails, deliveries, context
  <2>2. Attributed(attempts)'
    <3>1. CASE SaveChanges(w)
      BY <3>1, <2>1, SaveAttributed
    <3>2. CASE SaveFails(w)
      BY <3>2, <2>1 DEF SaveFails, database, Attributed, Delivered
    <3> QED
      BY <1>5, <3>1, <3>2 DEF SaveStart
  <2>3. Types'
    BY <1>5, <2>1, SaveTypes DEF SaveStart, Goto, Types
  <2>4. Newest'
    BY <1>5, <2>1 DEF SaveStart, Goto, Newest, Attributed, Delivered, Underway, Types
  <2>5. Started'
    BY <1>5, <2>1 DEF SaveStart, Goto, Started, Underway, Types
  <2> QED
    BY <2>2, <2>3, <2>4, <2>5
<1>6. ASSUME NEW w \in Workers, NEW success \in BOOLEAN, Process(w, success) PROVE Attribution'
  BY <1>6 DEF Process, Goto, database, context,
       Types, Attributed, Newest, Started, Underway, Delivered
<1>7. ASSUME NEW w \in Workers, RecordEnd(w) PROVE Attribution'
  <2>1. PICK d \in Known(w) : EndedAttempt(w, d)
                              /\ entries' = [entries EXCEPT ![w][d] = current[w]]
    BY <1>7 DEF RecordEnd
  <2>2. /\ UNCHANGED <<message, current, own, lostStarts, transactions, attempts, added, failed>>
        /\ pc[w] = "ending" /\ pc' = [pc EXCEPT ![w] = "saving"]
    BY <1>7 DEF RecordEnd, Goto, database, deliveries
  <2>3. /\ d \in DOMAIN entries[w] /\ d \in Delivered /\ message[d] = message[current[w]]
        /\ current[w] \in Delivered /\ d <= current[w]
    BY <2>1, <2>2 DEF Known, Newest, Attributed, Underway
  <2>4. d = current[w] \/ (current[w] \in lostStarts /\ current[w] > d)
    <3>1. CASE own[w] # 0
      BY <2>1, <3>1 DEF EndedAttempt, Started
    <3>2. CASE own[w] = 0 /\ current[w] \in DOMAIN entries[w]
      BY <2>1, <2>3, <3>2 DEF EndedAttempt, Known, Delivered
    <3>3. CASE current[w] \in lostStarts
      BY <2>3, <3>3 DEF Delivered
    <3> QED
      BY <2>2, <3>1, <3>2, <3>3 DEF Started, Underway
  <2>5. /\ entries'[w] = [entries[w] EXCEPT ![d] = current[w]]
        /\ \A v \in Workers \ {w} : entries'[v] = entries[v]
        /\ \A v \in Workers : DOMAIN entries'[v] = DOMAIN entries[v]
    BY <2>1 DEF Types
  <2>6. Attributed(entries[w])'
    BY <2>2, <2>3, <2>4, <2>5 DEF Newest, Attributed, Delivered
  <2>7. \A v \in Workers \ {w} : Attributed(entries[v])'
    BY <2>2, <2>5 DEF Newest, Attributed, Delivered
  <2>8. Types'
    BY <2>1, <2>2 DEF Types
  <2>9. Newest'
    BY <2>2, <2>3, <2>5, <2>6, <2>7 DEF Newest, Delivered, Underway, Types
  <2>10. Started'
    BY <2>2, <2>5 DEF Started, Underway, Types
  <2>11. Attributed(attempts)'
    BY <2>2 DEF Attributed, Delivered
  <2> QED
    BY <2>8, <2>9, <2>10, <2>11
<1>8. ASSUME NEW w \in Workers, SkipEnd(w) \/ EndThrows(w) PROVE Attribution'
  <2>1. /\ UNCHANGED <<transactions, attempts, message, current, own, added, entries, lostStarts>>
        /\ pc' = [pc EXCEPT ![w] = "draining"]
        /\ failed' \in [Workers -> BOOLEAN]
    BY <1>8 DEF SkipEnd, EndThrows, Fails, Leave, Goto, database, deliveries, context, Types
  <2>2. Types'
    BY <2>1 DEF Types
  <2> QED
    BY <2>1, <2>2 DEF Types, Attributed, Newest, Started, Underway, Delivered
<1>9. ASSUME NEW w \in Workers, SaveEnd(w) PROVE Attribution'
  <2>1. UNCHANGED <<message, current, own, lostStarts, entries>>
    BY <1>9 DEF SaveEnd, SaveChanges, SaveFails, deliveries, context
  <2>2. Attributed(attempts)'
    <3>1. CASE SaveChanges(w)
      BY <3>1, <2>1, SaveAttributed
    <3>2. CASE SaveFails(w)
      BY <3>2, <2>1 DEF SaveFails, database, Attributed, Delivered
    <3> QED
      BY <1>9, <3>1, <3>2 DEF SaveEnd
  <2>3. Types'
    BY <1>9, <2>1, SaveTypes DEF SaveEnd, Leave, Goto, Types
  <2>4. Newest' /\ Started'
    BY <1>9, <2>1 DEF SaveEnd, Leave, Goto, Newest, Started, Attributed, Delivered, Underway, Types
  <2> QED
    BY <2>2, <2>3, <2>4
<1>10. CASE UNCHANGED vars
  BY <1>10 DEF vars, database, deliveries, context,
       Types, Attributed, Newest, Started, Underway, Delivered
<1> QED
  BY <1>1, <1>2, <1>3, <1>4, <1>5, <1>6, <1>7, <1>8, <1>9, <1>10 DEF Next, Track

(***************************************************************************)
(* An end that is recorded in another attempt than its own belongs to a    *)
(* delivery whose start was lost, and to the same message                  *)
(* (SqlServerProcessingTrackerDataAccessProvider.cs:40).                   *)
(***************************************************************************)
THEOREM EndsAttributedCorrectly == Spec => []EndsAttributed
<1>1. Attribution => EndsAttributed
  BY DEF Attribution, Attributed, EndsAttributed
<1> QED
  BY <1>1, InitAttribution, NextAttribution, PTL DEF Spec

-----------------------------------------------------------------------------
(* What a drain has recorded as long as no call failed in it.              *)

Careful(w) ==
  ~failed[w] =>
    /\ pc[w] # "starting" => added[w] = {}
    /\ Underway(w) => current[w] \in DOMAIN entries[w] \ lostStarts
    /\ pc[w] = "starting" => message[current[w]] \in transactions \cup added[w]
    /\ pc[w] \in {"processing", "ending", "saving"} =>
         message[current[w]] \in transactions /\ own[w] = current[w]
    /\ pc[w] = "saving" => entries[w][current[w]] # 0

\* An attempt is in one context at most.
Apart ==
  /\ \A v, w \in Workers : v # w => DOMAIN entries[v] \cap DOMAIN entries[w] = {}
  /\ lostStarts \subseteq Delivered

\* No context that is still to be saved takes the end from a clean delivery.
CleanInv ==
  \A d \in clean :
    /\ d \in DOMAIN attempts /\ attempts[d] # 0 /\ d \notin lostStarts
    /\ \A w \in Workers : d \in DOMAIN entries[w] => entries[w][d] # 0

HistoryInv == Attribution /\ (\A w \in Workers : Careful(w)) /\ Apart /\ CleanInv

LEMMA InitHistoryInv == Init => HistoryInv
<1> SUFFICES ASSUME Init PROVE HistoryInv
  OBVIOUS
<1> QED
  BY InitAttribution DEF Init, HistoryInv, Careful, Apart, CleanInv, Underway, NoAttempts, Delivered

\* Nothing of the drain changes.
SameDrain(v) ==
  /\ failed'[v] = failed[v] /\ pc'[v] = pc[v] /\ added'[v] = added[v]
  /\ entries'[v] = entries[v] /\ own'[v] = own[v] /\ current'[v] = current[v]

\* What other drains do leaves a drain careful.
LEMMA OthersCareful ==
  ASSUME HistoryInv, NEW v \in Workers, SameDrain(v), transactions \subseteq transactions',
         \A d \in Delivered : message'[d] = message[d],
         \A d \in Delivered : d \in lostStarts' => d \in lostStarts
  PROVE  Careful(v)'
<1>1. Underway(v) => current[v] \in Delivered
  BY DEF HistoryInv, Attribution, Newest
<1>2. pc[v] \in {"starting", "processing", "ending", "saving"} => Underway(v)
  BY DEF Underway
<1>3. Careful(v)
  BY DEF HistoryInv
<1>4. pc'[v] \in {"starting", "processing", "ending", "saving"} => message'[current'[v]] = message[current[v]]
  BY <1>1, <1>2 DEF SameDrain
<1> QED
  BY <1>1, <1>2, <1>3, <1>4 DEF Careful, SameDrain, Underway

\* Saving a context keeps the ends of the clean deliveries.
LEMMA SaveKeepsClean ==
  ASSUME HistoryInv, NEW w \in Workers, SaveChanges(w), NEW d \in clean
  PROVE  d \in DOMAIN attempts' /\ attempts'[d] # 0
<1>1. attempts' = [e \in DOMAIN attempts \cup DOMAIN entries[w] |->
                    IF e \in DOMAIN entries[w] THEN entries[w][e] ELSE attempts[e]]
  BY DEF SaveChanges
<1>2. d \in DOMAIN attempts /\ attempts[d] # 0
      /\ (d \in DOMAIN entries[w] => entries[w][d] # 0)
  BY DEF HistoryInv, CleanInv
<1> QED
  BY <1>1, <1>2

LEMMA NextHistoryInv == HistoryInv /\ [Next]_vars => HistoryInv'
<1> SUFFICES ASSUME HistoryInv, [Next]_vars PROVE HistoryInv'
  OBVIOUS
<1>0. Attribution' /\ Attribution /\ Types /\ Types' /\ DOMAIN attempts \subseteq Delivered
  BY NextAttribution DEF HistoryInv, Attribution, Attributed
<1>1. ASSUME NEW w \in Workers, StartDrain(w) PROVE HistoryInv'
  <2>1. /\ pc[w] = "idle" /\ pc' = [pc EXCEPT ![w] = "draining"]
        /\ UNCHANGED <<transactions, attempts, message, current, own, added, entries, failed,
                       clean, lostStarts>>
    BY <1>1 DEF StartDrain, Goto, database, deliveries, context
  <2>2. Careful(w)'
    <3>1. Careful(w) /\ pc'[w] = "draining"
      BY <1>0, <2>1 DEF HistoryInv, Types
    <3> QED
      BY <2>1, <3>1 DEF Careful, Underway
  <2>3. \A v \in Workers \ {w} : SameDrain(v)
    BY <1>0, <2>1 DEF SameDrain, Types
  <2>4. \A v \in Workers \ {w} : Careful(v)'
    BY <2>1, <2>3, OthersCareful
  <2>5. Apart' /\ CleanInv'
    BY <2>1 DEF HistoryInv, Apart, CleanInv, Delivered
  <2> QED
    BY <1>0, <2>2, <2>4, <2>5 DEF HistoryInv
<1>2. ASSUME NEW w \in Workers, EndDrain(w) \/ Crash(w) PROVE HistoryInv'
  <2>1. /\ DropContext(w)
        /\ pc' = [pc EXCEPT ![w] = "idle"]
        /\ UNCHANGED <<transactions, attempts, message, current, clean, lostStarts>>
    BY <1>2 DEF EndDrain, Crash, Goto, database, deliveries
  <2>2. DOMAIN entries'[w] = {} /\ added'[w] = {} /\ pc'[w] = "idle"
    BY <1>0, <2>1 DEF DropContext, NoAttempts, Types
  <2>3. \A v \in Workers \ {w} : SameDrain(v)
    BY <1>0, <2>1 DEF DropContext, SameDrain, Types
  <2>4. Careful(w)' /\ \A v \in Workers \ {w} : Careful(v)'
    BY <2>1, <2>2, <2>3, OthersCareful DEF Careful, Underway
  <2>5. Apart' /\ CleanInv'
    BY <2>1, <2>2, <2>3 DEF HistoryInv, Apart, CleanInv, SameDrain, Delivered
  <2> QED
    BY <1>0, <2>4, <2>5 DEF HistoryInv
<1>3. ASSUME NEW w \in Workers, NEW m \in Messages, RecordStart(w, m) PROVE HistoryInv'
  <2>1. /\ NextDelivery(w, m)
        /\ UNCHANGED <<transactions, attempts, failed, clean, lostStarts>>
    BY <1>3 DEF RecordStart, database
  <2>2. /\ Len(message) \in Nat /\ Len(message') = Len(message) + 1
        /\ \A d \in Delivered : message'[d] = message[d]
        /\ Delivered' = Delivered \cup {Len(message) + 1}
        /\ current'[w] = Len(message) + 1
        /\ \A v \in Workers \ {w} : current'[v] = current[v]
    BY <1>0, <2>1, NextDeliveryNumber
  <2>3. Len(message) + 1 \notin Delivered
    BY <2>2 DEF Delivered
  <2>4. /\ pc'[w] = "starting" /\ message'[current'[w]] = m
        /\ m \in transactions \cup added'[w]
    <3>1. message' = Append(message, m) /\ message \in Seq(Messages)
      BY <1>0, <2>1 DEF NextDelivery, Types
    <3>2. message'[Len(message) + 1] = m
      BY <3>1
    <3>3. pc'[w] = "starting" /\ m \in transactions \cup added'[w]
      BY <1>0, <1>3 DEF RecordStart, Goto, Types
    <3> QED
      BY <2>2, <3>2, <3>3
  <2>5. entries'[w] = [d \in DOMAIN entries[w] \cup {Len(message')} |->
                         IF d \in DOMAIN entries[w] THEN entries[w][d] ELSE 0]
    BY <1>0, <1>3 DEF RecordStart, Types
  <2>6. \A v \in Workers : DOMAIN entries[v] \subseteq Delivered
    BY <1>0 DEF Attribution, Newest, Attributed
  <2>7. \A v \in Workers \ {w} : SameDrain(v)
    BY <1>0, <1>3, <2>1, <2>2 DEF RecordStart, NextDelivery, Goto, SameDrain, Types
  <2>8. Careful(w)'
    <3>1. current'[w] \in DOMAIN entries'[w] \ lostStarts'
      BY <2>1, <2>2, <2>3, <2>5 DEF HistoryInv, Apart
    <3> QED
      BY <2>1, <2>4, <3>1 DEF Careful
  <2>9. \A v \in Workers \ {w} : Careful(v)'
    BY <2>1, <2>2, <2>7, OthersCareful
  <2>10. Apart'
    <3>1. DOMAIN entries'[w] = DOMAIN entries[w] \cup {Len(message) + 1}
      BY <2>2, <2>5
    <3>2. \A v \in Workers \ {w} : entries'[v] = entries[v] /\ Len(message) + 1 \notin DOMAIN entries[v]
      BY <2>3, <2>6, <2>7 DEF SameDrain
    <3> QED
      BY <2>1, <2>2, <3>1, <3>2 DEF HistoryInv, Apart
  <2>11. CleanInv'
    <3> SUFFICES ASSUME NEW d \in clean, NEW v \in Workers, d \in DOMAIN entries'[v]
                 PROVE  entries'[v][d] # 0
      BY <2>1 DEF HistoryInv, CleanInv
    <3>1. d \in Delivered /\ (d \in DOMAIN entries[v] => entries[v][d] # 0)
      BY <1>0 DEF HistoryInv, CleanInv
    <3> QED
      BY <2>2, <2>3, <2>5, <2>7, <3>1 DEF SameDrain
  <2> QED
    BY <1>0, <2>8, <2>9, <2>10, <2>11 DEF HistoryInv
<1>4. ASSUME NEW w \in Workers, NEW m \in Messages, StartThrows(w, m) PROVE HistoryInv'
  <2>1. /\ NextDelivery(w, m) /\ pc[w] = "draining"
        /\ lostStarts' = lostStarts \cup {Len(message')}
        /\ UNCHANGED <<transactions, attempts, added, entries, clean>>
    BY <1>4 DEF StartThrows, NextDelivery, database, context
  <2>2. /\ Len(message) \in Nat /\ Len(message') = Len(message) + 1
        /\ \A d \in Delivered : message'[d] = message[d]
        /\ Delivered' = Delivered \cup {Len(message) + 1}
        /\ \A v \in Workers \ {w} : current'[v] = current[v]
    BY <1>0, <2>1, NextDeliveryNumber
  <2>3. Len(message) + 1 \notin Delivered
    BY <2>2 DEF Delivered
  <2>4. failed'[w]
    <3>1. m \in added[w] => failed[w]
      BY <2>1 DEF HistoryInv, Careful
    <3> QED
      BY <1>0, <1>4, <3>1 DEF StartThrows, Fails, Types
  <2>5. \A v \in Workers \ {w} : SameDrain(v)
    BY <1>0, <1>4, <2>1, <2>2 DEF StartThrows, Fails, NextDelivery, Goto, SameDrain, Types
  <2>6. \A v \in Workers \ {w} : Careful(v)'
    BY <2>1, <2>2, <2>3, <2>5, OthersCareful
  <2>7. Apart'
    BY <2>1, <2>2 DEF HistoryInv, Apart
  <2>8. CleanInv'
    BY <1>0, <2>1, <2>2, <2>3 DEF HistoryInv, CleanInv
  <2> QED
    BY <1>0, <2>4, <2>6, <2>7, <2>8 DEF HistoryInv, Careful
<1>5. ASSUME NEW w \in Workers, SaveStart(w) PROVE HistoryInv'
  <2>1. /\ pc[w] = "starting" /\ pc' = [pc EXCEPT ![w] = "processing"]
        /\ UNCHANGED <<message, current, clean, lostStarts, entries>>
    BY <1>5 DEF SaveStart, SaveChanges, SaveFails, Goto, deliveries, context
  <2>2. transactions \subseteq transactions' /\ \A v \in Workers \ {w} : SameDrain(v)
    BY <1>0, <1>5, <2>1
      DEF SaveStart, SaveChanges, SaveFails, Fails, database, context, SameDrain, Types
  <2>3. CleanInv'
    <3>1. \A d \in clean : d \in DOMAIN attempts' /\ attempts'[d] # 0
      BY <1>5, SaveKeepsClean DEF SaveStart, SaveFails, database, HistoryInv, CleanInv
    <3> QED
      BY <2>1, <3>1 DEF HistoryInv, CleanInv
  <2>4. Careful(w)'
    <3>1. CASE SaveChanges(w)
      <4>1. /\ transactions' = transactions \cup added[w] /\ added'[w] = {}
            /\ own'[w] = current[w] \/ failed'[w]
            /\ failed'[w] = failed[w]
        BY <1>0, <1>5, <3>1 DEF SaveStart, SaveFails, SaveChanges, Fails, Types
      <4>2. pc'[w] = "processing" /\ Careful(w)
        BY <1>0, <2>1 DEF HistoryInv, Types
      <4> QED
        BY <2>1, <4>1, <4>2 DEF Careful, Underway
    <3>2. CASE SaveFails(w)
      BY <1>0, <3>2 DEF SaveFails, Fails, Types, Careful
    <3> QED
      BY <1>5, <3>1, <3>2 DEF SaveStart
  <2>5. \A v \in Workers \ {w} : Careful(v)'
    BY <2>1, <2>2, OthersCareful
  <2>6. Apart'
    BY <2>1 DEF HistoryInv, Apart, Delivered
  <2> QED
    BY <1>0, <2>3, <2>4, <2>5, <2>6 DEF HistoryInv
<1>6. ASSUME NEW w \in Workers, NEW success \in BOOLEAN, Process(w, success) PROVE HistoryInv'
  <2>1. /\ pc[w] = "processing" /\ pc' = [pc EXCEPT ![w] = "ending"]
        /\ UNCHANGED <<transactions, attempts, message, current, own, added, entries, failed,
                       clean, lostStarts>>
    BY <1>6 DEF Process, Goto, database, context
  <2>2. Careful(w)'
    <3>1. Careful(w) /\ pc'[w] = "ending"
      BY <1>0, <2>1 DEF HistoryInv, Types
    <3> QED
      BY <2>1, <3>1 DEF Careful, Underway
  <2>3. \A v \in Workers \ {w} : SameDrain(v)
    BY <1>0, <2>1 DEF SameDrain, Types
  <2>4. \A v \in Workers \ {w} : Careful(v)'
    BY <2>1, <2>3, OthersCareful
  <2>5. Apart' /\ CleanInv'
    BY <2>1 DEF HistoryInv, Apart, CleanInv, Delivered
  <2> QED
    BY <1>0, <2>2, <2>4, <2>5 DEF HistoryInv
<1>7. ASSUME NEW w \in Workers, RecordEnd(w) PROVE HistoryInv'
  <2>1. PICK d \in Known(w) : EndedAttempt(w, d)
                              /\ entries' = [entries EXCEPT ![w][d] = current[w]]
    BY <1>7 DEF RecordEnd
  <2>2. /\ UNCHANGED <<message, current, own, lostStarts, transactions, attempts, added, failed, clean>>
        /\ pc[w] = "ending" /\ pc' = [pc EXCEPT ![w] = "saving"]
    BY <1>7 DEF RecordEnd, Goto, database, deliveries
  <2>3. current[w] \in Delivered /\ current[w] # 0
    BY <1>0, <2>2 DEF Attribution, Newest, Underway, Delivered
  <2>4. /\ entries'[w] = [entries[w] EXCEPT ![d] = current[w]] /\ d \in DOMAIN entries[w]
        /\ \A v \in Workers \ {w} : entries'[v] = entries[v]
        /\ \A v \in Workers : DOMAIN entries'[v] = DOMAIN entries[v]
    BY <1>0, <2>1 DEF Types, Known
  <2>5. Careful(w)'
    <3>1. Careful(w) /\ pc'[w] = "saving"
      BY <1>0, <2>2 DEF HistoryInv, Types
    <3>2. ~failed[w] => d = current[w]
      BY <2>1, <2>2, <2>3, <3>1 DEF Careful, EndedAttempt
    <3>3. ~failed[w] => entries'[w][current[w]] # 0
      BY <2>3, <2>4, <3>2
    <3> QED
      BY <2>2, <2>4, <3>1, <3>3 DEF Careful, Underway
  <2>6. \A v \in Workers \ {w} : SameDrain(v)
    BY <1>0, <2>2, <2>4 DEF SameDrain, Types
  <2>7. \A v \in Workers \ {w} : Careful(v)'
    BY <2>2, <2>6, OthersCareful
  <2>8. Apart'
    BY <2>2, <2>4 DEF HistoryInv, Apart, Delivered
  <2>9. CleanInv'
    <3>1. \A e \in DOMAIN entries[w] : entries'[w][e] = (IF e = d THEN current[w] ELSE entries[w][e])
      BY <2>4
    <3> QED
      BY <2>2, <2>3, <2>4, <3>1 DEF HistoryInv, CleanInv
  <2> QED
    BY <1>0, <2>5, <2>7, <2>8, <2>9 DEF HistoryInv
<1>8. ASSUME NEW w \in Workers, SkipEnd(w) \/ EndThrows(w) PROVE HistoryInv'
  <2>1. /\ UNCHANGED <<transactions, attempts, message, current, own, added, entries, lostStarts>>
        /\ pc[w] = "ending" /\ pc' = [pc EXCEPT ![w] = "draining"]
        /\ clean' = IF failed'[w] THEN clean ELSE clean \cup {current[w]}
    BY <1>8 DEF SkipEnd, EndThrows, Leave, Goto, database, deliveries, context
  <2>2. failed'[w]
    <3>1. CASE SkipEnd(w)
      <4>1. ~failed[w] => message[current[w]] \in transactions /\ current[w] \in Known(w)
        BY <2>1 DEF HistoryInv, Careful, Underway, Known
      <4> QED
        BY <1>0, <3>1, <4>1 DEF SkipEnd, Types
    <3>2. CASE EndThrows(w)
      BY <1>0, <3>2 DEF EndThrows, Fails, Types
    <3> QED
      BY <1>8, <3>1, <3>2
  <2>3. \A v \in Workers \ {w} : SameDrain(v)
    BY <1>0, <1>8, <2>1 DEF SkipEnd, EndThrows, Fails, SameDrain, Types
  <2>4. \A v \in Workers \ {w} : Careful(v)'
    BY <2>1, <2>3, OthersCareful
  <2>5. Apart' /\ CleanInv'
    BY <2>1, <2>2 DEF HistoryInv, Apart, CleanInv, Delivered
  <2> QED
    BY <1>0, <2>2, <2>4, <2>5 DEF HistoryInv, Careful
<1>9. ASSUME NEW w \in Workers, SaveEnd(w) PROVE HistoryInv'
  <2>1. /\ pc[w] = "saving" /\ pc' = [pc EXCEPT ![w] = "draining"]
        /\ UNCHANGED <<message, current, own, lostStarts, entries>>
        /\ clean' = IF failed'[w] THEN clean ELSE clean \cup {current[w]}
    BY <1>9 DEF SaveEnd, SaveChanges, SaveFails, Leave, Goto, deliveries, context
  <2>2. transactions \subseteq transactions' /\ \A v \in Workers \ {w} : SameDrain(v)
    BY <1>0, <1>9, <2>1
      DEF SaveEnd, SaveChanges, SaveFails, Fails, database, context, SameDrain, Types
  <2>3. \A v \in Workers \ {w} : Careful(v)'
    BY <2>1, <2>2, OthersCareful
  <2>4. Apart'
    BY <2>1 DEF HistoryInv, Apart, Delivered
  <2>5. CASE failed'[w]
    <3>1. \A d \in clean : d \in DOMAIN attempts' /\ attempts'[d] # 0
      BY <1>9, SaveKeepsClean DEF SaveEnd, SaveFails, database, HistoryInv, CleanInv
    <3>2. CleanInv' /\ Careful(w)'
      BY <2>1, <2>5, <3>1 DEF HistoryInv, CleanInv, Careful
    <3> QED
      BY <1>0, <2>3, <2>4, <3>2 DEF HistoryInv
  <2>6. CASE ~failed'[w]
    <3>1. SaveChanges(w) /\ failed' = failed /\ added'[w] = {}
      BY <1>0, <1>9, <2>6 DEF SaveEnd, SaveFails, SaveChanges, Fails, Types
    <3>2. pc'[w] = "draining"
      BY <1>0, <2>1 DEF Types
    <3>3. Careful(w)'
      BY <3>1, <3>2 DEF Careful, Underway
    <3>4. /\ current[w] \in DOMAIN entries[w] \ lostStarts /\ entries[w][current[w]] # 0
      BY <2>1, <2>6, <3>1 DEF HistoryInv, Careful, Underway
    <3>5. current[w] \in DOMAIN attempts' /\ attempts'[current[w]] # 0
      BY <3>1, <3>4 DEF SaveChanges
    <3>6. \A v \in Workers : current[w] \in DOMAIN entries[v] => v = w
      BY <3>4 DEF HistoryInv, Apart
    <3>7. ASSUME NEW d \in clean' PROVE
            /\ d \in DOMAIN attempts' /\ attempts'[d] # 0 /\ d \notin lostStarts
            /\ \A v \in Workers : d \in DOMAIN entries[v] => entries[v][d] # 0
      <4>1. CASE d \in clean
        BY <3>1, <4>1, SaveKeepsClean DEF HistoryInv, CleanInv
      <4>2. CASE d = current[w]
        BY <3>4, <3>5, <3>6, <4>2
      <4> QED
        BY <2>1, <2>6, <4>1, <4>2
    <3>8. CleanInv'
      BY <2>1, <3>7 DEF CleanInv
    <3> QED
      BY <1>0, <2>3, <2>4, <3>3, <3>8 DEF HistoryInv
  <2> QED
    BY <2>5, <2>6
<1>10. CASE UNCHANGED vars
  <2>1. \A v \in Workers : Careful(v)'
    BY <1>10 DEF vars, database, deliveries, context, HistoryInv, Careful, Underway
  <2>2. Apart' /\ CleanInv'
    BY <1>10 DEF vars, database, deliveries, context, HistoryInv, Apart, CleanInv, Delivered
  <2> QED
    BY <1>0, <2>1, <2>2 DEF HistoryInv
<1> QED
  BY <1>1, <1>2, <1>3, <1>4, <1>5, <1>6, <1>7, <1>8, <1>9, <1>10 DEF Next, Track

(***************************************************************************)
(* A delivery that ended in a drain in which no call had failed keeps its  *)
(* attempt and its end, whatever fails afterwards.                         *)
(***************************************************************************)
THEOREM DamageStaysConfined == Spec => []DamageConfined
<1>1. HistoryInv => DamageConfined
  BY DEF HistoryInv, CleanInv, DamageConfined
<1> QED
  BY <1>1, InitHistoryInv, NextHistoryInv, PTL DEF Spec

-----------------------------------------------------------------------------
(* Ends.                                                                   *)

\* A delivery ends once, in one drain.
EndsOnce ==
  /\ finished \in Seq(Nat)
  /\ \A i, j \in DOMAIN finished : finished[i] = finished[j] => i = j
  /\ \A w \in Workers : pc[w] \in {"starting", "processing"} => current[w] \notin Range(finished)
  /\ \A w \in Workers : pc[w] \in {"ending", "saving"} => current[w] \in Range(finished)
  /\ \A v, w \in Workers : v # w /\ Underway(v) /\ Underway(w) => current[v] # current[w]

\* What is recorded was delivered, and what is clean ended.
Recorded ==
  /\ clean \subseteq Range(finished) /\ Range(finished) \subseteq Delivered
  /\ Len(message) <= MaxDeliveries
  /\ \A m \in transactions : \E d \in Delivered : message[d] = m
  /\ \A w \in Workers : \A m \in added[w] : \E d \in Delivered : message[d] = m

EndsInv == HistoryInv /\ EndsOnce /\ Recorded

LEMMA InitEndsInv == Init => EndsInv
<1> SUFFICES ASSUME Init PROVE EndsInv
  OBVIOUS
<1>1. Range(finished) = {} /\ Len(message) = 0
  BY DEF Init, Range
<1>2. EndsOnce
  BY <1>1 DEF Init, EndsOnce, Underway
<1>3. Recorded
  BY <1>1, BoundsAssumption DEF Init, Recorded
<1> QED
  BY <1>2, <1>3, InitHistoryInv DEF EndsInv

\* Steps that neither start nor end the processing of a delivery.
LEMMA SameEnds ==
  ASSUME EndsInv, Types', UNCHANGED <<message, finished, current>>,
         \A v \in Workers : pc'[v] \in {"starting", "processing"} => pc[v] \in {"starting", "processing"},
         \A v \in Workers : pc'[v] \in {"ending", "saving"} => pc[v] \in {"ending", "saving"},
         \A m \in transactions' : m \in transactions \/ \E v \in Workers : m \in added[v],
         \A v \in Workers : added'[v] \subseteq added[v],
         \A d \in clean' : d \in clean \/ d \in Range(finished)
  PROVE  EndsOnce' /\ Recorded'
<1>1. \A v \in Workers : Underway(v)' => Underway(v)
  BY DEF EndsInv, HistoryInv, Attribution, Types, Underway
<1>2. EndsOnce'
  BY <1>1 DEF EndsInv, EndsOnce
<1>3. Recorded'
  BY DEF EndsInv, Recorded, Delivered
<1> QED
  BY <1>2, <1>3

\* A delivery that starts has not ended.
LEMMA StartsUnended ==
  ASSUME EndsInv, NEW w \in Workers, NEW m \in Messages, NextDelivery(w, m),
         UNCHANGED <<transactions, finished, clean>>,
         \A v \in Workers \ {w} : pc'[v] = pc[v] /\ added'[v] = added[v],
         added'[w] \subseteq added[w] \cup {m},
         pc'[w] \in {"starting", "processing"}
  PROVE  EndsOnce' /\ Recorded'
<1> DEFINE d == Len(message) + 1
<1>0. Types
  BY DEF EndsInv, HistoryInv, Attribution
<1>1. /\ message' \in Seq(Messages) /\ Len(message) \in Nat /\ Len(message') = d
      /\ \A e \in Delivered : message'[e] = message[e]
      /\ Delivered' = Delivered \cup {d} /\ current'[w] = d
      /\ \A v \in Workers \ {w} : current'[v] = current[v]
  BY <1>0, NextDeliveryNumber
<1>2. d \notin Delivered /\ d <= MaxDeliveries
  BY <1>1, BoundsAssumption DEF Delivered, NextDelivery
<1>3. message'[d] = m
  BY <1>0, <1>1 DEF NextDelivery, Types
<1>4. \A v \in Workers : Underway(v) => current[v] \in Delivered
  BY DEF EndsInv, HistoryInv, Attribution, Newest
<1>5. \A v \in Workers \ {w} : Underway(v)' <=> Underway(v)
  BY DEF Underway
<1> HIDE DEF d
<1>6. EndsOnce'
  <2>1. d \notin Range(finished)
    BY <1>2 DEF EndsInv, Recorded
  <2>2. \A v \in Workers : pc'[v] \in {"starting", "processing"} => current'[v] \notin Range(finished)
    BY <1>1, <2>1 DEF EndsInv, EndsOnce
  <2>3. \A v \in Workers : pc'[v] \in {"ending", "saving"} => current'[v] \in Range(finished)
    BY <1>1 DEF EndsInv, EndsOnce
  <2>4. \A u, v \in Workers : u # v /\ Underway(u)' /\ Underway(v)' => current'[u] # current'[v]
    BY <1>1, <1>2, <1>4, <1>5 DEF EndsInv, EndsOnce
  <2> QED
    BY <2>2, <2>3, <2>4 DEF EndsInv, EndsOnce
<1>7. Recorded'
  <2>1. \A n : (\E e \in Delivered : message[e] = n) => \E e \in Delivered' : message'[e] = n
    BY <1>1
  <2>2. \E e \in Delivered' : message'[e] = m
    BY <1>1, <1>3
  <2>3. \A v \in Workers : \A n \in added'[v] : n = m \/ n \in added[v]
    OBVIOUS
  <2> QED
    BY <1>1, <1>2, <2>1, <2>2, <2>3 DEF EndsInv, Recorded
<1> QED
  BY <1>6, <1>7

\* The delivery that ends had not ended.
LEMMA EndsUnended ==
  ASSUME EndsInv, NEW w \in Workers, NEW success \in BOOLEAN, Process(w, success)
  PROVE  EndsOnce' /\ Recorded'
<1> DEFINE d == current[w]
<1>1. /\ pc[w] = "processing" /\ finished' = Append(finished, d) /\ pc' = [pc EXCEPT ![w] = "ending"]
      /\ UNCHANGED <<transactions, message, current, added, clean>>
  BY DEF Process, Goto, database, context
<1>2. /\ finished \in Seq(Nat)
      /\ pc \in [Workers -> {"idle", "draining", "starting", "processing", "ending", "saving"}]
  BY DEF EndsInv, EndsOnce, HistoryInv, Attribution, Types
<1>2a. d \in Delivered
  BY <1>1 DEF EndsInv, HistoryInv, Attribution, Newest, Underway
<1>2b. d \notin Range(finished)
  BY <1>1 DEF EndsInv, EndsOnce
<1>2c. d \in Nat
  BY <1>2a DEF EndsInv, HistoryInv, Attribution, Types, Delivered
<1> HIDE DEF d
<1>3. /\ finished' \in Seq(Nat) /\ DOMAIN finished' = DOMAIN finished \cup {Len(finished) + 1}
      /\ Len(finished) + 1 \notin DOMAIN finished
      /\ \A i \in DOMAIN finished : finished'[i] = finished[i]
      /\ finished'[Len(finished) + 1] = d
  BY <1>1, <1>2, <1>2c
<1>4. Range(finished)' = Range(finished) \cup {d}
  BY <1>3 DEF Range
<1>5. /\ pc'[w] = "ending" /\ \A v \in Workers \ {w} : pc'[v] = pc[v]
      /\ \A v \in Workers : Underway(v)' => Underway(v)
  BY <1>1, <1>2 DEF Underway
<1>6. \A v \in Workers \ {w} : pc[v] \in {"starting", "processing"} => current[v] # d
  BY <1>1 DEF EndsInv, EndsOnce, Underway, d
<1>7. \A i, j \in DOMAIN finished' : finished'[i] = finished'[j] => i = j
  <2>1. \A i \in DOMAIN finished : finished[i] # d
    BY <1>2b DEF Range
  <2> QED
    BY <1>3, <2>1 DEF EndsInv, EndsOnce
<1>8. EndsOnce'
  BY <1>1, <1>3, <1>4, <1>5, <1>6, <1>7 DEF EndsInv, EndsOnce, d
<1>9. Recorded'
  BY <1>1, <1>2a, <1>4 DEF EndsInv, Recorded, Delivered
<1> QED
  BY <1>8, <1>9

LEMMA NextEndsInv == EndsInv /\ [Next]_vars => EndsInv'
<1> SUFFICES ASSUME EndsInv, [Next]_vars PROVE EndsInv'
  OBVIOUS
<1>0. HistoryInv' /\ Types' /\ Types
  BY NextHistoryInv, NextAttribution DEF EndsInv, HistoryInv, Attribution
<1> SUFFICES EndsOnce' /\ Recorded'
  BY <1>0 DEF EndsInv
<1>1. ASSUME NEW w \in Workers, StartDrain(w) \/ EndDrain(w) \/ Crash(w)
      PROVE  EndsOnce' /\ Recorded'
  <2>1. /\ UNCHANGED <<message, finished, current, transactions, clean>>
        /\ pc' = [pc EXCEPT ![w] = "draining"] \/ pc' = [pc EXCEPT ![w] = "idle"]
        /\ added' = added \/ added' = [added EXCEPT ![w] = {}]
    BY <1>1 DEF StartDrain, EndDrain, Crash, DropContext, Goto, database, deliveries, context
  <2>2. \A v \in Workers : pc'[v] \in {"draining", "idle"} \/ pc'[v] = pc[v]
    BY <1>0, <2>1 DEF Types
  <2>3. \A v \in Workers : added'[v] \subseteq added[v]
    BY <1>0, <2>1 DEF Types
  <2> QED
    BY <1>0, <2>1, <2>2, <2>3, SameEnds
<1>2. ASSUME NEW w \in Workers, SaveStart(w) PROVE EndsOnce' /\ Recorded'
  <2>1. /\ UNCHANGED <<message, finished, current, clean>>
        /\ pc[w] = "starting" /\ pc' = [pc EXCEPT ![w] = "processing"]
        /\ \/ transactions' = transactions \cup added[w] /\ added' = [added EXCEPT ![w] = {}]
           \/ UNCHANGED <<transactions, added>>
    BY <1>2 DEF SaveStart, SaveChanges, SaveFails, Goto, database, deliveries, context
  <2>2. \A v \in Workers : pc'[v] = pc[v] \/ (pc[v] = "starting" /\ pc'[v] = "processing")
    BY <1>0, <2>1 DEF Types
  <2>3. \A v \in Workers : added'[v] \subseteq added[v]
    BY <1>0, <2>1 DEF Types
  <2> QED
    BY <1>0, <2>1, <2>2, <2>3, SameEnds
<1>3. ASSUME NEW w \in Workers, RecordEnd(w) PROVE EndsOnce' /\ Recorded'
  <2>1. /\ UNCHANGED <<message, finished, current, clean, transactions, added>>
        /\ pc[w] = "ending" /\ pc' = [pc EXCEPT ![w] = "saving"]
    BY <1>3 DEF RecordEnd, Goto, database, deliveries
  <2>2. \A v \in Workers : pc'[v] = pc[v] \/ (pc[v] = "ending" /\ pc'[v] = "saving")
    BY <1>0, <2>1 DEF Types
  <2> QED
    BY <1>0, <2>1, <2>2, SameEnds
<1>4. ASSUME NEW w \in Workers, SkipEnd(w) \/ EndThrows(w) \/ SaveEnd(w)
      PROVE  EndsOnce' /\ Recorded'
  <2>1. /\ UNCHANGED <<message, finished, current>>
        /\ pc[w] \in {"ending", "saving"} /\ pc' = [pc EXCEPT ![w] = "draining"]
        /\ \A d \in clean' : d \in clean \/ d = current[w]
        /\ \/ transactions' = transactions \cup added[w] /\ added' = [added EXCEPT ![w] = {}]
           \/ UNCHANGED <<transactions, added>>
    BY <1>4 DEF SkipEnd, EndThrows, SaveEnd, SaveChanges, SaveFails, Leave, Goto, database,
      deliveries, context
  <2>2. \A v \in Workers : pc'[v] = pc[v] \/ pc'[v] = "draining"
    BY <1>0, <2>1 DEF Types
  <2>3. \A v \in Workers : added'[v] \subseteq added[v]
    BY <1>0, <2>1 DEF Types
  <2>4. current[w] \in Range(finished)
    BY <2>1 DEF EndsInv, EndsOnce
  <2> QED
    BY <1>0, <2>1, <2>2, <2>3, <2>4, SameEnds
<1>5. ASSUME NEW w \in Workers, NEW m \in Messages, RecordStart(w, m) \/ StartThrows(w, m)
      PROVE  EndsOnce' /\ Recorded'
  <2>1. /\ NextDelivery(w, m) /\ UNCHANGED <<transactions, finished, clean>>
        /\ pc' = [pc EXCEPT ![w] = "starting"] \/ pc' = [pc EXCEPT ![w] = "processing"]
    BY <1>5 DEF RecordStart, StartThrows, Goto, database, context
  <2>2. (\A v \in Workers \ {w} : added'[v] = added[v]) /\ added'[w] \subseteq added[w] \cup {m}
    BY <1>0, <1>5 DEF RecordStart, StartThrows, context, Types
  <2>3. pc'[w] \in {"starting", "processing"} /\ \A v \in Workers \ {w} : pc'[v] = pc[v]
    BY <1>0, <2>1 DEF Types
  <2> QED
    BY <2>1, <2>2, <2>3, StartsUnended
<1>6. CASE UNCHANGED vars
  BY <1>0, <1>6, SameEnds DEF vars, database, deliveries, context
<1> QED
  BY <1>1, <1>2, <1>3, <1>4, <1>5, <1>6, EndsUnended DEF Next, Track

-----------------------------------------------------------------------------
(* Induction, as a fact about sets of natural numbers.                     *)

LEMMA SmallestMember ==
  ASSUME NEW T \in SUBSET Nat, T # {}
  PROVE  \E n \in T : \A m \in T : n <= m
<1> DEFINE R == OpToRel(<, Nat)
<1>1. IsWellFoundedOn(R, Nat)
  BY NatLessThanWellFounded
<1>2. R = {ss \in Nat \X Nat : ss[1] < ss[2]}
  BY DEF OpToRel
<1> HIDE DEF R
<1>3. PICK n \in T : \A m \in T : ~ (<<m, n>> \in R)
  BY <1>1, WFMin
<1>4. ASSUME NEW m \in T PROVE n <= m
  <2>1. <<m, n>> \in Nat \X Nat /\ <<m, n>> \notin R
    BY <1>3
  <2>2. ~ (<<m, n>>[1] < <<m, n>>[2])
    BY <1>2, <2>1
  <2>3. QED
    BY <2>2
<1>5. QED
  BY <1>4

\* A set that has 0, and with n also n + 1, has every natural number.
LEMMA SetInduction ==
  ASSUME NEW S, 0 \in S, \A n \in Nat : n \in S => n + 1 \in S
  PROVE  Nat \subseteq S
<1> SUFFICES ASSUME Nat \ S # {} PROVE FALSE
  OBVIOUS
<1>1. PICK n \in Nat \ S : \A m \in Nat \ S : n <= m
  BY SmallestMember
<1>2. n - 1 \in Nat /\ n - 1 \in S
  BY <1>1
<1>3. QED
  BY <1>1, <1>2

-----------------------------------------------------------------------------
(* What is shown.                                                          *)

Unshown == [started |-> MaxDeliveries + 1, ended |-> 0, status |-> "Pending"]

\* The loop over the attempts, one pass after the other.
LEMMA OnePassPerAttempt ==
  ASSUME NEW n \in Nat, NEW s, DOMAIN s = 1..n
  PROVE  \E shown : /\ shown[0] = Unshown
                    /\ \A k \in 1..n : shown[k] = ShowAttempt(shown[k - 1], s[k])
                    /\ shown[n] = ToCommonTransaction(s)
<1> DEFINE Pass(h, D) == [t \in SUBSET D |->
                            IF t = {} THEN Unshown
                            ELSE ShowAttempt(h[t \ {Max(t)}], s[Max(t)])]
           Reached == {k \in Nat : \E h : h = Pass(h, 1..k)}
<1> HIDE DEF ShowAttempt
<1>1. ASSUME NEW k \in Nat, NEW t \in SUBSET (1..(k + 1)), k + 1 \in t PROVE Max(t) = k + 1
  <2>1. \A x \in t : k + 1 >= x
    OBVIOUS
  <2>2. \A x \in t : (\A y \in t : x >= y) => x = k + 1
    BY <1>1
  <2> QED
    BY <1>1, <2>1, <2>2 DEF Max
<1>2. 0 \in Reached
  <2> DEFINE h == [t \in SUBSET (1..0) |-> Unshown]
  <2>1. SUBSET (1..0) = {{}}
    OBVIOUS
  <2>2. h = Pass(h, 1..0)
    BY <2>1
  <2> QED
    BY <2>2
<1>3. ASSUME NEW k \in Nat, k \in Reached PROVE k + 1 \in Reached
  <2>1. PICK g : g = Pass(g, 1..k)
    BY <1>3
  <2> DEFINE h == [t \in SUBSET (1..(k + 1)) |->
                     IF k + 1 \in t THEN ShowAttempt(g[t \ {k + 1}], s[k + 1]) ELSE g[t]]
  <2>2. ASSUME NEW t \in SUBSET (1..(k + 1)), k + 1 \notin t PROVE h[t] = g[t] /\ t \in SUBSET (1..k)
    BY <2>2
  <2> HIDE DEF h
  <2>3. ASSUME NEW t \in SUBSET (1..(k + 1)) PROVE h[t] = Pass(h, 1..(k + 1))[t]
    <3>1. CASE k + 1 \in t
      <4>1. Max(t) = k + 1
        BY <1>1, <3>1
      <4>2. h[t \ {k + 1}] = g[t \ {k + 1}]
        BY <2>2
      <4>3. h[t] = ShowAttempt(g[t \ {k + 1}], s[k + 1])
        BY <3>1 DEF h
      <4> QED
        BY <3>1, <4>1, <4>2, <4>3
    <3>2. CASE k + 1 \notin t /\ t # {}
      <4>1. h[t] = g[t] /\ t \in SUBSET (1..k)
        BY <2>2, <3>2
      <4>2. g[t] = ShowAttempt(g[t \ {Max(t)}], s[Max(t)])
        BY <2>1, <3>2, <4>1
      <4>3. h[t \ {Max(t)}] = g[t \ {Max(t)}]
        BY <2>2, <3>2
      <4> QED
        BY <3>2, <4>1, <4>2, <4>3
    <3>3. CASE t = {}
      <4>1. h[t] = g[t] /\ t \in SUBSET (1..k)
        BY <2>2, <3>3
      <4> QED
        BY <2>1, <3>3, <4>1
    <3> QED
      BY <3>1, <3>2, <3>3
  <2>4. h = [t \in SUBSET (1..(k + 1)) |-> h[t]]
    BY DEF h
  <2>5. h = Pass(h, 1..(k + 1))
    BY <2>3, <2>4
  <2> HIDE DEF Pass
  <2> QED
    BY <2>5
<1>4. n \in Reached
  <2> HIDE DEF Reached
  <2> QED
    BY <1>2, <1>3, SetInduction
<1> DEFINE iter == CHOOSE h : h = Pass(h, 1..n)
<1>5. iter = Pass(iter, 1..n)
  BY <1>4
<1>6. ToCommonTransaction(s) = iter[1..n]
  BY DEF ToCommonTransaction, FoldLeft, MapThenFoldSet, Unshown
<1> HIDE DEF iter
<1> DEFINE shown == [k \in 0..n |-> iter[1..k]]
<1>7. shown[0] = Unshown
  <2>1. 1..0 = {} /\ {} \in SUBSET (1..n)
    OBVIOUS
  <2> QED
    BY <1>5, <2>1
<1>8. ASSUME NEW k \in 1..n PROVE shown[k] = ShowAttempt(shown[k - 1], s[k])
  <2>1. k - 1 \in Nat /\ (k - 1) + 1 = k /\ k - 1 \in 0..n /\ k \in 0..n
    OBVIOUS
  <2>2. Max(1..k) = k
    <3>1. ASSUME NEW j \in Nat PROVE Max(1..(j + 1)) = j + 1
      <4>1. 1..(j + 1) \in SUBSET (1..(j + 1)) /\ j + 1 \in 1..(j + 1)
        OBVIOUS
      <4> QED
        BY <1>1, <4>1
    <3> QED
      BY <2>1, <3>1
  <2>3. k \in 1..k /\ 1..k \in SUBSET (1..n)
    OBVIOUS
  <2>4. (1..k) \ {k} = 1..(k - 1)
    <3>1. \A x : x \in (1..k) \ {k} <=> x \in 1..(k - 1)
      OBVIOUS
    <3> QED
      BY <3>1
  <2>5. iter[1..k] = ShowAttempt(iter[(1..k) \ {k}], s[k])
    BY <1>5, <2>2, <2>3
  <2> QED
    BY <2>1, <2>4, <2>5
<1>9. shown[n] = ToCommonTransaction(s)
  BY <1>6
<1> HIDE DEF shown
<1> QED
  BY <1>7, <1>8, <1>9

\* The attempts of a message whose deliveries are all clean: its deliveries, each
\* with its own end.
LEMMA AttemptsWhenClean ==
  ASSUME EndsInv, NEW m \in transactions, NEW all,
         all = {d \in Delivered : message[d] = m}, all \subseteq clean
  PROVE  /\ AttemptsOf(m) = all /\ all # {} /\ IsFiniteSet(all)
         /\ \A d \in all : attempts[d] = d
<1>1. Len(message) \in Nat /\ Attributed(attempts)
  BY DEF EndsInv, HistoryInv, Attribution, Types
<1>2. \A d \in all : d \in DOMAIN attempts /\ attempts[d] # 0 /\ d \notin lostStarts
  BY DEF EndsInv, HistoryInv, CleanInv
<1>3. \A d : d \in AttemptsOf(m) <=> d \in all
  BY <1>1, <1>2 DEF AttemptsOf, Attributed
<1>4. ASSUME NEW d \in all PROVE attempts[d] = d
  <2>1. d \in DOMAIN attempts /\ attempts[d] # 0 /\ message[d] = m
    BY <1>2
  <2>2. attempts[d] \in lostStarts /\ attempts[d] \in Delivered /\ message[attempts[d]] = m => FALSE
    BY <1>2
  <2> QED
    BY <1>1, <2>1, <2>2 DEF Attributed
<1>5. all # {}
  BY DEF EndsInv, Recorded
<1>6. IsFiniteSet(all)
  <2>1. IsFiniteSet(Delivered)
    BY <1>1, FS_Interval DEF Delivered
  <2> QED
    BY <2>1, FS_Subset
<1> QED
  BY <1>3, <1>4, <1>5, <1>6

\* The end of a delivery has a time, and no other delivery ended then.
LEMMA TimeOfEnd ==
  ASSUME EndsInv, NEW d \in Range(finished)
  PROVE  /\ EndTime(d) \in 1..Len(finished) /\ finished[EndTime(d)] = d
         /\ d \in Nat /\ d # 0 /\ d <= MaxDeliveries
<1>1. finished \in Seq(Nat) /\ Len(message) \in Nat /\ Len(message) <= MaxDeliveries
  BY DEF EndsInv, EndsOnce, Recorded, HistoryInv, Attribution, Types
<1>2. d \in 1..Len(message)
  BY DEF EndsInv, Recorded, Delivered
<1>3. d \in Nat /\ d # 0 /\ d <= MaxDeliveries
  BY <1>1, <1>2, BoundsAssumption
<1>4. \E i \in 1..Len(finished) : finished[i] = d
  BY <1>1 DEF Range
<1> QED
  BY <1>3, <1>4 DEF EndTime

\* One pass, over an attempt that got its own end.
LEMMA OnePass ==
  ASSUME NEW shown, NEW d, attempts[d] = d, d # 0
  PROVE  LET next == ShowAttempt(shown, d) IN
         /\ next.started = IF d <= shown.started THEN d ELSE shown.started
         /\ shown.ended = 0 /\ EndTime(d) >= EndTime(d)
              => next.ended = EndTime(d) /\ next.status = Status(d)
         /\ shown.ended # 0 /\ EndTime(d) >= shown.ended
              => next.ended = EndTime(d) /\ next.status = Status(d)
         /\ shown.ended # 0 /\ ~ (EndTime(d) >= shown.ended)
              => next.ended = shown.ended /\ next.status = shown.status
BY DEF ShowAttempt

\* After the loop: the first start, the last end, and the status of that end.
LEMMA AllPasses ==
  ASSUME EndsInv, NEW n \in Nat, n # 0, NEW s, DOMAIN s = 1..n,
         \A k \in 1..n : s[k] \in Range(finished) /\ attempts[s[k]] = s[k]
  PROVE  \E i, j \in 1..n :
           /\ ToCommonTransaction(s).started = s[i]
           /\ ToCommonTransaction(s).ended = EndTime(s[j])
           /\ ToCommonTransaction(s).status = Status(s[j])
           /\ \A k \in 1..n : s[i] <= s[k] /\ EndTime(s[k]) <= EndTime(s[j])
<1>1. PICK shown : /\ shown[0] = Unshown
                   /\ \A k \in 1..n : shown[k] = ShowAttempt(shown[k - 1], s[k])
                   /\ shown[n] = ToCommonTransaction(s)
  BY OnePassPerAttempt
<1>2. \A k \in 1..n : /\ EndTime(s[k]) \in Nat /\ EndTime(s[k]) # 0
                      /\ s[k] \in Nat /\ s[k] # 0 /\ s[k] <= MaxDeliveries
  <2>1. Len(finished) \in Nat
    BY DEF EndsInv, EndsOnce
  <2> QED
    BY <2>1, TimeOfEnd
<1> DEFINE Holds(k, i, j) ==
             /\ shown[k].started = s[i]
             /\ shown[k].ended = EndTime(s[j]) /\ shown[k].status = Status(s[j])
             /\ \A x \in 1..k : s[i] <= s[x] /\ EndTime(s[x]) <= EndTime(s[j])
           Right == {k \in Nat : k + 1 \in 1..n => \E i, j \in 1..(k + 1) : Holds(k + 1, i, j)}
<1>3. 0 \in Right
  <2>1. 1 \in 1..n /\ 1 - 1 = 0
    OBVIOUS
  <2>2. shown[1] = ShowAttempt(Unshown, s[1]) /\ attempts[s[1]] = s[1] /\ s[1] # 0
    BY <1>1, <1>2, <2>1
  <2>3. Unshown.started = MaxDeliveries + 1 /\ Unshown.ended = 0
    BY DEF Unshown
  <2>4. s[1] <= Unshown.started /\ EndTime(s[1]) >= EndTime(s[1])
    BY <1>2, <2>1, <2>3, BoundsAssumption
  <2>5. /\ shown[1].started = s[1] /\ shown[1].ended = EndTime(s[1])
        /\ shown[1].status = Status(s[1])
    BY <2>2, <2>3, <2>4, OnePass
  <2>6. s[1] <= s[1] /\ EndTime(s[1]) <= EndTime(s[1])
    BY <1>2, <2>1
  <2>7. \A x \in 1..1 : x = 1
    OBVIOUS
  <2>8. Holds(1, 1, 1)
    BY <2>5, <2>6, <2>7
  <2> QED
    BY <2>8
<1>4. ASSUME NEW k \in Nat, k \in Right PROVE k + 1 \in Right
  <2> SUFFICES ASSUME k + 2 \in 1..n PROVE \E i, j \in 1..(k + 2) : Holds(k + 2, i, j)
    OBVIOUS
  <2> DEFINE d == s[k + 2]
  <2>1. k + 1 \in 1..n /\ (k + 2) - 1 = k + 1
    OBVIOUS
  <2>2. PICK i, j \in 1..(k + 1) : Holds(k + 1, i, j)
    BY <1>4, <2>1
  <2>3. i \in 1..n /\ j \in 1..n
    BY <2>1
  <2>4. /\ EndTime(s[j]) \in Nat /\ EndTime(s[j]) # 0 /\ EndTime(d) \in Nat
        /\ s[i] \in Nat /\ d \in Nat /\ d # 0
    BY <1>2, <2>3
  <2>5. shown[k + 2] = ShowAttempt(shown[k + 1], d) /\ attempts[d] = d
    BY <1>1, <2>1
  <2>6. \A x \in 1..(k + 1) : x \in 1..n
    BY <2>1
  <2> DEFINE first == IF d <= s[i] THEN k + 2 ELSE i
             last == IF EndTime(d) >= EndTime(s[j]) THEN k + 2 ELSE j
  <2>7. first \in 1..(k + 2) /\ last \in 1..(k + 2)
    OBVIOUS
  <2>8. shown[k + 2].started = s[first]
    BY <2>2, <2>4, <2>5, OnePass
  <2>9. shown[k + 2].ended = EndTime(s[last]) /\ shown[k + 2].status = Status(s[last])
    <3>1. shown[k + 1].ended = EndTime(s[j]) /\ shown[k + 1].status = Status(s[j])
      BY <2>2
    <3> QED
      BY <2>4, <2>5, <3>1, OnePass
  <2>10. ASSUME NEW x \in 1..(k + 2) PROVE s[first] <= s[x] /\ EndTime(s[x]) <= EndTime(s[last])
    <3>1. x \in 1..n
      OBVIOUS
    <3>2. s[x] \in Nat /\ EndTime(s[x]) \in Nat
      BY <1>2, <3>1
    <3>3. x \in 1..(k + 1) \/ x = k + 2
      OBVIOUS
    <3>4. x \in 1..(k + 1) => s[i] <= s[x] /\ EndTime(s[x]) <= EndTime(s[j])
      BY <2>2
    <3> QED
      BY <2>4, <3>2, <3>3, <3>4
  <2> HIDE DEF first, last, d
  <2>11. Holds(k + 2, first, last)
    BY <2>8, <2>9, <2>10
  <2> QED
    BY <2>7, <2>11
<1>5. n - 1 \in Right
  <2> HIDE DEF Right
  <2>1. Nat \subseteq Right
    BY <1>3, <1>4, SetInduction
  <2> QED
    BY <2>1
<1>6. \E i, j \in 1..n : Holds(n, i, j)
  BY <1>5
<1> QED
  BY <1>1, <1>6

\* An order in which the database may return attempts: each comes once.
LEMMA EachOnce ==
  ASSUME NEW all, IsFiniteSet(all), NEW s \in SetToSeqs(all)
  PROVE  /\ Cardinality(all) \in Nat /\ DOMAIN s = 1..Cardinality(all)
         /\ \A k \in 1..Cardinality(all) : s[k] \in all
         /\ \A d \in all : \E k \in 1..Cardinality(all) : s[k] = d
<1> DEFINE n == Cardinality(all)
<1>1. n \in Nat
  BY FS_CardinalityType
<1>2. s \in [1..n -> all] /\ \A i, j \in 1..n : i # j => s[i] # s[j]
  BY DEF SetToSeqs
<1>3. s \in Injection(1..n, all)
  BY <1>2 DEF Injection, IsInjective
<1>4. Cardinality(1..n) = n
  BY <1>1, FS_Interval
<1>5. s \in Surjection(1..n, all)
  BY <1>3, <1>4, FS_Injection
<1> QED
  BY <1>1, <1>2, <1>5 DEF Surjection

(***************************************************************************)
(* When the deliveries of a message were recorded without a failure, the   *)
(* dashboard shows when the first of them started, when the last one       *)
(* ended, and how that one ended, in whatever order the attempts are read. *)
(***************************************************************************)
THEOREM OutcomeAlwaysShown == Spec => []OutcomeShown
<1>1. ASSUME EndsInv PROVE OutcomeShown
  <2> SUFFICES ASSUME NEW m \in transactions,
                      {d \in Delivered : message[d] = m} \subseteq clean,
                      NEW s \in SetToSeqs(AttemptsOf(m))
               PROVE  LET all == {d \in Delivered : message[d] = m}
                          last == CHOOSE d \in all : \A e \in all : EndTime(e) <= EndTime(d)
                          shown == ToCommonTransaction(s)
                      IN  /\ shown.started = Min(all)
                          /\ shown.ended = EndTime(last)
                          /\ shown.status = Status(last)
    BY DEF OutcomeShown
  <2> DEFINE all == {d \in Delivered : message[d] = m}
             n == Cardinality(all)
  <2>1. /\ AttemptsOf(m) = all /\ all # {} /\ IsFiniteSet(all) /\ all \subseteq clean
        /\ \A d \in all : attempts[d] = d
    BY <1>1, AttemptsWhenClean
  <2> HIDE DEF all
  <2>2. /\ n \in Nat /\ DOMAIN s = 1..n /\ (\A k \in 1..n : s[k] \in all)
        /\ \A d \in all : \E k \in 1..n : s[k] = d
    BY <2>1, EachOnce
  <2> HIDE DEF n
  <2>3. n # 0
    BY <2>1, <2>2
  <2>4. \A d \in all : d \in Range(finished)
    BY <1>1, <2>1 DEF EndsInv, Recorded
  <2>5. PICK i, j \in 1..n :
           /\ ToCommonTransaction(s).started = s[i]
           /\ ToCommonTransaction(s).ended = EndTime(s[j])
           /\ ToCommonTransaction(s).status = Status(s[j])
           /\ \A k \in 1..n : s[i] <= s[k] /\ EndTime(s[k]) <= EndTime(s[j])
    BY <1>1, <2>1, <2>2, <2>3, <2>4, AllPasses
  <2>6. ASSUME NEW d \in all
        PROVE  /\ EndTime(d) \in Nat /\ finished[EndTime(d)] = d /\ d \in Nat
               /\ s[i] <= d /\ EndTime(d) <= EndTime(s[j])
    <3>1. Len(finished) \in Nat
      BY <1>1 DEF EndsInv, EndsOnce
    <3>2. /\ EndTime(d) \in 1..Len(finished) /\ finished[EndTime(d)] = d /\ d \in Nat
      BY <1>1, <2>4, TimeOfEnd
    <3>3. s[i] <= d /\ EndTime(d) <= EndTime(s[j])
      BY <2>2, <2>5
    <3> QED
      BY <3>1, <3>2, <3>3
  <2>7. s[i] \in all /\ s[j] \in all
    BY <2>2
  <2>8. Min(all) = s[i]
    BY <2>6, <2>7 DEF Min
  <2>9. (CHOOSE d \in all : \A e \in all : EndTime(e) <= EndTime(d)) = s[j]
    <3>1. ASSUME NEW d \in all, \A e \in all : EndTime(e) <= EndTime(d) PROVE d = s[j]
      <4>1. EndTime(d) = EndTime(s[j])
        BY <2>6, <2>7, <3>1
      <4> QED
        BY <2>6, <2>7, <4>1
    <3>2. \A e \in all : EndTime(e) <= EndTime(s[j])
      BY <2>6
    <3> QED
      BY <2>7, <3>1, <3>2
  <2> QED
    BY <2>5, <2>8, <2>9 DEF all
<1> QED
  BY <1>1, InitEndsInv, NextEndsInv, PTL DEF Spec

=============================================================================
