--------------------- MODULE KeyedCoalescingWorkerProofs ---------------------
(***************************************************************************)
(* Theorems about the keyed coalescing worker, for every set of keys and   *)
(* of drainers and every number of requests.                               *)
(***************************************************************************)
EXTENDS KeyedCoalescingWorker, TLAPS

-----------------------------------------------------------------------------
(* The queue: its elements, and that none of them is there twice           *)

Elements(q) == {q[i] : i \in DOMAIN q}
Unique(q) == \A i, j \in DOMAIN q : q[i] = q[j] => i = j

LEMMA Offered ==
  ASSUME NEW q \in Seq(Keys), NEW k \in Keys, k \notin Elements(q), Unique(q)
  PROVE  /\ Append(q, k) \in Seq(Keys)
         /\ Elements(Append(q, k)) = Elements(q) \cup {k}
         /\ Unique(Append(q, k))
<1> DEFINE n == Len(q)
           r == Append(q, k)
<1>1. /\ n \in Nat /\ DOMAIN q = 1 .. n
      /\ r \in Seq(Keys) /\ DOMAIN r = 1 .. n + 1
      /\ \A i \in 1 .. n : r[i] = q[i]
      /\ r[n + 1] = k
  OBVIOUS
<1> HIDE DEF n, r
<1>2. Elements(r) = Elements(q) \cup {k}
  <2>1. ASSUME NEW i \in DOMAIN r
        PROVE  r[i] \in Elements(q) \cup {k}
    <3>1. i \in DOMAIN q \/ i = n + 1
      BY <1>1
    <3> QED
      BY <1>1, <3>1 DEF Elements
  <2>2. ASSUME NEW i \in DOMAIN q
        PROVE  q[i] \in Elements(r)
    <3>1. i \in DOMAIN r /\ r[i] = q[i]
      BY <1>1
    <3> QED
      BY <3>1 DEF Elements
  <2>3. k \in Elements(r)
    <3>1. n + 1 \in DOMAIN r
      BY <1>1
    <3> QED
      BY <1>1, <3>1 DEF Elements
  <2> QED
    BY <2>1, <2>2, <2>3 DEF Elements
<1>3. Unique(r)
  <2> SUFFICES ASSUME NEW i \in DOMAIN r, NEW j \in DOMAIN r, r[i] = r[j]
               PROVE  i = j
    BY DEF Unique
  <2>1. \A m \in 1 .. n : r[m] # k
    BY <1>1 DEF Elements
  <2>2. CASE i = n + 1 \/ j = n + 1
    BY <1>1, <2>1, <2>2
  <2>3. CASE i \in 1 .. n /\ j \in 1 .. n
    BY <1>1, <2>3 DEF Unique
  <2> QED
    BY <1>1, <2>2, <2>3
<1> QED
  BY <1>1, <1>2, <1>3 DEF r

LEMMA Taken ==
  ASSUME NEW q \in Seq(Keys), q # << >>, Unique(q)
  PROVE  /\ Head(q) \in Elements(q) /\ Head(q) \in Keys
         /\ Tail(q) \in Seq(Keys)
         /\ Elements(Tail(q)) = Elements(q) \ {Head(q)}
         /\ Unique(Tail(q))
<1> DEFINE n == Len(q)
           r == Tail(q)
           h == Head(q)
<1>1. /\ n \in Nat \ {0} /\ DOMAIN q = 1 .. n
      /\ r \in Seq(Keys) /\ DOMAIN r = 1 .. n - 1
      /\ \A i \in 1 .. n - 1 : r[i] = q[i + 1]
      /\ h = q[1] /\ h \in Keys
  OBVIOUS
<1> HIDE DEF n, r, h
<1>2. \A i \in DOMAIN r : i + 1 \in DOMAIN q /\ r[i] = q[i + 1] /\ i + 1 # 1
  BY <1>1
<1>3. 1 \in DOMAIN q
  BY <1>1
<1>4. Elements(r) = Elements(q) \ {h}
  <2>1. ASSUME NEW i \in DOMAIN r
        PROVE  r[i] \in Elements(q) \ {h}
    BY <1>1, <1>2, <1>3 DEF Elements, Unique
  <2>2. ASSUME NEW i \in DOMAIN q, q[i] # h
        PROVE  q[i] \in Elements(r)
    <3>1. i - 1 \in DOMAIN r /\ r[i - 1] = q[i]
      BY <1>1, <2>2
    <3> QED
      BY <3>1 DEF Elements
  <2> QED
    BY <2>1, <2>2 DEF Elements
<1>5. Unique(r)
  <2> SUFFICES ASSUME NEW i \in DOMAIN r, NEW j \in DOMAIN r, r[i] = r[j]
               PROVE  i = j
    BY DEF Unique
  <2>1. i + 1 = j + 1
    BY <1>2 DEF Unique
  <2> QED
    BY <1>1, <2>1
<1> QED
  BY <1>1, <1>3, <1>4, <1>5 DEF r, h, Elements

-----------------------------------------------------------------------------
(* Type correctness                                                        *)

\* The fiber's state and the callers' keep their types in every step.
LEMMA TypeNext == TypeOK /\ [Next]_vars => TypeOK'
<1> SUFFICES ASSUME TypeOK, [Next]_vars
             PROVE  TypeOK'
  OBVIOUS
<1> USE KeysAssumption
<1>1. ASSUME NEW k \in Keys, Enqueue(k)
      PROVE  TypeOK'
  <2>1. asked[k] + 1 \in Requests /\ asked' \in [Keys -> 0 .. MaxRequests]
    BY <1>1 DEF Enqueue, TypeOK, Requests
  <2>2. latest' \in [Keys -> SUBSET Requests]
    BY <1>1, <2>1 DEF Enqueue, TypeOK
  <2>3. queue' \in Seq(Keys) /\ queued' \subseteq Keys
    <3>1. Append(queue, k) \in Seq(Keys)
      BY DEF TypeOK
    <3>2. CASE Busy(k)
      BY <1>1, <3>2 DEF Enqueue, TypeOK
    <3>3. CASE ~Busy(k)
      BY <1>1, <3>1, <3>3 DEF Enqueue, TypeOK
    <3> QED
      BY <3>2, <3>3
  <2> QED
    BY <1>1, <2>1, <2>2, <2>3 DEF Enqueue, TypeOK, fiber
<1>2. ASSUME NEW w \in Waiters, NEW k \in Keys, DrainKey(w, k)
      PROVE  TypeOK'
  BY <1>2 DEF DrainKey, TypeOK, state, fiber
<1>3. ASSUME NEW w \in Waiters, DrainReturns(w)
      PROVE  TypeOK'
  BY <1>3 DEF DrainReturns, TypeOK, NotWaiting, state, fiber
<1>4. CASE Take
  <2>1. Head(queue) \in Keys /\ Tail(queue) \in Seq(Keys)
    BY <1>4 DEF Take, TypeOK
  <2> QED
    BY <1>4, <2>1 DEF Take, TypeOK, state
<1>5. CASE Claim
  <2>1. key \in Keys
    BY <1>5 DEF Claim, TypeOK
  <2>2. CASE NoValue
    BY <1>5, <2>1, <2>2 DEF Claim, TypeOK
  <2>3. CASE ~NoValue
    <3>1. /\ batch' = latest[key] /\ latest' = [latest EXCEPT ![key] = {}]
          /\ queued' = queued \ {key} /\ active' = active \cup {key}
          /\ pc' = "process" /\ key' = key /\ latest[key] # {}
          /\ UNCHANGED <<asked, queue, settled, waiting>>
      BY <1>5, <2>3 DEF Claim, NoValue, WithoutValue
    <3>2. /\ batch' \in SUBSET Requests /\ batch' # {}
          /\ latest' \in [Keys -> SUBSET Requests]
      BY <2>1, <3>1 DEF TypeOK
    <3> QED
      BY <2>1, <3>1, <3>2 DEF TypeOK
  <2> QED
    BY <2>2, <2>3
<1>6. ASSUME ProcessSucceeds \/ ProcessFails
      PROVE  TypeOK'
  BY <1>6 DEF ProcessSucceeds, ProcessFails, SettleBatch, TypeOK, state
<1>7. CASE ProcessNext
  <2>1. key \in Keys
    BY <1>7 DEF ProcessNext, TypeOK
  <2>2. CASE NoValue
    BY <1>7, <2>1, <2>2 DEF ProcessNext, TypeOK
  <2>3. CASE ~NoValue
    <3>1. /\ batch' = latest[key] /\ latest' = [latest EXCEPT ![key] = {}]
          /\ pc' = "process" /\ key' = key /\ latest[key] # {}
          /\ UNCHANGED <<asked, queue, queued, active, settled, waiting>>
      BY <1>7, <2>3 DEF ProcessNext, NoValue, WithoutValue
    <3>2. /\ batch' \in SUBSET Requests /\ batch' # {}
          /\ latest' \in [Keys -> SUBSET Requests]
      BY <2>1, <3>1 DEF TypeOK
    <3> QED
      BY <2>1, <3>1, <3>2 DEF TypeOK
  <2> QED
    BY <2>2, <2>3
<1>8. CASE CleanupFailedKey
  BY <1>8 DEF CleanupFailedKey, TypeOK
<1>9. CASE Requeue
  <2>1. Append(queue, key) \in Seq(Keys)
    BY <1>9 DEF Requeue, TypeOK
  <2> QED
    BY <1>9, <2>1 DEF Requeue, TypeOK, state
<1>10. CASE UNCHANGED vars
  BY <1>10 DEF vars, state, fiber, TypeOK
<1> QED
  BY <1>1, <1>2, <1>3, <1>4, <1>5, <1>6, <1>7, <1>8, <1>9, <1>10
     DEF Next, FiberStep

\* Every variable of the worker keeps its type, and the fiber holds a value
\* exactly while it processes one.
THEOREM TypeCorrect == Spec => []TypeOK
<1>1. Init => TypeOK
  BY KeysAssumption DEF Init, TypeOK, NotWaiting
<1> QED
  BY <1>1, TypeNext, PTL DEF Spec

-----------------------------------------------------------------------------
(* No key is forgotten                                                     *)

\* NothingForgotten is inductive, given the types.
LEMMA ForgottenNext == TypeOK /\ NothingForgotten /\ [Next]_vars => NothingForgotten'
<1> SUFFICES ASSUME TypeOK, NothingForgotten, [Next]_vars
             PROVE  NothingForgotten'
  OBVIOUS
<1> USE KeysAssumption
<1>0. /\ queue \in Seq(Keys) /\ Unique(queue)
      /\ queued = Elements(queue) \cup (IF pc \in {"claim", "requeue"} THEN {key} ELSE {})
      /\ pc \in {"claim", "requeue"} => key \notin Elements(queue)
  BY DEF TypeOK, NothingForgotten, Elements, Unique
<1>1. ASSUME Unique(queue'),
             queued' = Elements(queue')
                         \cup (IF pc' \in {"claim", "requeue"} THEN {key'} ELSE {}),
             pc' \in {"claim", "requeue"} => key' \notin Elements(queue'),
             \A k \in Keys : latest'[k] # {} => k \in queued' \/ k \in active',
             \A k \in queued' : latest'[k] # {},
             active' = IF pc' \in {"process", "next", "cleanup"} THEN {key'} ELSE {},
             queued' \cap active' = {}
      PROVE  NothingForgotten'
  BY <1>1 DEF NothingForgotten, Elements, Unique, Busy
<1>2. ASSUME NEW k \in Keys, Enqueue(k)
      PROVE  NothingForgotten'
  <2>1. /\ latest'[k] # {}
        /\ \A j \in Keys \ {k} : latest'[j] = latest[j]
        /\ UNCHANGED <<active, pc, key>>
    BY <1>2 DEF Enqueue, TypeOK, fiber
  <2>2. CASE Busy(k)
    <3>1. UNCHANGED <<queue, queued>>
      BY <1>2, <2>2 DEF Enqueue
    <3> QED
      BY <2>1, <2>2, <3>1, <1>0, <1>1 DEF NothingForgotten, TypeOK, Busy
  <2>3. CASE ~Busy(k)
    <3>1. k \notin Elements(queue)
      BY <1>0, <2>3 DEF Busy
    <3>2. /\ Elements(queue') = Elements(queue) \cup {k} /\ Unique(queue')
          /\ queued' = queued \cup {k}
      BY <1>0, <1>2, <2>3, <3>1, Offered DEF Enqueue
    <3>3. pc \in {"claim", "requeue"} => key # k
      BY <1>0, <2>3 DEF Busy
    <3> QED
      BY <1>0, <1>1, <2>1, <2>3, <3>2, <3>3 DEF NothingForgotten, TypeOK, Busy
  <2> QED
    BY <2>2, <2>3
<1>3. ASSUME NEW w \in Waiters, NEW k \in Keys, DrainKey(w, k)
      PROVE  NothingForgotten'
  BY <1>3 DEF DrainKey, NothingForgotten, Busy, state, fiber
<1>4. ASSUME NEW w \in Waiters, DrainReturns(w)
      PROVE  NothingForgotten'
  BY <1>4 DEF DrainReturns, NothingForgotten, Busy, state, fiber
<1>5. CASE Take
  <2>1. /\ key' = Head(queue) /\ key' \in Elements(queue)
        /\ Elements(queue') = Elements(queue) \ {key'} /\ Unique(queue')
    BY <1>0, <1>5, Taken DEF Take
  <2>2. pc = "take" /\ pc' = "claim" /\ UNCHANGED <<latest, queued, active>>
    BY <1>5 DEF Take, state
  <2> QED
    BY <1>0, <1>1, <2>1, <2>2 DEF NothingForgotten, Busy
<1>6. CASE Claim
  <2>1. /\ key \in Keys /\ pc = "claim" /\ queued' = queued \ {key}
        /\ UNCHANGED queue /\ latest[key] # {} /\ active = {}
    BY <1>0, <1>6 DEF Claim, TypeOK, NothingForgotten
  <2>2. queued' = Elements(queue')
    BY <1>0, <2>1
  <2>3. /\ pc' = "process" /\ key' = key /\ active' = {key}
        /\ latest' = [latest EXCEPT ![key] = {}]
    BY <1>6, <2>1 DEF Claim, NoValue, WithoutValue
  <2>4. \A k \in Keys \ {key} : latest'[k] = latest[k]
    BY <2>3 DEF TypeOK
  <2>5. latest'[key] = {}
    BY <2>1, <2>3 DEF TypeOK
  <2> QED
    BY <1>0, <1>1, <2>1, <2>2, <2>3, <2>4, <2>5 DEF NothingForgotten, Busy, TypeOK
<1>7. ASSUME ProcessSucceeds \/ ProcessFails
      PROVE  NothingForgotten'
  BY <1>0, <1>1, <1>7
     DEF ProcessSucceeds, ProcessFails, NothingForgotten, Busy, state
<1>8. CASE ProcessNext
  <2>1. /\ key \in Keys /\ pc = "next" /\ active = {key}
        /\ UNCHANGED <<queue, queued>> /\ key \notin queued
    BY <1>8 DEF ProcessNext, TypeOK, NothingForgotten
  <2>2. CASE NoValue
    BY <1>0, <1>1, <1>8, <2>1, <2>2
       DEF ProcessNext, NoValue, NothingForgotten, Busy
  <2>3. CASE ~NoValue
    <3>1. /\ pc' = "process" /\ UNCHANGED <<active, key>>
          /\ latest' = [latest EXCEPT ![key] = {}]
      BY <1>8, <2>3 DEF ProcessNext, WithoutValue
    <3>2. \A k \in Keys \ {key} : latest'[k] = latest[k]
      BY <3>1 DEF TypeOK
    <3> QED
      BY <1>0, <1>1, <2>1, <3>1, <3>2 DEF NothingForgotten, Busy, TypeOK
  <2> QED
    BY <2>2, <2>3
<1>9. CASE CleanupFailedKey
  <2>1. /\ key \in Keys /\ pc = "cleanup" /\ active = {key} /\ active' = {}
        /\ UNCHANGED <<queue, latest>> /\ key \notin queued
    BY <1>9 DEF CleanupFailedKey, TypeOK, NothingForgotten
  <2>2. CASE NeedsRequeue
    <3>1. /\ queued' = queued \cup {key} /\ pc' = "requeue" /\ key' = key
          /\ latest[key] # {}
      BY <1>9, <2>2 DEF CleanupFailedKey, NeedsRequeue
    <3> QED
      BY <1>0, <1>1, <2>1, <3>1 DEF NothingForgotten, Busy
  <2>3. CASE ~NeedsRequeue
    <3>1. pc' = "take" /\ UNCHANGED queued /\ latest[key] = {}
      BY <1>9, <2>1, <2>3 DEF CleanupFailedKey, NeedsRequeue
    <3> QED
      BY <1>0, <1>1, <2>1, <3>1 DEF NothingForgotten, Busy
  <2> QED
    BY <2>2, <2>3
<1>10. CASE Requeue
  <2>1. key \in Keys /\ pc = "requeue" /\ pc' = "take" /\ UNCHANGED state
    BY <1>10 DEF Requeue, TypeOK
  <2>2. Elements(queue') = Elements(queue) \cup {key} /\ Unique(queue')
    BY <1>0, <1>10, <2>1, Offered DEF Requeue
  <2> QED
    BY <1>0, <1>1, <2>1, <2>2 DEF NothingForgotten, Busy, state
<1>11. CASE UNCHANGED vars
  BY <1>11 DEF vars, state, fiber, NothingForgotten, Busy
<1> QED
  BY <1>2, <1>3, <1>4, <1>5, <1>6, <1>7, <1>8, <1>9, <1>10, <1>11
     DEF Next, FiberStep

\* No key that has a value is ever out of the queue and out of the fiber's
\* hands, also not when processing fails, and no key is queued twice.
THEOREM NothingForgottenCorrect == Spec => []NothingForgotten
<1>1. Init => NothingForgotten
  BY DEF Init, NothingForgotten
<1> QED
  BY <1>1, TypeCorrect, ForgottenNext, PTL DEF Spec

-----------------------------------------------------------------------------
(* Every request is in one place                                           *)

LEMMA AccountedNext ==
  TypeOK /\ NothingForgotten /\ RequestsAccounted /\ [Next]_vars => RequestsAccounted'
<1> SUFFICES ASSUME TypeOK, NothingForgotten, RequestsAccounted, [Next]_vars
             PROVE  RequestsAccounted'
  OBVIOUS
<1> USE KeysAssumption
<1> DEFINE Accounted(k) ==
             /\ 1 .. asked[k] = settled[k] \cup latest[k] \cup InHand(k)
             /\ settled[k] \cap latest[k] = {}
             /\ InHand(k) \cap (settled[k] \cup latest[k]) = {}
           Waits(w) == waiting[w] # NotWaiting =>
             /\ waiting[w].key \in Keys
             /\ waiting[w].asked <= asked[waiting[w].key]
<1>0. (\A k \in Keys : Accounted(k)) /\ (\A w \in Waiters : Waits(w))
  BY DEF RequestsAccounted
<1>1. ASSUME \A k \in Keys : Accounted(k)', \A w \in Waiters : Waits(w)'
      PROVE  RequestsAccounted'
  BY <1>1 DEF RequestsAccounted
<1>2. ASSUME NEW k \in Keys, Enqueue(k)
      PROVE  RequestsAccounted'
  <2>1. /\ asked[k] \in Nat /\ asked' = [asked EXCEPT ![k] = asked[k] + 1]
        /\ latest' = [latest EXCEPT ![k] = latest[k] \cup {asked[k] + 1}]
        /\ UNCHANGED <<key, batch, settled, waiting>>
        /\ asked \in [Keys -> Nat] /\ DOMAIN latest = Keys
    BY <1>2 DEF Enqueue, TypeOK, fiber
  <2>2. \A j \in Keys : InHand(j)' = InHand(j)
    BY <2>1 DEF InHand
  <2>3. /\ 1 .. asked'[k] = 1 .. asked[k] \cup {asked[k] + 1}
        /\ asked[k] + 1 \notin 1 .. asked[k]
        /\ latest'[k] = latest[k] \cup {asked[k] + 1}
    BY <2>1
  <2>4. Accounted(k)'
    BY <1>0, <2>1, <2>2, <2>3
  <2>5. ASSUME NEW j \in Keys \ {k}
        PROVE  Accounted(j)'
    <3>1. asked'[j] = asked[j] /\ latest'[j] = latest[j]
      BY <2>1
    <3> QED
      BY <1>0, <2>1, <2>2, <3>1
  <2>6. ASSUME NEW w \in Waiters
        PROVE  Waits(w)'
    <3>1. waiting[w].asked \in Nat
      BY DEF TypeOK
    <3>2. \A j \in Keys : asked[j] \in Nat /\ asked'[j] \in Nat /\ asked[j] <= asked'[j]
      BY <2>1
    <3> QED
      BY <1>0, <2>1, <3>1, <3>2
  <2> QED
    BY <1>1, <2>4, <2>5, <2>6
<1>3. ASSUME NEW w \in Waiters, NEW k \in Keys, DrainKey(w, k)
      PROVE  RequestsAccounted'
  <2>1. \A j \in Keys : Accounted(j)'
    BY <1>0, <1>3 DEF DrainKey, state, fiber, InHand
  <2>2. ASSUME NEW v \in Waiters
        PROVE  Waits(v)'
    <3>1. asked[k] \in Nat /\ asked[k] <= asked[k]
      BY DEF TypeOK
    <3> QED
      BY <1>0, <1>3, <3>1 DEF DrainKey, TypeOK
  <2> QED
    BY <1>1, <2>1, <2>2
<1>4. ASSUME NEW w \in Waiters, DrainReturns(w)
      PROVE  RequestsAccounted'
  <2>1. \A j \in Keys : Accounted(j)'
    BY <1>0, <1>4 DEF DrainReturns, state, fiber, InHand
  <2>2. ASSUME NEW v \in Waiters
        PROVE  Waits(v)'
    BY <1>0, <1>4 DEF DrainReturns, TypeOK
  <2> QED
    BY <1>1, <2>1, <2>2
<1>5. ASSUME UNCHANGED <<asked, waiting, latest, settled, batch>>,
             pc # "process", pc' # "process"
      PROVE  RequestsAccounted'
  <2>1. batch = {} /\ batch' = {}
    BY <1>5 DEF TypeOK
  <2>2. \A k \in Keys : InHand(k) = {} /\ InHand(k)' = {}
    BY <2>1 DEF InHand
  <2> QED
    BY <1>0, <1>1, <1>5, <2>2
<1>6. ASSUME key \in Keys, batch = {}, pc # "process",
             batch' = latest[key], latest' = [latest EXCEPT ![key] = {}],
             UNCHANGED <<asked, waiting, settled, key>>
      PROVE  RequestsAccounted'
  <2>1. ASSUME NEW k \in Keys
        PROVE  Accounted(k)'
    <3>1. InHand(k) = {}
      BY <1>6 DEF InHand
    <3>2. CASE k = key
      BY <1>0, <1>6, <3>1, <3>2 DEF InHand, TypeOK
    <3>3. CASE k # key
      BY <1>0, <1>6, <3>1, <3>3 DEF InHand, TypeOK
    <3> QED
      BY <3>2, <3>3
  <2> QED
    BY <1>0, <1>1, <1>6, <2>1
<1>7. CASE Take
  BY <1>5, <1>7 DEF Take, state
<1>8. CASE Claim
  <2>1. CASE NoValue
    BY <1>5, <1>8, <2>1 DEF Claim
  <2>2. CASE ~NoValue
    BY <1>6, <1>8, <2>2 DEF Claim, WithoutValue, TypeOK
  <2> QED
    BY <2>1, <2>2
<1>9. ASSUME ProcessSucceeds \/ ProcessFails
      PROVE  RequestsAccounted'
  <2>1. /\ key \in Keys /\ batch' = {}
        /\ settled' = [settled EXCEPT ![key] = settled[key] \cup batch]
        /\ UNCHANGED <<asked, waiting, latest, key>>
    BY <1>9 DEF ProcessSucceeds, ProcessFails, SettleBatch, TypeOK, state
  <2>2. ASSUME NEW k \in Keys
        PROVE  Accounted(k)'
    <3>1. InHand(k)' = {}
      BY <2>1 DEF InHand
    <3>2. CASE k = key
      BY <1>0, <2>1, <3>1, <3>2 DEF InHand, TypeOK
    <3>3. CASE k # key
      BY <1>0, <2>1, <3>1, <3>3 DEF InHand, TypeOK
    <3> QED
      BY <3>2, <3>3
  <2> QED
    BY <1>0, <1>1, <2>1, <2>2
<1>10. CASE ProcessNext
  <2>1. CASE NoValue
    BY <1>5, <1>10, <2>1 DEF ProcessNext
  <2>2. CASE ~NoValue
    BY <1>6, <1>10, <2>2 DEF ProcessNext, WithoutValue, TypeOK
  <2> QED
    BY <2>1, <2>2
<1>11. CASE CleanupFailedKey
  BY <1>5, <1>11 DEF CleanupFailedKey
<1>12. CASE Requeue
  BY <1>5, <1>12 DEF Requeue, state
<1>13. CASE UNCHANGED vars
  BY <1>0, <1>1, <1>13 DEF vars, state, fiber, InHand
<1> QED
  BY <1>2, <1>3, <1>4, <1>7, <1>8, <1>9, <1>10, <1>11, <1>12, <1>13
     DEF Next, FiberStep

\* No request is lost and none is processed twice: each is settled, merged into
\* its key's value, or in the value being processed.
THEOREM AccountedCorrect == Spec => []RequestsAccounted
<1>1. Init => RequestsAccounted
  BY DEF Init, RequestsAccounted, InHand
<1> QED
  BY <1>1, TypeCorrect, NothingForgottenCorrect, AccountedNext, PTL DEF Spec

-----------------------------------------------------------------------------
(* The worker keeps its promise                                            *)

LEMMA WorkStep ==
  TypeOK /\ NothingForgotten /\ RequestsAccounted /\ [Next]_vars
    => [Work!Next]_(Work!vars)
<1> SUFFICES ASSUME TypeOK, NothingForgotten, RequestsAccounted, [Next]_vars
             PROVE  Work!Next \/ UNCHANGED Work!vars
  OBVIOUS
<1> USE KeysAssumption
<1>1. ASSUME NEW k \in Keys, Enqueue(k)
      PROVE  Work!Ask(k)
  BY <1>1 DEF Enqueue, Work!Ask, fiber
<1>2. ASSUME NEW w \in Waiters, NEW k \in Keys, DrainKey(w, k)
      PROVE  Work!Wait(w, k)
  BY <1>2 DEF DrainKey, Work!Wait, state, fiber, NotWaiting, Work!NotWaiting
<1>3. ASSUME NEW w \in Waiters, DrainReturns(w)
      PROVE  Work!GetThrough(w)
  <2> DEFINE k == waiting[w].key
  <2>1. /\ k \in Keys /\ waiting[w].asked <= asked[k]
        /\ asked[k] \in Nat /\ waiting[w].asked \in Nat
        /\ latest[k] = {} /\ k \notin active
    BY <1>3 DEF DrainReturns, Drained, RequestsAccounted, TypeOK
  <2> HIDE DEF k
  <2>2. InHand(k) = {}
    <3>1. pc = "process" => key # k
      BY <2>1 DEF NothingForgotten
    <3> QED
      BY <3>1 DEF InHand, TypeOK
  <2>3. 1 .. asked[k] = settled[k]
    BY <2>1, <2>2 DEF RequestsAccounted
  <2>4. 1 .. waiting[w].asked \subseteq 1 .. asked[k]
    BY <2>1
  <2>5. 1 .. waiting[w].asked \subseteq settled[waiting[w].key]
    BY <2>3, <2>4 DEF k
  <2> QED
    BY <1>3, <2>5
       DEF DrainReturns, Work!GetThrough, state, fiber, NotWaiting, Work!NotWaiting
<1>4. ASSUME pc # "process", pc' # "process",
             UNCHANGED <<asked, latest, batch, settled, waiting>>
      PROVE  UNCHANGED Work!vars
  BY <1>4 DEF Work!vars
<1>5. ASSUME pc # "process", pc' = "process", key \in Keys, ~NoValue,
             batch' = latest[key], latest' = WithoutValue,
             UNCHANGED <<asked, settled, waiting, key>>
      PROVE  Work!Start(key)
  BY <1>5 DEF Work!Start, NoValue, WithoutValue
<1>6. ASSUME ProcessSucceeds \/ ProcessFails
      PROVE  Work!Settle
  <2>1. key \in Keys /\ key # NoKey
    BY <1>6 DEF ProcessSucceeds, ProcessFails, TypeOK
  <2> QED
    BY <1>6, <2>1 DEF ProcessSucceeds, ProcessFails, SettleBatch, Work!Settle, state
<1>7. CASE Take
  BY <1>4, <1>7 DEF Take, state
<1>8. CASE Claim
  <2>1. key \in Keys
    BY <1>8 DEF Claim, TypeOK
  <2>2. NoValue => UNCHANGED Work!vars
    BY <1>4, <1>8 DEF Claim
  <2>3. ~NoValue => Work!Start(key)
    BY <1>5, <1>8, <2>1 DEF Claim
  <2> QED
    BY <2>1, <2>2, <2>3 DEF Work!Next
<1>9. CASE ProcessNext
  <2>1. key \in Keys
    BY <1>9 DEF ProcessNext, TypeOK
  <2>2. NoValue => UNCHANGED Work!vars
    BY <1>4, <1>9 DEF ProcessNext
  <2>3. ~NoValue => Work!Start(key)
    BY <1>5, <1>9, <2>1 DEF ProcessNext
  <2> QED
    BY <2>1, <2>2, <2>3 DEF Work!Next
<1>10. CASE CleanupFailedKey
  BY <1>4, <1>10 DEF CleanupFailedKey
<1>11. CASE Requeue
  BY <1>4, <1>11 DEF Requeue, state
<1>12. CASE UNCHANGED vars
  BY <1>12 DEF vars, state, fiber, Work!vars
<1> QED
  BY <1>1, <1>2, <1>3, <1>6, <1>7, <1>8, <1>9, <1>10, <1>11, <1>12
     DEF Next, FiberStep, Work!Next

\* The worker implements its promise: batches are processed one at a time, no
\* request is lost, and a drain returns only when what was asked is settled.
THEOREM Refinement == Spec => ImplementsWork
<1>1. Init => Work!Init
  BY DEF Init, Work!Init, NotWaiting, Work!NotWaiting
<1> QED
  BY <1>1, TypeCorrect, NothingForgottenCorrect, AccountedCorrect, WorkStep, PTL
     DEF Spec, ImplementsWork, Work!Spec

=============================================================================
