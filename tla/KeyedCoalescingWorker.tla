------------------------ MODULE KeyedCoalescingWorker ------------------------
(***************************************************************************)
(* KeyedCoalescingWorker.ts: an unbounded queue of keys, the latest value  *)
(* per key, and one fiber that takes keys from the queue.  Every           *)
(* transaction on the worker's state is one action; the fiber's steps      *)
(* between two transactions (taking a key, processing a value, offering a  *)
(* key again) are actions of their own, so enqueues and drains fall in     *)
(* between.                                                                *)
(*                                                                         *)
(* The merge function is left open: a value is the set of the requests     *)
(* merged into it, numbered per key.                                       *)
(***************************************************************************)
EXTENDS Integers, Sequences

CONSTANTS
  Keys,
  Waiters,       \* callers of drainKey
  NoKey,
  MaxRequests    \* bound: requests per key

ASSUME KeysAssumption == NoKey \notin Keys /\ MaxRequests \in Nat

VARIABLES
  asked,         \* asked[k]: requests enqueued for k so far
  queue,         \* the TxQueue of keys
  latest,        \* latestByKey; {} for no entry
  queued,        \* queuedKeys
  active,        \* activeKeys
  pc,            \* what the fiber does next
  key, batch,    \* the key it is at work on, and the value it processes
  \* history
  settled,       \* settled[k]: requests whose value was processed, or failed
  waiting        \* waiting[w]: the call of drainKey w is in

state == <<latest, queued, active>>
fiber == <<pc, key, batch>>
vars == <<asked, queue, state, fiber, settled, waiting>>

NotWaiting == [key |-> NoKey, asked |-> 0]

Init ==
  /\ asked = [k \in Keys |-> 0]
  /\ queue = << >>
  /\ latest = [k \in Keys |-> {}]
  /\ queued = {} /\ active = {}
  /\ pc = "take" /\ key = NoKey /\ batch = {}
  /\ settled = [k \in Keys |-> {}]
  /\ waiting = [w \in Waiters |-> NotWaiting]

-----------------------------------------------------------------------------
(* Callers                                                                 *)

Busy(k) == k \in queued \/ k \in active

\* enqueue: merging and offering are one transaction.
Enqueue(k) ==
  /\ asked[k] < MaxRequests
  /\ asked' = [asked EXCEPT ![k] = @ + 1]
  /\ latest' = [latest EXCEPT ![k] = @ \cup {asked[k] + 1}]
  /\ IF Busy(k) THEN UNCHANGED <<queue, queued>>
     ELSE queued' = queued \cup {k} /\ queue' = Append(queue, k)
  /\ UNCHANGED <<active, fiber, settled, waiting>>

DrainKey(w, k) ==
  /\ waiting[w] = NotWaiting
  /\ waiting' = [waiting EXCEPT ![w] = [key |-> k, asked |-> asked[k]]]
  /\ UNCHANGED <<asked, queue, state, fiber, settled>>

\* Mutation: a value being processed does not hold a drain back.
Drained_ActiveIgnored(k) == latest[k] = {} /\ k \notin queued

Drained(k) == latest[k] = {} /\ k \notin queued /\ k \notin active

\* The transaction of drainKey is retried until there is nothing left.
DrainReturns(w) ==
  /\ waiting[w] # NotWaiting
  /\ Drained(waiting[w].key)
  /\ waiting' = [waiting EXCEPT ![w] = NotWaiting]
  /\ UNCHANGED <<asked, queue, state, fiber, settled>>

-----------------------------------------------------------------------------
(* The fiber                                                               *)

Take ==
  /\ pc = "take"
  /\ queue # << >>
  /\ key' = Head(queue)
  /\ queue' = Tail(queue)
  /\ pc' = "claim"
  /\ UNCHANGED <<asked, state, batch, settled, waiting>>

NoValue == latest[key] = {}

\* Mutation: the key's entry stays where it is when its value is taken.
WithoutValue_Kept == latest

WithoutValue == [latest EXCEPT ![key] = {}]

\* The key's value moves from the state to the fiber; a key without a value is
\* dropped.
Claim ==
  /\ pc = "claim"
  /\ queued' = queued \ {key}
  /\ IF NoValue
     THEN /\ pc' = "take" /\ key' = NoKey
          /\ UNCHANGED <<latest, active, batch>>
     ELSE /\ pc' = "process"
          /\ batch' = latest[key]
          /\ latest' = WithoutValue
          /\ active' = active \cup {key}
          /\ UNCHANGED key
  /\ UNCHANGED <<asked, queue, settled, waiting>>

SettleBatch ==
  /\ settled' = [settled EXCEPT ![key] = @ \cup batch]
  /\ batch' = {}

ProcessSucceeds ==
  /\ pc = "process"
  /\ SettleBatch
  /\ pc' = "next"
  /\ UNCHANGED <<asked, queue, state, key, waiting>>

\* A failed value is not processed again.
ProcessFails ==
  /\ pc = "process"
  /\ SettleBatch
  /\ pc' = "cleanup"
  /\ UNCHANGED <<asked, queue, state, key, waiting>>

\* processKey goes on with what was enqueued meanwhile, without the queue.
ProcessNext ==
  /\ pc = "next"
  /\ IF NoValue
     THEN /\ active' = active \ {key}
          /\ pc' = "take" /\ key' = NoKey
          /\ UNCHANGED <<latest, batch>>
     ELSE /\ batch' = latest[key]
          /\ latest' = WithoutValue
          /\ pc' = "process"
          /\ UNCHANGED <<active, key>>
  /\ UNCHANGED <<asked, queue, queued, settled, waiting>>

\* Mutation: what was enqueued while the value failed is not requeued.
NeedsRequeue_Never == FALSE

NeedsRequeue == latest[key] # {} /\ key \notin queued

\* cleanupFailedKey: its transaction, and the offer that follows it.
CleanupFailedKey ==
  /\ pc = "cleanup"
  /\ active' = active \ {key}
  /\ IF NeedsRequeue
     THEN queued' = queued \cup {key} /\ pc' = "requeue" /\ UNCHANGED key
     ELSE pc' = "take" /\ key' = NoKey /\ UNCHANGED queued
  /\ UNCHANGED <<asked, queue, latest, batch, settled, waiting>>

Requeue ==
  /\ pc = "requeue"
  /\ queue' = Append(queue, key)
  /\ pc' = "take" /\ key' = NoKey
  /\ UNCHANGED <<asked, state, batch, settled, waiting>>

-----------------------------------------------------------------------------

FiberStep ==
  \/ Take \/ Claim \/ ProcessSucceeds \/ ProcessFails \/ ProcessNext
  \/ CleanupFailedKey \/ Requeue

Next ==
  \/ \E k \in Keys : Enqueue(k)
  \/ \E w \in Waiters, k \in Keys : DrainKey(w, k)
  \/ \E w \in Waiters : DrainReturns(w)
  \/ FiberStep

\* The fiber is a forever loop nothing interrupts while its scope is open, and
\* a blocked drainKey is retried whenever the state changes.
Fairness ==
  WF_vars(FiberStep) /\ \A w \in Waiters : WF_vars(DrainReturns(w))

Spec == Init /\ [][Next]_vars

FairSpec == Spec /\ Fairness

-----------------------------------------------------------------------------
(* Properties                                                              *)

Requests == 1 .. MaxRequests

TypeOK ==
  /\ asked \in [Keys -> 0 .. MaxRequests]
  /\ queue \in Seq(Keys)
  /\ latest \in [Keys -> SUBSET Requests]
  /\ queued \subseteq Keys /\ active \subseteq Keys
  /\ pc \in {"take", "claim", "process", "next", "cleanup", "requeue"}
  /\ key \in IF pc = "take" THEN {NoKey} ELSE Keys
  /\ batch \in SUBSET Requests
  /\ batch # {} <=> pc = "process"
  /\ settled \in [Keys -> SUBSET Requests]
  /\ waiting \in [Waiters -> [key : Keys \cup {NoKey}, asked : 0 .. MaxRequests]]

\* No key is forgotten: one that has a value is on its way to the fiber or in
\* its hands, exactly once.  queuedKeys is the queue, but for the key between
\* a take and its claim, or between a clean-up and its offer.
NothingForgotten ==
  /\ \A k \in Keys : latest[k] # {} => Busy(k)
  /\ \A k \in queued : latest[k] # {}
  /\ \A i, j \in DOMAIN queue : queue[i] = queue[j] => i = j
  /\ queued = {queue[i] : i \in DOMAIN queue}
                \cup (IF pc \in {"claim", "requeue"} THEN {key} ELSE {})
  /\ pc \in {"claim", "requeue"} => \A i \in DOMAIN queue : queue[i] # key
  /\ active = IF pc \in {"process", "next", "cleanup"} THEN {key} ELSE {}
  /\ queued \cap active = {}

\* Every request is in one place: done with, waiting in its key's value, or in
\* the value being processed; and no drain waits for more than was asked.
InHand(k) == IF key = k THEN batch ELSE {}
RequestsAccounted ==
  /\ \A k \in Keys :
       /\ 1 .. asked[k] = settled[k] \cup latest[k] \cup InHand(k)
       /\ settled[k] \cap latest[k] = {}
       /\ InHand(k) \cap (settled[k] \cup latest[k]) = {}
  /\ \A w \in Waiters : waiting[w] # NotWaiting =>
       /\ waiting[w].key \in Keys
       /\ waiting[w].asked <= asked[waiting[w].key]

\* The worker implements its promise: no request is lost or processed twice,
\* even when processing fails while more is being enqueued, and a drain only
\* returns when what was asked before it is settled.
Work == INSTANCE CoalescedWork
  WITH pending <- latest,
       key     <- IF pc = "process" THEN key ELSE NoKey
ImplementsWork == Work!Spec

\* Every request is settled and every drain returns, when no key is kept busy
\* forever: the fiber stays with a key for as long as requests for it arrive.
EverythingSettles ==
  /\ \A k \in Keys, n \in Requests : (asked[k] >= n) ~> (n \in settled[k])
  /\ \A w \in Waiters : (waiting[w] # NotWaiting) ~> (waiting[w] = NotWaiting)

=============================================================================
