---------------------------- MODULE CoalescedWork ----------------------------
(***************************************************************************)
(* What a keyed coalescing worker promises, without its queue: requests    *)
(* made for a key while nothing is done about them are merged into one     *)
(* batch; batches are processed one at a time; a request is settled when   *)
(* the batch it went into has been processed or has failed; and whoever    *)
(* waits for a key gets through only when everything asked for before is   *)
(* settled.                                                                *)
(*                                                                         *)
(* The requests for a key are numbered in the order they are made.         *)
(***************************************************************************)
EXTENDS Integers

CONSTANTS Keys, Waiters, NoKey

VARIABLES
  asked,      \* asked[k]: the number of requests made for k
  pending,    \* pending[k]: requests for k in no batch yet
  key,        \* the key of the batch being processed, or NoKey
  batch,      \* the batch being processed
  settled,    \* settled[k]: requests for k that are done with
  waiting     \* waiting[w]: the key a waiter waits for, and what was asked

vars == <<asked, pending, key, batch, settled, waiting>>

NotWaiting == [key |-> NoKey, asked |-> 0]

Init ==
  /\ asked = [k \in Keys |-> 0]
  /\ pending = [k \in Keys |-> {}]
  /\ key = NoKey
  /\ batch = {}
  /\ settled = [k \in Keys |-> {}]
  /\ waiting = [w \in Waiters |-> NotWaiting]

Ask(k) ==
  /\ asked' = [asked EXCEPT ![k] = @ + 1]
  /\ pending' = [pending EXCEPT ![k] = @ \cup {asked[k] + 1}]
  /\ UNCHANGED <<key, batch, settled, waiting>>

Start(k) ==
  /\ key = NoKey
  /\ pending[k] # {}
  /\ key' = k
  /\ batch' = pending[k]
  /\ pending' = [pending EXCEPT ![k] = {}]
  /\ UNCHANGED <<asked, settled, waiting>>

\* The batch has been processed, or processing it has failed.
Settle ==
  /\ key # NoKey
  /\ settled' = [settled EXCEPT ![key] = @ \cup batch]
  /\ key' = NoKey
  /\ batch' = {}
  /\ UNCHANGED <<asked, pending, waiting>>

Wait(w, k) ==
  /\ waiting[w] = NotWaiting
  /\ waiting' = [waiting EXCEPT ![w] = [key |-> k, asked |-> asked[k]]]
  /\ UNCHANGED <<asked, pending, key, batch, settled>>

GetThrough(w) ==
  /\ waiting[w] # NotWaiting
  /\ 1 .. waiting[w].asked \subseteq settled[waiting[w].key]
  /\ waiting' = [waiting EXCEPT ![w] = NotWaiting]
  /\ UNCHANGED <<asked, pending, key, batch, settled>>

Next ==
  \/ \E k \in Keys : Ask(k) \/ Start(k)
  \/ Settle
  \/ \E w \in Waiters, k \in Keys : Wait(w, k)
  \/ \E w \in Waiters : GetThrough(w)

Spec == Init /\ [][Next]_vars

=============================================================================
