------------------------------ MODULE ClientSync ------------------------------
(***************************************************************************)
(* How a browser follows the server's event log.  The server commits an    *)
(* event, replaces its read model, publishes the event (OrchestrationEngine*)
(* .ts) and serves three things (ws.ts): a stream of domain events per     *)
(* connection, snapshots, and bounded replays of the log.  The client      *)
(* (routes/__root.tsx) applies live events that follow on from what it     *)
(* has, and otherwise recovers under the control of its coordinator.       *)
(*                                                                         *)
(* An event is its sequence number.  The client's store is the sequence of *)
(* events it reflects: a snapshot up to n stands for 1 .. n.               *)
(***************************************************************************)
EXTENDS RecoveryCoordinator

CONSTANTS
  MaxEvents,     \* bound: events the server ever commits
  ReplayBatch,   \* ORCHESTRATION_REPLAY_BATCH_SIZE, 500 in the source
  MaxFaults      \* bound: lost connections and failed requests

ASSUME ClientSyncAssumption ==
  /\ MaxEvents \in Nat /\ MaxFaults \in Nat
  /\ ReplayBatch \in Nat \ {0}
  /\ MaxNoProgressRetries \in Nat

VARIABLES
  log,         \* last committed sequence, as SQL queries see it
  model,       \* snapshotSequence of the in-memory read model
  published,   \* last sequence given to the PubSub
  sub,         \* the server's end of the connection's event stream
  wire,        \* events on their way to the client, in order
  received,    \* hasReceivedValue: the client has ever got a live event
  coord,       \* the coordinator
  pending,     \* pendingDomainEvents: classified "apply", not yet flushed
  store,       \* the events the client's store reflects
  request,     \* the recovery request in flight, and its answer
  tracker,     \* replayRetryTracker
  retryArmed,  \* a delayed retry of a replay is scheduled
  faults

server == <<log, model, published>>
client == <<coord, pending, store, request, tracker, retryArmed>>
vars == <<server, sub, wire, received, client, faults>>

\* A stream that is not open; one being opened; one that is open has read the
\* read model's sequence as `from', and merges a replay of the log past it
\* with the live events published since its PubSub subscription was made.
NoSub == [open |-> "no", from |-> 0, read |-> FALSE, replay |-> << >>,
          subscribed |-> FALSE, live |-> << >>, seen |-> {}]

NoRequest == [kind |-> "none", from |-> 0, answered |-> FALSE, upTo |-> 0]

Sequences(from, to) == [i \in 1 .. to - from |-> from + i]

Lesser(m, n) == IF m <= n THEN m ELSE n

Init ==
  /\ log = 0 /\ model = 0 /\ published = 0
  /\ sub = NoSub
  /\ wire = << >>
  /\ received = FALSE
  /\ coord = InitialCoordinator
  /\ pending = << >>
  /\ store = << >>
  /\ request = NoRequest
  /\ tracker = NoTracker
  /\ retryArmed = FALSE
  /\ faults = 0

-----------------------------------------------------------------------------
(* Server: the engine's single worker                                      *)

Commit ==
  /\ log < MaxEvents
  /\ log = published
  /\ log' = log + 1
  /\ UNCHANGED <<model, published, sub, wire, received, client, faults>>

ApplyCommitted ==
  /\ model < log
  /\ model' = log
  /\ UNCHANGED <<log, published, sub, wire, received, client, faults>>

Publish ==
  /\ published < model
  /\ published' = published + 1
  /\ sub' = IF sub.subscribed
            THEN [sub EXCEPT !.live = Append(@, published + 1)] ELSE sub
  /\ UNCHANGED <<log, model, wire, received, client, faults>>

(* Server: subscribeOrchestrationDomainEvents                              *)

OpenStream ==
  /\ sub.open = "opening"
  /\ sub' = [sub EXCEPT !.open = "yes", !.from = model]
  /\ UNCHANGED <<server, wire, received, client, faults>>

\* Stream.merge runs both sides at once: the query and the subscription
\* happen in either order, with commits and publications in between.
ReadReplay ==
  /\ sub.open = "yes" /\ ~sub.read
  /\ sub' = [sub EXCEPT !.read = TRUE, !.replay = Sequences(sub.from, log)]
  /\ UNCHANGED <<server, wire, received, client, faults>>

SubscribeLive ==
  /\ sub.open = "yes" /\ ~sub.subscribed
  /\ sub' = [sub EXCEPT !.subscribed = TRUE]
  /\ UNCHANGED <<server, wire, received, client, faults>>

\* The merged stream's filter: events not past `from' or already sent are
\* dropped.
Forward(side) ==
  /\ sub[side] # << >>
  /\ LET n == Head(sub[side]) IN
     IF n <= sub.from \/ n \in sub.seen
     THEN /\ sub' = [sub EXCEPT ![side] = Tail(@)]
          /\ UNCHANGED wire
     ELSE /\ sub' = [sub EXCEPT ![side] = Tail(@), !.seen = @ \cup {n}]
          /\ wire' = Append(wire, n)
  /\ UNCHANGED <<server, received, client, faults>>

(* Server: getSnapshot and replayEvents read the committed state.          *)

AnswerRequest ==
  /\ request.kind # "none" /\ ~request.answered
  /\ request' = [request EXCEPT
       !.answered = TRUE,
       !.upTo = IF request.kind = "snapshot" THEN log
                ELSE Lesser(log, request.from + ReplayBatch)]
  /\ UNCHANGED <<server, sub, wire, received, coord, pending, store, tracker,
                 retryArmed, faults>>

-----------------------------------------------------------------------------
(* Client.  JavaScript runs each handler to its next await, so a handler   *)
(* and the recovery it starts are one action.                              *)

\* runSnapshotRecovery and runReplayRecovery up to their first await, from the
\* coordinator state c: sets coord and request.
RequestSnapshot(c) ==
  /\ coord' = BeginSnapshot(c)
  /\ request' = IF MayBeginSnapshot(c)
                THEN [NoRequest EXCEPT !.kind = "snapshot"] ELSE request

RequestReplay(c) ==
  /\ coord' = BeginReplay(c)
  /\ request' = IF MayBeginReplay(c)
                THEN [NoRequest EXCEPT !.kind = "replay", !.from = c.latest]
                ELSE request

\* applyEventBatch on the pending events, ahead of whatever follows.
FlushedCoord == Applied(coord, pending)
FlushedStore == store \o Unapplied(coord, pending)

\* flushPendingDomainEvents, from its microtask.
Flush ==
  /\ pending # << >>
  /\ coord' = FlushedCoord
  /\ store' = FlushedStore
  /\ pending' = << >>
  /\ UNCHANGED <<server, sub, wire, received, request, tracker, retryArmed,
                 faults>>

\* A live event arrives.
Receive ==
  /\ wire # << >>
  /\ wire' = Tail(wire)
  /\ received' = TRUE
  /\ LET n      == Head(wire)
         seen   == Observed(coord, n)
         action == Classify(coord, n)
     IN \/ /\ action \in {"ignore", "defer"}
           /\ coord' = seen
           /\ UNCHANGED <<pending, store, request>>
        \/ /\ action = "apply"
           /\ coord' = seen
           /\ pending' = Append(pending, n)
           /\ UNCHANGED <<store, request>>
        \/ /\ action = "recover"
           /\ store' = FlushedStore
           /\ pending' = << >>
           /\ RequestReplay(Applied(seen, pending))
  /\ UNCHANGED <<server, sub, tracker, retryArmed, faults>>

\* The bootstrap, the poll timer (see ClientPolling) and the resume handlers
\* (focus, online, pageshow, visibility) ask for a snapshot, at any time.
AskSnapshot ==
  /\ RequestSnapshot(coord)
  /\ UNCHANGED <<server, sub, wire, received, pending, store, tracker,
                 retryArmed, faults>>

\* syncServerReadModel replaces the store by the snapshot.
SnapshotArrives ==
  /\ request.kind = "snapshot" /\ request.answered
  /\ store' = Sequences(0, request.upTo)
  /\ LET loaded == SnapshotLoaded(coord, request.upTo)
         done   == CompleteSnapshot(coord, request.upTo)
     IN IF ShouldReplay(loaded)
        THEN /\ coord' = BeginReplay(done)
             /\ request' = [NoRequest EXCEPT !.kind = "replay",
                                             !.from = done.latest]
        ELSE /\ coord' = done
             /\ request' = NoRequest
  /\ UNCHANGED <<server, sub, wire, received, pending, tracker, retryArmed,
                 faults>>

\* The batch is applied; then stop, replay on, wait, or fetch a snapshot.
ReplayArrives ==
  /\ request.kind = "replay" /\ request.answered
  /\ LET batch    == Sequences(request.from, request.upTo)
         applied  == Applied(coord, batch)
         done     == CompleteReplay(applied)
         decision == RetryDecision(applied, tracker)
     IN /\ store' = store \o Unapplied(coord, batch)
        /\ tracker' = NextTracker(applied, tracker)
        /\ retryArmed' = (retryArmed \/ decision = "later")
        /\ coord' = CASE decision = "now" -> BeginReplay(done)
                      [] decision = "snapshot" -> BeginSnapshot(done)
                      [] OTHER -> done
        /\ request' = CASE decision = "now" ->
                             [NoRequest EXCEPT !.kind = "replay",
                                               !.from = done.latest]
                        [] decision = "snapshot" ->
                             [NoRequest EXCEPT !.kind = "snapshot"]
                        [] OTHER -> NoRequest
  /\ UNCHANGED <<server, sub, wire, received, pending, faults>>

\* A delayed retry fires.  Several may be pending at once, so another may or
\* may not be left.
RetryTimer ==
  /\ retryArmed
  /\ retryArmed' \in BOOLEAN
  /\ RequestReplay(coord)
  /\ UNCHANGED <<server, sub, wire, received, pending, store, tracker, faults>>

-----------------------------------------------------------------------------
(* Connections and failures                                                *)

\* The subscription loop (re)opens its stream, calling onResubscribe first if
\* an event has ever arrived: flush, then replay.
Connect ==
  /\ sub.open = "no"
  /\ sub' = [NoSub EXCEPT !.open = "opening"]
  /\ IF received
     THEN /\ store' = FlushedStore
          /\ pending' = << >>
          /\ RequestReplay(FlushedCoord)
     ELSE UNCHANGED <<store, pending, coord, request>>
  /\ UNCHANGED <<server, wire, received, tracker, retryArmed, faults>>

Disconnected == sub' = NoSub /\ wire' = << >>

Disconnect ==
  /\ faults < MaxFaults
  /\ faults' = faults + 1
  /\ sub.open # "no"
  /\ Disconnected
  /\ UNCHANGED <<server, received, client>>

\* A request times out, is refused, or dies with its connection, whether or
\* not the server has answered it; the client reconnects.
SnapshotFails ==
  /\ faults < MaxFaults
  /\ faults' = faults + 1
  /\ request.kind = "snapshot"
  /\ coord' = FailSnapshot(coord)
  /\ request' = NoRequest
  /\ Disconnected
  /\ UNCHANGED <<server, received, pending, store, tracker, retryArmed>>

\* A failed replay is followed by a snapshot.
ReplayFails ==
  /\ faults < MaxFaults
  /\ faults' = faults + 1
  /\ request.kind = "replay"
  /\ coord' = BeginSnapshot(FailReplay(coord))
  /\ request' = [NoRequest EXCEPT !.kind = "snapshot"]
  /\ tracker' = NoTracker
  /\ Disconnected
  /\ UNCHANGED <<server, received, pending, store, retryArmed>>

-----------------------------------------------------------------------------

ServerStep ==
  \/ Commit \/ ApplyCommitted \/ Publish
  \/ OpenStream \/ ReadReplay \/ SubscribeLive
  \/ Forward("replay") \/ Forward("live")
  \/ AnswerRequest

ClientStep ==
  \/ Flush \/ Receive \/ AskSnapshot \/ SnapshotArrives \/ ReplayArrives
  \/ RetryTimer \/ Connect

Fault == Disconnect \/ SnapshotFails \/ ReplayFails

Next == ServerStep \/ ClientStep \/ Fault

Spec == Init /\ [][Next]_vars

-----------------------------------------------------------------------------
(* Properties                                                              *)

TypeOK ==
  /\ published \in 0 .. model /\ model \in 0 .. log /\ log \in 0 .. MaxEvents
  /\ sub.open \in {"no", "opening", "yes"}
  /\ received \in BOOLEAN /\ retryArmed \in BOOLEAN
  /\ coord \in Coordinator
  /\ request.kind = coord.inFlight
  /\ tracker = NoTracker \/ tracker.attempts \in 1 .. MaxNoProgressRetries
  /\ faults \in 0 .. MaxFaults

\* The store reflects exactly the log up to latestSequence: whatever the order
\* of live events, snapshots, replays, failures and reconnections, no event is
\* skipped and none is applied twice.
StoreIsPrefix ==
  /\ coord.latest <= log
  /\ store = Sequences(0, coord.latest)

\* What the user has been shown is never taken back: a snapshot computed
\* before an event was applied never replaces the store that has it.
StoreNeverGoesBack ==
  [][/\ Len(store) <= Len(store')
     /\ SubSeq(store', 1, Len(store)) = store]_store

=============================================================================
