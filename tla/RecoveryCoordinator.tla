------------------------- MODULE RecoveryCoordinator -------------------------
(***************************************************************************)
(* The web client's recovery coordinator (orchestrationRecovery.ts) as     *)
(* operators on its state: which live events to apply, and when a snapshot *)
(* or a replay of the event log may run.                                   *)
(***************************************************************************)
EXTENDS Integers, Sequences

CONSTANT MaxNoProgressRetries   \* 3 in the source

Phases == {"none", "snapshot", "replay"}

Coordinator == [latest : Nat, observed : Nat, bootstrapped : BOOLEAN,
                pendingReplay : BOOLEAN, inFlight : Phases, replayStart : Nat]

InitialCoordinator ==
  [latest |-> 0, observed |-> 0, bootstrapped |-> FALSE,
   pendingReplay |-> FALSE, inFlight |-> "none", replayStart |-> 0]

Larger(m, n) == IF m >= n THEN m ELSE n

-----------------------------------------------------------------------------
(* Live events                                                             *)

\* Mutation: live events are applied while a recovery is in flight.
Classify_NeverDefers(c, sequence) ==
  CASE sequence <= c.latest -> "ignore"
    [] OTHER -> IF sequence = c.latest + 1 THEN "apply" ELSE "recover"

\* classifyDomainEvent: what to do with an event ...
Classify(c, sequence) ==
  CASE sequence <= c.latest -> "ignore"
    [] sequence > c.latest /\ (~c.bootstrapped \/ c.inFlight # "none") -> "defer"
    [] OTHER -> IF sequence = c.latest + 1 THEN "apply" ELSE "recover"

\* ... and what the coordinator remembers of it.
Observed(c, sequence) ==
  [c EXCEPT !.observed = Larger(@, sequence),
            !.pendingReplay = @ \/ Classify(c, sequence) \in {"defer", "recover"}]

\* markEventBatchApplied keeps the events past latestSequence.  They are the end
\* of any batch it is given (UnappliedStretch, UnappliedPending in ClientSyncProofs).
FirstUnapplied(c, events) ==
  CHOOSE i \in 1 .. Len(events) + 1 :
    /\ \A j \in 1 .. i - 1 : events[j] <= c.latest
    /\ i <= Len(events) => events[i] > c.latest

Unapplied(c, events) == SubSeq(events, FirstUnapplied(c, events), Len(events))

Applied(c, events) ==
  LET new == Unapplied(c, events) IN
  IF new = << >> THEN c
  ELSE [c EXCEPT !.latest = new[Len(new)],
                 !.observed = Larger(@, new[Len(new)])]

-----------------------------------------------------------------------------
(* Snapshot recovery                                                       *)

MayBeginSnapshot(c) == c.inFlight = "none"

BeginSnapshot(c) ==
  IF MayBeginSnapshot(c) THEN [c EXCEPT !.inFlight = "snapshot"]
  ELSE [c EXCEPT !.pendingReplay = TRUE]

\* resolveReplayNeedAfterRecovery
ShouldReplay(c) == c.pendingReplay \/ c.observed > c.latest

SnapshotLoaded(c, sequence) ==
  [c EXCEPT !.latest = Larger(@, sequence),
            !.observed = Larger(@, Larger(c.latest, sequence)),
            !.bootstrapped = TRUE,
            !.inFlight = "none"]

\* completeSnapshotRecovery
CompleteSnapshot(c, sequence) ==
  [SnapshotLoaded(c, sequence) EXCEPT !.pendingReplay = FALSE]

FailSnapshot(c) == [c EXCEPT !.inFlight = "none"]

-----------------------------------------------------------------------------
(* Replay recovery                                                         *)

MayBeginReplay(c) == c.bootstrapped /\ c.inFlight = "none"

BeginReplay(c) ==
  IF MayBeginReplay(c)
  THEN [c EXCEPT !.pendingReplay = FALSE, !.inFlight = "replay",
                 !.replayStart = c.latest]
  ELSE [c EXCEPT !.pendingReplay = TRUE]

CompleteReplay(c) ==
  [c EXCEPT !.inFlight = "none", !.replayStart = 0, !.pendingReplay = FALSE]

MadeProgress(c) == c.latest > c.replayStart

FailReplay(c) ==
  [c EXCEPT !.inFlight = "none", !.replayStart = 0, !.bootstrapped = FALSE]

\* deriveReplayRetryDecision, from the state c the replay ended in: retry at
\* once after progress, after a delay without it, and give up (in favour of a
\* snapshot) after MaxNoProgressRetries attempts at one and the same frontier.
NoTracker == [attempts |-> 0, latest |-> 0, observed |-> 0]

Attempts(c, tracker) ==
  IF /\ tracker # NoTracker
     /\ tracker.latest = c.latest
     /\ tracker.observed = c.observed
  THEN tracker.attempts + 1 ELSE 1

Exhausted(c, tracker) == Attempts(c, tracker) > MaxNoProgressRetries

RetryDecision(c, tracker) ==
  CASE ~ShouldReplay(c) -> "stop"
    [] ShouldReplay(c) /\ MadeProgress(c) -> "now"
    [] OTHER -> IF Exhausted(c, tracker)
                THEN "snapshot" ELSE "later"

NextTracker(c, tracker) ==
  IF RetryDecision(c, tracker) = "later"
  THEN [attempts |-> Attempts(c, tracker), latest |-> c.latest,
        observed |-> c.observed]
  ELSE NoTracker

=============================================================================
