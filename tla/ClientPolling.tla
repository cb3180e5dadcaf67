----------------------------- MODULE ClientPolling -----------------------------
(***************************************************************************)
(* What brings a client up to date when no live event does: the timer of   *)
(* routes/__root.tsx that asks for a snapshot and re-arms itself.  Every   *)
(* progress snapshot of a thread (ThreadProgressTracker.ts publishes one   *)
(* for each runtime event of its agent) clears the timer and arms it       *)
(* anew, so that it only fires once no agent has reported anything for a   *)
(* whole interval.                                                         *)
(*                                                                         *)
(* Time is the two stages of an interval: a timer that is cleared in its   *)
(* second stage is back in its first.                                      *)
(***************************************************************************)
EXTENDS ClientSync

VARIABLE poll   \* snapshotPollTimeoutId: "armed", then "halfway" to its end

pollVars == <<vars, poll>>

PollInit == Init /\ poll = "armed"

\* The log grows, and the client follows it, as before.
Follow == Next /\ UNCHANGED poll

HalfInterval ==
  /\ poll = "armed"
  /\ poll' = "halfway"
  /\ UNCHANGED vars

\* Mutation: the timer is not armed again.
PollTimer_Once ==
  /\ poll = "halfway"
  /\ AskSnapshot
  /\ poll' = "fired"

\* The timer's callback asks for a snapshot, which is in vain while another
\* recovery is in flight, and arms the timer again.
PollTimer ==
  /\ poll = "halfway"
  /\ AskSnapshot
  /\ poll' = "armed"

\* onThreadProgress: an agent at work has reported.  (Where the timer has just
\* been armed, nothing changes.)
ThreadProgress ==
  /\ poll = "halfway"
  /\ poll' = "armed"
  /\ UNCHANGED vars

PollNext == Follow \/ HalfInterval \/ PollTimer \/ ThreadProgress

\* A recovery's request is answered and its answer handled, microtasks run,
\* and time passes.  Live events need not be delivered.
Fairness ==
  /\ WF_pollVars((AnswerRequest \/ SnapshotArrives \/ ReplayArrives)
                 /\ UNCHANGED poll)
  /\ WF_pollVars(Flush /\ UNCHANGED poll)
  /\ WF_pollVars(HalfInterval \/ PollTimer)

PollSpec == PollInit /\ [][PollNext]_pollVars /\ Fairness

-----------------------------------------------------------------------------
(* Properties                                                              *)

\* The client always gets to reflect the whole log again: as the log is
\* bounded, every committed event in the end.
Converges == []<>(coord.latest = log)

\* Once the agents have no more to report, the client eventually reflects every
\* committed event, even if no live event is ever delivered again.
CatchesUp == <>[][~ThreadProgress]_pollVars => Converges

=============================================================================
