--------------------------- MODULE MCTurnLifecycle ---------------------------
(***************************************************************************)
(* Budgets for TLC: how often each event that is not bounded otherwise may *)
(* happen in an instance of TurnLifecycle.                                 *)
(***************************************************************************)
EXTENDS TurnLifecycle

Nothing == [k \in BudgetKinds |-> 0]

\* Two turns with placeholders and a revert.
CheckpointBudgets ==
  {[Nothing EXCEPT !["request"] = 2, !["diff"] = 2, !["revert"] = 1]}

\* Two turns, with a session that is replaced under the first, and a process that
\* ends.
ReplacedSession ==
  [Nothing EXCEPT !["request"] = 2, !["mode"] = 1, !["exit"] = 1]

\* Two turns, with a handler that gives up and a restart.
HandlerGivesUp ==
  [Nothing EXCEPT !["request"] = 2, !["diff"] = 1, !["failure"] = 1, !["restart"] = 1]

\* Two turns, the second of which may ask for another model, and a failure.
OtherModel == [Nothing EXCEPT !["request"] = 2, !["model"] = 1, !["failure"] = 1]

\* One turn, with a state reported of its session and a restart.
RestartedSession ==
  [Nothing EXCEPT !["request"] = 1, !["state"] = 1, !["restart"] = 1]

\* Two turns, with a revert.
RevertedThread == [Nothing EXCEPT !["request"] = 2, !["diff"] = 1, !["revert"] = 1]

\* One turn that is stopped and interrupted, with states and errors reported of
\* its session, or with messages.
StoppedWithErrors ==
  [Nothing EXCEPT !["request"] = 1, !["stop"] = 1, !["interrupt"] = 1, !["state"] = 1,
                  !["error"] = 1]
StoppedWithMessages ==
  [Nothing EXCEPT !["request"] = 1, !["stop"] = 1, !["interrupt"] = 1, !["state"] = 1,
                  !["delta"] = 1, !["message"] = 1]

SessionBudgets ==
  {ReplacedSession, HandlerGivesUp, OtherModel, RestartedSession, RevertedThread,
   StoppedWithErrors, StoppedWithMessages}
StopBudgets == {StoppedWithErrors}

\* A session that is replaced under a turn whose files fail the quality gate.
GateBudgets ==
  {[Nothing EXCEPT !["request"] = 2, !["diff"] = 1, !["mode"] = 1, !["gate"] = 1]}

=============================================================================
