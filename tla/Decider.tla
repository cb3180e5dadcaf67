------------------------------- MODULE Decider -------------------------------
(***************************************************************************)
(* The pure core of the orchestration engine: which commands a read model  *)
(* lets through (decider.ts, commandInvariants.ts), the events an accepted *)
(* command stands for, and what an event does to the part of the in-memory *)
(* read model the decider looks at (projector.ts).                         *)
(*                                                                         *)
(* A command is a record [type, project, thread, source, arg]; `arg' is    *)
(* the only datum a guard or a projection depends on (the session status   *)
(* of thread.session.set, whether a revert drops the proposed plan).       *)
(* Deleted projects and threads keep their entry in the read model (only   *)
(* deletedAt is set), so a deletion does not disable any guard.            *)
(***************************************************************************)
EXTENDS Integers, Sequences

CONSTANTS Projects, Threads, NoProject, NoThread

Command == [type : STRING, project : Projects \cup {NoProject},
            thread : Threads \cup {NoThread}, source : Threads \cup {NoThread},
            arg : STRING]

ThreadState == [present : BOOLEAN, project : Projects \cup {NoProject},
                archived : BOOLEAN, running : BOOLEAN, hasPlan : BOOLEAN]

State == [projects : SUBSET Projects, threads : [Threads -> ThreadState]]

AbsentThread == [present |-> FALSE, project |-> NoProject, archived |-> FALSE,
                 running |-> FALSE, hasPlan |-> FALSE]

\* createEmptyReadModel
EmptyState ==
  [projects |-> {}, threads |-> [thread \in Threads |-> AbsentThread]]

-----------------------------------------------------------------------------
(* The decider's guards, one operator per family of commands.              *)

ProjectCommandAllowed(state, cmd) ==
  \/ cmd.type = "project.create" /\ cmd.project \notin state.projects
  \/ /\ cmd.type \in {"project.meta.update", "project.delete"}
     /\ cmd.project \in state.projects

ThreadLifecycleAllowed(state, cmd) ==
  LET thread == state.threads[cmd.thread] IN
  \/ cmd.type = "thread.create" /\ cmd.project \in state.projects /\ ~thread.present
  \/ cmd.type = "thread.archive" /\ thread.present /\ ~thread.archived
  \/ cmd.type = "thread.unarchive" /\ thread.present /\ thread.archived

\* A turn may start on a thread that exists and whose session is not running;
\* a plan it is started from must exist on its source thread, and both
\* threads must belong to one project.
TurnStartAllowed(state, cmd) ==
  LET thread == state.threads[cmd.thread] IN
  /\ cmd.type = "thread.turn.start"
  /\ thread.present
  /\ cmd.source # NoThread =>
       LET source == state.threads[cmd.source] IN
       source.present /\ source.hasPlan /\ source.project = thread.project
  /\ ~thread.running

\* Every other thread command only requires the thread to be in the state.
ThreadSignal ==
  {"thread.delete", "thread.meta.update", "thread.runtime-mode.set",
   "thread.interaction-mode.set", "thread.turn.interrupt",
   "thread.approval.respond", "thread.user-input.respond",
   "thread.checkpoint.revert", "thread.session.stop", "thread.session.set",
   "thread.message.assistant.delta", "thread.message.assistant.complete",
   "thread.proposed-plan.upsert", "thread.turn.diff.complete",
   "thread.revert.complete", "thread.activity.append"}

ThreadSignalAllowed(state, cmd) ==
  cmd.type \in ThreadSignal /\ state.threads[cmd.thread].present

Allowed(state, cmd) ==
  \/ ProjectCommandAllowed(state, cmd)
  \/ ThreadLifecycleAllowed(state, cmd)
  \/ TurnStartAllowed(state, cmd)
  \/ ThreadSignalAllowed(state, cmd)

-----------------------------------------------------------------------------
(* Events.  Only thread.turn.start stands for two.                         *)

EventKinds ==
  {"project.created", "thread.created", "thread.archived", "thread.unarchived",
   "thread.message-sent", "thread.turn-start-requested", "thread.session-set",
   "thread.proposed-plan-upserted", "thread.reverted", "other"}

EventType(type) ==
  CASE type = "project.create"    -> "project.created"
    [] type = "thread.create"     -> "thread.created"
    [] type = "thread.archive"    -> "thread.archived"
    [] type = "thread.unarchive"  -> "thread.unarchived"
    [] type = "thread.session.set"          -> "thread.session-set"
    [] type = "thread.proposed-plan.upsert" -> "thread.proposed-plan-upserted"
    [] type = "thread.revert.complete"      -> "thread.reverted"
    [] OTHER                                -> "other"

EventTypes(cmd) ==
  IF cmd.type = "thread.turn.start"
  THEN <<"thread.message-sent", "thread.turn-start-requested">>
  ELSE <<EventType(cmd.type)>>

EventsOf(id, cmd) ==
  [i \in DOMAIN EventTypes(cmd) |->
     [type |-> EventTypes(cmd)[i], cmd |-> id, project |-> cmd.project,
      thread |-> cmd.thread, arg |-> cmd.arg]]

-----------------------------------------------------------------------------
(* projectEvent: what an event does to the in-memory entry of its thread.   *)

ThreadCreated(event) ==
  [present |-> TRUE, project |-> event.project, archived |-> FALSE,
   running |-> FALSE, hasPlan |-> FALSE]

\* The status of the session is the one the event carries.
SessionSet(entry, event) == [entry EXCEPT !.running = (event.arg = "running")]

PlanUpserted(entry) == [entry EXCEPT !.hasPlan = TRUE]

\* A running session becomes ready, with no active turn, and the plans of the
\* turns that go are dropped.  Which plans those are follows from the turns'
\* checkpoint counts, and is here the event's argument.
Reverted(entry, event) ==
  [entry EXCEPT !.running = FALSE, !.hasPlan = @ /\ event.arg # "dropsPlan"]

ProjectEntry(entry, event) ==
  CASE event.type = "thread.archived"               -> [entry EXCEPT !.archived = TRUE]
    [] event.type = "thread.unarchived"             -> [entry EXCEPT !.archived = FALSE]
    [] event.type = "thread.session-set"            -> SessionSet(entry, event)
    [] event.type = "thread.proposed-plan-upserted" -> PlanUpserted(entry)
    [] event.type = "thread.reverted"               -> Reverted(entry, event)
    [] OTHER                                        -> entry

\* All but a creation apply to an entry that exists.
ProjectThread(entry, event) ==
  IF event.type = "thread.created" THEN ThreadCreated(event)
  ELSE IF entry.present THEN ProjectEntry(entry, event) ELSE entry

ProjectEvent(state, event) ==
  [projects |-> IF event.type = "project.created"
                THEN state.projects \cup {event.project} ELSE state.projects,
   threads  |-> IF event.thread \in Threads
                THEN [state.threads EXCEPT
                        ![event.thread] = ProjectThread(@, event)]
                ELSE state.threads]

\* Every event of a sequence projected in turn, from a given state.
ProjectEvents(state, events) ==
  LET f[n \in 0 .. Len(events)] ==
        IF n = 0 THEN state ELSE ProjectEvent(f[n - 1], events[n])
  IN f[Len(events)]

=============================================================================
