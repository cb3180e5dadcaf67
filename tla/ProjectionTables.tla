-------------------------- MODULE ProjectionTables --------------------------
(***************************************************************************)
(* The SQL projections of the events the decider depends on: what each     *)
(* projector of ProjectionPipeline.ts does to its own table, and the read  *)
(* model ProjectionSnapshotQuery.getSnapshot joins from the tables.  The   *)
(* in-memory projector (Decider!ProjectEvent) is a second implementation   *)
(* of the same projection: it keeps sessions and plans inside the entry of *)
(* a thread, where the tables keep rows that know nothing of the thread.   *)
(*                                                                         *)
(* The sequence is the cursor of every projector (projection_state): the   *)
(* projectors run one after the other in the transaction that appends the  *)
(* event, so that their cursors agree outside it.                          *)
(*                                                                         *)
(* Two differences are left out.  A revert drops the plans of the turns    *)
(* above its count, which memory looks up in the checkpoints and SQL in    *)
(* the turns: which it drops is the event's argument here, for both        *)
(* (TurnLifecycle has the counts).  And memory keeps the last 200 plans of *)
(* a thread, SQL all of them; here a thread has a plan or has none.        *)
(***************************************************************************)
EXTENDS Decider

NoRow == "noRow"

ThreadRow == [present : BOOLEAN, project : Projects \cup {NoProject},
              archived : BOOLEAN]

NoThreadRow == [present |-> FALSE, project |-> NoProject, archived |-> FALSE]

\* A session row is its status; a thread has a plan row or not.
EmptyTables ==
  [sequence |-> 0, projects |-> {},
   threads  |-> [thread \in Threads |-> NoThreadRow],
   sessions |-> [thread \in Threads |-> NoRow],
   plans    |-> {}]

-----------------------------------------------------------------------------
(* One operator per projector; each sees every event.                      *)

\* applyProjectsProjection
ProjectsTable(projects, event) ==
  IF event.type = "project.created" THEN projects \cup {event.project}
  ELSE projects

\* applyThreadsProjection: a creation replaces the row of its thread, every
\* other event changes a row that exists.
ThreadsTable(threads, event) ==
  CASE event.type = "thread.created" ->
         [threads EXCEPT ![event.thread] =
            [present |-> TRUE, project |-> event.project, archived |-> FALSE]]
    [] event.type \in {"thread.archived", "thread.unarchived"} ->
         [threads EXCEPT ![event.thread].archived =
            IF threads[event.thread].present
            THEN event.type = "thread.archived" ELSE @]
    [] OTHER -> threads

\* applyThreadProposedPlansProjection: the row is written whether or not
\* there is a thread.
PlansTable(plans, event) ==
  CASE event.type = "thread.proposed-plan-upserted" -> plans \cup {event.thread}
    [] event.type = "thread.reverted" /\ event.arg = "dropsPlan" ->
         plans \ {event.thread}
    [] OTHER -> plans

\* Mutation: the row of a reverted thread is left alone.
SessionsTable_RevertIgnored(sessions, event) ==
  IF event.type = "thread.session-set"
  THEN [sessions EXCEPT ![event.thread] = event.arg] ELSE sessions

\* applyThreadSessionsProjection: likewise, and a creation does not touch it.
SessionsTable(sessions, event) ==
  CASE event.type = "thread.session-set" ->
         [sessions EXCEPT ![event.thread] = event.arg]
    [] event.type = "thread.reverted" ->
         [sessions EXCEPT ![event.thread] = IF @ = "running" THEN "ready" ELSE @]
    [] OTHER -> sessions

\* runProjectorForEvent, for each projector.
RunProjectors(tables, event, sequence) ==
  [sequence |-> sequence,
   projects |-> ProjectsTable(tables.projects, event),
   threads  |-> ThreadsTable(tables.threads, event),
   sessions |-> SessionsTable(tables.sessions, event),
   plans    |-> PlansTable(tables.plans, event)]

\* The projectors run on events[1 .. n], stored from sequence from + 1 on.
RunPipeline(tables, events, from) ==
  LET f[n \in 0 .. Len(events)] ==
        IF n = 0 THEN tables ELSE RunProjectors(f[n - 1], events[n], from + n)
  IN f[Len(events)]

-----------------------------------------------------------------------------
(* getSnapshot: the threads are the rows of projection_threads, each with  *)
(* the session and the plans stored under its identifier.                  *)

SnapshotThread(tables, thread) ==
  LET row == tables.threads[thread] IN
  IF row.present
  THEN [present |-> TRUE, project |-> row.project, archived |-> row.archived,
        running |-> tables.sessions[thread] = "running",
        hasPlan |-> thread \in tables.plans]
  ELSE AbsentThread

Snapshot(tables) ==
  [sequence |-> tables.sequence,
   state    |-> [projects |-> tables.projects,
                 threads  |-> [thread \in Threads |->
                                 SnapshotThread(tables, thread)]]]

=============================================================================
