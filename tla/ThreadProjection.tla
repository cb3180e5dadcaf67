--------------------------- MODULE ThreadProjection ---------------------------
(***************************************************************************)
(* The two projections of one thread's events: the in-memory read model    *)
(* (projector.ts) and the SQL tables (ProjectionPipeline.ts), from which a *)
(* snapshot (ProjectionSnapshotQuery.ts) is read for every client and for  *)
(* the engine when the server starts.  Only the thread's session, its      *)
(* turns and their checkpoints are kept.                                   *)
(*                                                                         *)
(* Requests are ordered as the events are: the timestamps by which the     *)
(* latest turn of a snapshot is chosen are taken to be distinct and in     *)
(* that order.                                                             *)
(***************************************************************************)
EXTENDS Integers, SequencesExt

CONSTANT Turns          \* the identifiers of turns

NoTurn == 0

ASSUME TurnsAssumption == Turns \subseteq Nat \ {NoTurn}

SettledStatuses == {"ready", "interrupted", "stopped", "error"}
Statuses == {"none", "starting", "running"} \cup SettledStatuses

TurnStates == {"running", "completed", "interrupted", "error"}
CheckpointStatuses == {"missing", "ready", "error"}

\* Thread events; every event has all the fields.
NoEvent == [type |-> "none", turn |-> NoTurn, status |-> "none", count |-> 0]
TurnStartRequested == [NoEvent EXCEPT !.type = "turn-start-requested"]
TurnInterruptRequested(t) == [NoEvent EXCEPT !.type = "turn-interrupt-requested", !.turn = t]
SessionSet(s, t) == [NoEvent EXCEPT !.type = "session-set", !.status = s, !.turn = t]
MessageDelta(t) == [NoEvent EXCEPT !.type = "message-delta", !.turn = t]
MessageComplete(t) == [NoEvent EXCEPT !.type = "message-complete", !.turn = t]
DiffCompleted(t, n, s) ==
  [type |-> "turn-diff-completed", turn |-> t, status |-> s, count |-> n]
RevertRequested(n) == [NoEvent EXCEPT !.type = "checkpoint-revert-requested", !.count = n]
Reverted(n) == [NoEvent EXCEPT !.type = "reverted", !.count = n]

\* The elements of s that are in S, in the order they have in s.
Filter(s, S) ==
  LET kept[n \in 0 .. Len(s)] ==
        IF n = 0 THEN << >>
        ELSE IF s[n] \in S THEN Append(kept[n - 1], s[n]) ELSE kept[n - 1]
  IN kept[Len(s)]

-----------------------------------------------------------------------------
(* The read model's thread                                                 *)

NoLatest == [turn |-> NoTurn, state |-> "none", done |-> TRUE]

EmptyThread ==
  [status |-> "none", turn |-> NoTurn, latest |-> NoLatest, checkpoints |-> << >>]

CheckpointOf(thread, t) ==
  Filter(thread.checkpoints, {c \in ToSet(thread.checkpoints) : c.turn = t})
HasCheckpoint(thread, t) == CheckpointOf(thread, t) # << >>
HasRealCheckpoint(thread, t) ==
  \E i \in DOMAIN thread.checkpoints :
    thread.checkpoints[i].turn = t /\ thread.checkpoints[i].status # "missing"

\* Checkpoints are kept sorted by their turn count.
CurrentTurnCount(thread) ==
  IF thread.checkpoints = << >> THEN 0 ELSE Last(thread.checkpoints).count

\* Mutation: the turn's former checkpoint is kept.
WithCheckpoint_Both(checkpoints, c) ==
  LET all == ToSet(checkpoints)
  IN Filter(checkpoints, {d \in all : d.count <= c.count})
       \o <<c>> \o Filter(checkpoints, {d \in all : d.count > c.count})

\* A new checkpoint goes after those with the same turn count: sorting is stable.
WithCheckpoint(checkpoints, c) ==
  LET others == {d \in ToSet(checkpoints) : d.turn # c.turn}
  IN Filter(checkpoints, {d \in others : d.count <= c.count})
       \o <<c>> \o Filter(checkpoints, {d \in others : d.count > c.count})

\* Mutation: the active turn of a settled session is kept.
NormalizedTurn_Kept(status, turn) == turn

NormalizedTurn(status, turn) == IF status = "running" THEN turn ELSE NoTurn

SettledTurnState(status) ==
  CASE status = "ready" -> "completed"
    [] status \in {"interrupted", "stopped"} -> "interrupted"
    [] status = "error" -> "error"

\* Mutation: only a session that becomes ready settles its turn.
Settles_ReadyOnly(latest, e) ==
  /\ e.status = "ready"
  /\ ~latest.done
  /\ e.turn \in {NoTurn, latest.turn}

Settles(latest, e) ==
  /\ e.status \in SettledStatuses
  /\ ~latest.done
  /\ e.turn \in {NoTurn, latest.turn}

ReconciledLatest(latest, e) ==
  IF e.status = "running" /\ e.turn # NoTurn
  THEN [turn |-> e.turn, state |-> "running", done |-> FALSE]
  ELSE IF Settles(latest, e)
  THEN [latest EXCEPT !.state = IF @ = "error" THEN @ ELSE SettledTurnState(e.status),
                      !.done = TRUE]
  ELSE latest

LatestOfCheckpoint(c) ==
  [turn |-> c.turn, done |-> TRUE,
   state |-> CASE c.status = "error" -> "error"
               [] c.status = "missing" -> "interrupted"
               [] c.status = "ready" -> "completed"]

\* Mutation: any checkpoint of a turn replaces the one it has.
Clobbers_Never(thread, e) == FALSE

\* A placeholder that comes after the real checkpoint.
Clobbers(thread, e) == e.status = "missing" /\ HasRealCheckpoint(thread, e.turn)

ProjectThread(thread, e) ==
  CASE e.type = "session-set" ->
         [thread EXCEPT !.status = e.status,
                        !.turn = NormalizedTurn(e.status, e.turn),
                        !.latest = ReconciledLatest(@, e)]
    [] e.type = "turn-diff-completed" ->
         LET c == [turn |-> e.turn, count |-> e.count, status |-> e.status]
         IN IF Clobbers(thread, e) THEN thread
            ELSE [thread EXCEPT !.checkpoints = WithCheckpoint(@, c),
                                !.latest = LatestOfCheckpoint(c)]
    [] e.type = "reverted" ->
         LET early == {c \in ToSet(thread.checkpoints) : c.count <= e.count}
             kept == Filter(thread.checkpoints, early)
         IN [status |-> IF thread.status = "running" THEN "ready" ELSE thread.status,
             turn |-> NoTurn,
             latest |-> IF kept = << >> THEN NoLatest ELSE LatestOfCheckpoint(Last(kept)),
             checkpoints |-> kept]
    [] OTHER -> thread

-----------------------------------------------------------------------------
(* The tables: projection_thread_sessions and projection_turns             *)

\* A count of 0 stands for checkpoint columns that are NULL.
NoRow == [state |-> "none", done |-> FALSE, count |-> 0, checkpoint |-> "none"]

\* order: the turns that have a row, by requested_at.  pending: the pending
\* turn start, as the place its requested_at has in that order; 0 for none.
EmptyTables ==
  [status |-> "none", turn |-> NoTurn, order |-> << >>, pending |-> 0,
   row |-> [t \in Turns |-> NoRow]]

HasRow(tables, t) == tables.row[t].state # "none"

\* upsertByTurnId: a new row is requested now, or when the pending start was.
Upserted(tables, t, row, at) ==
  [tables EXCEPT !.row[t] = row,
                 !.order = IF HasRow(tables, t) THEN @ ELSE InsertAt(@, at, t)]

Now(tables) == Len(tables.order) + 1

SessionSetTurns(tables, e) ==
  IF e.turn = NoTurn \/ e.status # "running" THEN tables
  ELSE LET old == tables.row[e.turn]
           state == IF old.state \in {"completed", "error"} THEN old.state ELSE "running"
           at == IF tables.pending # 0 THEN tables.pending ELSE Now(tables)
       IN [Upserted(tables, e.turn, [old EXCEPT !.state = state], at) EXCEPT !.pending = 0]

MessageTurns(tables, e) ==
  LET old == tables.row[e.turn]
      row == IF e.type = "message-delta"
             THEN [old EXCEPT !.state = IF HasRow(tables, e.turn) THEN @ ELSE "running"]
             ELSE [old EXCEPT !.state = IF @ \in {"interrupted", "error"} THEN @ ELSE "completed",
                              !.done = TRUE]
  IN Upserted(tables, e.turn, row, Now(tables))

InterruptTurns(tables, e) ==
  IF e.turn = NoTurn THEN tables
  ELSE Upserted(tables, e.turn,
                [tables.row[e.turn] EXCEPT !.state = "interrupted", !.done = TRUE],
                Now(tables))

\* Mutation: another turn keeps a checkpoint with the same turn count.
WithoutConflict_Kept(rows, t, n) == rows

WithoutConflict(rows, t, n) ==
  [u \in Turns |-> IF u # t /\ rows[u].count = n
                   THEN [rows[u] EXCEPT !.count = 0, !.checkpoint = "none"]
                   ELSE rows[u]]

DiffTurns(tables, e) ==
  Upserted([tables EXCEPT !.row = WithoutConflict(@, e.turn, e.count)], e.turn,
           [state |-> IF e.status = "error" THEN "error" ELSE "completed", done |-> TRUE,
            count |-> e.count, checkpoint |-> e.status],
           Now(tables))

RevertTurns(tables, e) ==
  LET kept == {t \in Turns : tables.row[t].count \in 1 .. e.count}
  IN [status |-> IF tables.status = "running" THEN "ready" ELSE tables.status,
      turn |-> NoTurn,
      order |-> Filter(tables.order, kept),
      pending |-> 0,
      row |-> [t \in Turns |-> IF t \in kept THEN tables.row[t] ELSE NoRow]]

ProjectTables(tables, e) ==
  CASE e.type = "turn-start-requested" -> [tables EXCEPT !.pending = Now(tables)]
    [] e.type = "session-set" ->
         [SessionSetTurns(tables, e) EXCEPT !.status = e.status, !.turn = e.turn]
    [] e.type \in {"message-delta", "message-complete"} -> MessageTurns(tables, e)
    [] e.type = "turn-interrupt-requested" -> InterruptTurns(tables, e)
    [] e.type = "turn-diff-completed" -> DiffTurns(tables, e)
    [] e.type = "reverted" -> RevertTurns(tables, e)
    [] OTHER -> tables

-----------------------------------------------------------------------------
(* The thread as a snapshot shows it                                       *)

SnapshotLatest(tables) ==
  IF tables.order = << >> THEN NoLatest
  ELSE LET t == Last(tables.order)
       IN [turn |-> t, state |-> tables.row[t].state, done |-> tables.row[t].done]

SnapshotCheckpoints(tables) ==
  LET captured == {t \in Turns : tables.row[t].count # 0}
      turns == CHOOSE s \in [1 .. Cardinality(captured) -> captured] :
                 \A i, j \in DOMAIN s : i < j => tables.row[s[i]].count < tables.row[s[j]].count
  IN [i \in DOMAIN turns |->
        [turn |-> turns[i], count |-> tables.row[turns[i]].count,
         status |-> tables.row[turns[i]].checkpoint]]

Snapshot(tables) ==
  [status |-> tables.status, turn |-> tables.turn,
   latest |-> SnapshotLatest(tables), checkpoints |-> SnapshotCheckpoints(tables)]

=============================================================================
