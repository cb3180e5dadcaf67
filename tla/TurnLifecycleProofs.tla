-------------------------- MODULE TurnLifecycleProofs --------------------------
(***************************************************************************)
(* Theorems about one thread's turns, for every set of turns and all       *)
(* budgets.  What is said of sessions, counts and ends of turns is proved  *)
(* for events of any shape: an event need not be well-formed for it.  That *)
(* every event is well-formed, and the types that rest on it, come last.   *)
(***************************************************************************)
EXTENDS TurnLifecycle, SequenceTheorems, FiniteSetTheorems, TLAPS

-----------------------------------------------------------------------------
(* Shapes: the records have the fields they should have, whatever these hold *)

IsLatest(x) == x \in [turn : {x.turn}, state : {x.state}, done : {x.done}]

IsThread(x) ==
  /\ x \in [status : {x.status}, turn : {x.turn}, latest : {x.latest},
            checkpoints : {x.checkpoints}]
  /\ IsLatest(x.latest)

IsRow(x) ==
  x \in [state : {x.state}, done : {x.done}, count : {x.count}, checkpoint : {x.checkpoint}]

AreRows(rows) ==
  /\ rows = [u \in Turns |-> rows[u]]
  /\ \A u \in Turns : IsRow(rows[u])

IsTables(x) ==
  /\ x \in [status : {x.status}, turn : {x.turn}, order : {x.order}, pending : {x.pending},
            row : {x.row}]
  /\ AreRows(x.row)

\* CountsDistinct, of any rows.
Distinct(rows) ==
  \A t, u \in Turns : rows[t].count = rows[u].count /\ t # u => rows[t].count = 0

-----------------------------------------------------------------------------
(* The read model                                                          *)

\* The latest turn keeps its shape, and a settled session that names no turn
\* leaves it done.
LEMMA LatestFacts ==
  ASSUME NEW l, IsLatest(l), NEW e
  PROVE  /\ IsLatest(ReconciledLatest(l, e))
         /\ e.status \in SettledStatuses /\ e.turn = NoTurn => ReconciledLatest(l, e).done
<1> DEFINE y == ReconciledLatest(l, e)
<1>1. CASE e.status = "running" /\ e.turn # NoTurn
  <2>1. y = [turn |-> e.turn, state |-> "running", done |-> FALSE]
    BY <1>1 DEF ReconciledLatest
  <2>2. IsLatest(y)
    BY <2>1 DEF IsLatest
  <2> QED
    BY <1>1, <2>2
<1>2. CASE ~(e.status = "running" /\ e.turn # NoTurn) /\ Settles(l, e)
  <2> DEFINE state == IF l.state = "error" THEN l.state ELSE SettledTurnState(e.status)
  <2>1. y = [l EXCEPT !.state = state, !.done = TRUE]
    BY <1>2 DEF ReconciledLatest
  <2> HIDE DEF state
  <2> DEFINE z == [l EXCEPT !.state = state, !.done = TRUE]
  <2>2. /\ z.turn = l.turn /\ z.state = state /\ z.done = TRUE
        /\ z \in [turn : {l.turn}, state : {state}, done : {TRUE}]
    BY DEF IsLatest
  <2> HIDE DEF y, z
  <2>3. IsLatest(z) /\ z.done
    BY <2>2 DEF IsLatest
  <2>4. y = z
    BY <2>1 DEF z
  <2> QED
    BY <2>3, <2>4 DEF y
<1>3. CASE ~(e.status = "running" /\ e.turn # NoTurn) /\ ~Settles(l, e)
  <2>1. y = l
    BY <1>3 DEF ReconciledLatest
  <2>2. e.status \in SettledStatuses /\ e.turn = NoTurn => l.done
    BY <1>3 DEF Settles
  <2> QED
    BY <2>1, <2>2
<1> QED
  BY <1>1, <1>2, <1>3

\* A checkpoint's turn is the latest, and done.
LEMMA CheckpointIsLatest ==
  ASSUME NEW c
  PROVE  IsLatest(LatestOfCheckpoint(c)) /\ LatestOfCheckpoint(c).done
BY DEF LatestOfCheckpoint, IsLatest

\* What the read model makes of any event: only sessions and reverts change the
\* session, and only a session may put a turn that is not done in the place of
\* one that is.
LEMMA ThreadFacts ==
  ASSUME NEW x, IsThread(x), NEW e
  PROVE  LET y == ProjectThread(x, e)
         IN /\ IsThread(y)
            /\ e.type = "session-set" =>
                 /\ y.status = e.status
                 /\ y.turn = NormalizedTurn(e.status, e.turn)
                 /\ e.status \in SettledStatuses /\ e.turn = NoTurn => y.latest.done
            /\ e.type = "reverted" =>
                 /\ y.status = IF x.status = "running" THEN "ready" ELSE x.status
                 /\ y.turn = NoTurn
                 /\ y.latest.done
            /\ e.type \notin {"session-set", "reverted"} =>
                 /\ y.status = x.status
                 /\ y.turn = x.turn
                 /\ x.latest.done => y.latest.done
<1> DEFINE y == ProjectThread(x, e)
<1> IsLatest(x.latest)
  BY DEF IsThread
<1>1. CASE e.type = "session-set"
  <2> DEFINE turn == NormalizedTurn(e.status, e.turn)
             latest == ReconciledLatest(x.latest, e)
  <2>1. y = [x EXCEPT !.status = e.status, !.turn = turn, !.latest = latest]
    BY <1>1 DEF ProjectThread
  <2>2. /\ IsLatest(latest)
        /\ e.status \in SettledStatuses /\ e.turn = NoTurn => latest.done
    BY LatestFacts
  <2> HIDE DEF y, turn, latest
  <2>3. /\ y.status = e.status /\ y.turn = turn /\ y.latest = latest
        /\ y.checkpoints = x.checkpoints
        /\ y \in [status : {e.status}, turn : {turn}, latest : {latest},
                  checkpoints : {x.checkpoints}]
    BY <2>1 DEF IsThread
  <2>4. IsThread(y)
    BY <2>2, <2>3 DEF IsThread
  <2> QED
    BY <1>1, <2>2, <2>3, <2>4 DEF y, turn
<1>2. CASE e.type = "turn-diff-completed" /\ Clobbers(x, e)
  <2>1. y = x
    BY <1>2 DEF ProjectThread
  <2> QED
    BY <1>2, <2>1
<1>3. CASE e.type = "turn-diff-completed" /\ ~Clobbers(x, e)
  <2> DEFINE c == [turn |-> e.turn, count |-> e.count, status |-> e.status]
             kept == WithCheckpoint(x.checkpoints, c)
  <2>1. y = [x EXCEPT !.checkpoints = kept, !.latest = LatestOfCheckpoint(c)]
    BY <1>3 DEF ProjectThread
  <2> DEFINE latest == LatestOfCheckpoint(c)
  <2>2. IsLatest(latest) /\ latest.done
    BY CheckpointIsLatest
  <2> HIDE DEF y, c, kept, latest
  <2>3. /\ y.status = x.status /\ y.turn = x.turn /\ y.latest = latest /\ y.checkpoints = kept
        /\ y \in [status : {x.status}, turn : {x.turn}, latest : {latest}, checkpoints : {kept}]
    BY <2>1 DEF IsThread, latest
  <2>4. IsThread(y) /\ y.latest.done
    BY <2>2, <2>3 DEF IsThread
  <2> QED
    BY <1>3, <2>3, <2>4 DEF y
<1>4. CASE e.type = "reverted"
  <2> DEFINE early == {c \in ToSet(x.checkpoints) : c.count <= e.count}
             kept == Filter(x.checkpoints, early)
             latest == IF kept = << >> THEN NoLatest ELSE LatestOfCheckpoint(Last(kept))
             status == IF x.status = "running" THEN "ready" ELSE x.status
  <2>1. y = [status |-> status, turn |-> NoTurn, latest |-> latest, checkpoints |-> kept]
    BY <1>4 DEF ProjectThread
  <2>2. IsLatest(latest) /\ latest.done
    <3>1. IsLatest(NoLatest) /\ NoLatest.done
      BY DEF NoLatest, IsLatest
    <3> HIDE DEF kept
    <3> QED
      BY <3>1, CheckpointIsLatest
  <2> HIDE DEF y, kept, latest, status
  <2>3. /\ y.status = status /\ y.turn = NoTurn /\ y.latest = latest /\ y.checkpoints = kept
        /\ y \in [status : {status}, turn : {NoTurn}, latest : {latest}, checkpoints : {kept}]
    BY <2>1
  <2>4. IsThread(y)
    BY <2>2, <2>3 DEF IsThread
  <2>5. y.latest.done
    BY <2>2, <2>3
  <2> QED
    BY <1>4, <2>3, <2>4, <2>5 DEF y, status
<1>5. CASE e.type \notin {"session-set", "turn-diff-completed", "reverted"}
  <2>1. y = x
    BY <1>5 DEF ProjectThread
  <2> QED
    BY <1>5, <2>1
<1> QED
  BY <1>1, <1>2, <1>3, <1>4, <1>5

-----------------------------------------------------------------------------
(* The tables                                                              *)

\* A turn's row is replaced by one that has no other turn's count.
LEMMA UpsertedFacts ==
  ASSUME NEW x, IsTables(x), NEW t, NEW row, NEW at, Distinct(x.row),
         t \in Turns => IsRow(row),
         t \in Turns => \A u \in Turns : u # t /\ x.row[u].count = row.count => row.count = 0
  PROVE  LET y == Upserted(x, t, row, at)
         IN IsTables(y) /\ y.status = x.status /\ y.turn = x.turn /\ Distinct(y.row)
<1> DEFINE y == Upserted(x, t, row, at)
           order == IF HasRow(x, t) THEN x.order ELSE InsertAt(x.order, at, t)
           rows == [x.row EXCEPT ![t] = row]
<1>1. y = [x EXCEPT !.row = rows, !.order = order]
  BY DEF Upserted, IsTables
<1>2. AreRows(rows) /\ Distinct(rows)
  <2>1. rows = [u \in Turns |-> IF u = t THEN row ELSE x.row[u]]
    BY DEF IsTables, AreRows
  <2> HIDE DEF rows
  <2>2. AreRows(rows)
    BY <2>1 DEF IsTables, AreRows
  <2>3. Distinct(rows)
    BY <2>1 DEF Distinct
  <2> QED
    BY <2>2, <2>3
<1> HIDE DEF rows, order
<1> DEFINE z == [x EXCEPT !.row = rows, !.order = order]
<1>3. /\ z.status = x.status /\ z.turn = x.turn /\ z.order = order /\ z.pending = x.pending
      /\ z.row = rows
      /\ z \in [status : {x.status}, turn : {x.turn}, order : {order}, pending : {x.pending},
                row : {rows}]
  BY DEF IsTables
<1> HIDE DEF y, z
<1>4. IsTables(z)
  BY <1>2, <1>3 DEF IsTables
<1>5. y = z
  BY <1>1 DEF z
<1>6. Distinct(z.row)
  BY <1>2, <1>3
<1> QED
  BY <1>3, <1>4, <1>5, <1>6 DEF y

\* The former owner of a turn count gives it up.
LEMMA ConflictFacts ==
  ASSUME NEW rows, AreRows(rows), Distinct(rows), NEW t, NEW n
  PROVE  LET free == WithoutConflict(rows, t, n)
         IN /\ AreRows(free) /\ Distinct(free)
            /\ \A u \in Turns : u # t /\ free[u].count = n => n = 0
<1> DEFINE free == WithoutConflict(rows, t, n)
<1>1. ASSUME NEW u \in Turns, u # t, rows[u].count = n
      PROVE  IsRow(free[u]) /\ free[u].count = 0
  <2>1. free[u] = [rows[u] EXCEPT !.count = 0, !.checkpoint = "none"]
    BY <1>1 DEF WithoutConflict
  <2>2. IsRow(rows[u])
    BY DEF AreRows
  <2> DEFINE r == rows[u]
             z == [r EXCEPT !.count = 0, !.checkpoint = "none"]
  <2> HIDE DEF r, free
  <2>3. /\ z.state = r.state /\ z.done = r.done /\ z.count = 0 /\ z.checkpoint = "none"
        /\ z \in [state : {r.state}, done : {r.done}, count : {0}, checkpoint : {"none"}]
    BY <2>2 DEF IsRow, r
  <2>4. free[u] = z
    BY <2>1 DEF r
  <2> HIDE DEF z
  <2> QED
    BY <2>3, <2>4 DEF IsRow
<1>2. ASSUME NEW u \in Turns, ~(u # t /\ rows[u].count = n)
      PROVE  free[u] = rows[u]
  BY <1>2 DEF WithoutConflict
<1>3. free = [u \in Turns |-> free[u]]
  BY DEF WithoutConflict
<1> HIDE DEF free
<1>4. AreRows(free)
  BY <1>1, <1>2, <1>3 DEF AreRows
<1>5. Distinct(free)
  BY <1>1, <1>2 DEF Distinct
<1>6. \A u \in Turns : u # t /\ free[u].count = n => n = 0
  BY <1>1, <1>2
<1> QED
  BY <1>4, <1>5, <1>6 DEF free

\* An event changes what a turn's row tells of the turn, not its count.
LEMMA SameCountUpserted ==
  ASSUME NEW x, IsTables(x), Distinct(x.row), NEW t, NEW row, NEW at,
         t \in Turns => IsRow(row) /\ row.count = x.row[t].count
  PROVE  LET y == Upserted(x, t, row, at)
         IN IsTables(y) /\ y.status = x.status /\ y.turn = x.turn /\ Distinct(y.row)
<1>1. t \in Turns => \A u \in Turns : u # t /\ x.row[u].count = row.count => row.count = 0
  BY DEF Distinct
<1> QED
  BY <1>1, UpsertedFacts

\* A session that runs touches the row of its turn, and no count.
LEMMA SessionSetTurnsFacts ==
  ASSUME NEW x, IsTables(x), Distinct(x.row), NEW e
  PROVE  LET y == SessionSetTurns(x, e) IN IsTables(y) /\ Distinct(y.row)
<1> DEFINE y == SessionSetTurns(x, e)
<1>1. CASE e.turn = NoTurn \/ e.status # "running"
  <2>1. y = x
    BY <1>1 DEF SessionSetTurns
  <2> QED
    BY <2>1
<1>2. CASE ~(e.turn = NoTurn \/ e.status # "running")
  <2> DEFINE old == x.row[e.turn]
             state == IF old.state \in {"completed", "error"} THEN old.state ELSE "running"
             row == [old EXCEPT !.state = state]
             at == IF x.pending # 0 THEN x.pending ELSE Now(x)
             z == Upserted(x, e.turn, row, at)
  <2>1. y = [z EXCEPT !.pending = 0]
    BY <1>2 DEF SessionSetTurns
  <2>2. e.turn \in Turns => IsRow(row) /\ row.count = x.row[e.turn].count
    <3> SUFFICES ASSUME e.turn \in Turns PROVE IsRow(row) /\ row.count = old.count
      OBVIOUS
    <3>1. IsRow(old)
      BY DEF IsTables, AreRows
    <3> HIDE DEF old, state
    <3>2. /\ row.state = state /\ row.done = old.done /\ row.count = old.count
          /\ row.checkpoint = old.checkpoint
          /\ row \in [state : {state}, done : {old.done}, count : {old.count},
                      checkpoint : {old.checkpoint}]
      BY <3>1 DEF IsRow
    <3> HIDE DEF row
    <3> QED
      BY <3>2 DEF IsRow
  <2> HIDE DEF row, at
  <2>3. IsTables(z) /\ Distinct(z.row)
    BY <2>2, SameCountUpserted
  <2> HIDE DEF y, z
  <2>4. /\ y.status = z.status /\ y.turn = z.turn /\ y.order = z.order /\ y.pending = 0
        /\ y.row = z.row
        /\ y \in [status : {z.status}, turn : {z.turn}, order : {z.order}, pending : {0},
                  row : {z.row}]
    BY <2>1, <2>3 DEF IsTables
  <2>5. IsTables(y) /\ Distinct(y.row)
    BY <2>3, <2>4 DEF IsTables
  <2> QED
    BY <2>5 DEF y
<1> QED
  BY <1>1, <1>2

\* A message touches the row of its turn, and no count.
LEMMA MessageTurnsFacts ==
  ASSUME NEW x, IsTables(x), Distinct(x.row), NEW e
  PROVE  LET y == MessageTurns(x, e)
         IN IsTables(y) /\ y.status = x.status /\ y.turn = x.turn /\ Distinct(y.row)
<1> DEFINE old == x.row[e.turn]
           begun1 == IF HasRow(x, e.turn) THEN old.state ELSE "running"
           ended == IF old.state \in {"interrupted", "error"} THEN old.state ELSE "completed"
           delta == [old EXCEPT !.state = begun1]
           complete == [old EXCEPT !.state = ended, !.done = TRUE]
           row == IF e.type = "message-delta" THEN delta ELSE complete
           at == Now(x)
<1>1. MessageTurns(x, e) = Upserted(x, e.turn, row, at)
  BY DEF MessageTurns
<1>2. e.turn \in Turns => IsRow(row) /\ row.count = old.count
  <2> SUFFICES ASSUME e.turn \in Turns PROVE IsRow(row) /\ row.count = old.count
    OBVIOUS
  <2>1. IsRow(old)
    BY DEF IsTables, AreRows
  <2> HIDE DEF old, begun1, ended
  <2>2. /\ delta.state = begun1 /\ delta.done = old.done /\ delta.count = old.count
        /\ delta.checkpoint = old.checkpoint
        /\ delta \in [state : {begun1}, done : {old.done}, count : {old.count},
                      checkpoint : {old.checkpoint}]
    BY <2>1 DEF IsRow
  <2>3. /\ complete.state = ended /\ complete.done = TRUE /\ complete.count = old.count
        /\ complete.checkpoint = old.checkpoint
        /\ complete \in [state : {ended}, done : {TRUE}, count : {old.count},
                         checkpoint : {old.checkpoint}]
    BY <2>1 DEF IsRow
  <2> HIDE DEF delta, complete
  <2>4. IsRow(delta) /\ IsRow(complete)
    BY <2>2, <2>3 DEF IsRow
  <2> QED
    BY <2>2, <2>3, <2>4
<1> HIDE DEF row, at
<1> QED
  BY <1>1, <1>2, SameCountUpserted

\* So does an interrupt that names a turn.
LEMMA InterruptTurnsFacts ==
  ASSUME NEW x, IsTables(x), Distinct(x.row), NEW e
  PROVE  LET y == InterruptTurns(x, e)
         IN IsTables(y) /\ y.status = x.status /\ y.turn = x.turn /\ Distinct(y.row)
<1> DEFINE old == x.row[e.turn]
           row == [old EXCEPT !.state = "interrupted", !.done = TRUE]
           at == Now(x)
<1>1. CASE e.turn = NoTurn
  <2>1. InterruptTurns(x, e) = x
    BY <1>1 DEF InterruptTurns
  <2> QED
    BY <2>1
<1>2. CASE e.turn # NoTurn
  <2>1. InterruptTurns(x, e) = Upserted(x, e.turn, row, at)
    BY <1>2 DEF InterruptTurns
  <2>2. e.turn \in Turns => IsRow(row) /\ row.count = old.count
    <3> SUFFICES ASSUME e.turn \in Turns PROVE IsRow(row) /\ row.count = old.count
      OBVIOUS
    <3>1. IsRow(old)
      BY DEF IsTables, AreRows
    <3> HIDE DEF old
    <3>2. /\ row.state = "interrupted" /\ row.done = TRUE /\ row.count = old.count
          /\ row.checkpoint = old.checkpoint
          /\ row \in [state : {"interrupted"}, done : {TRUE}, count : {old.count},
                      checkpoint : {old.checkpoint}]
      BY <3>1 DEF IsRow
    <3> HIDE DEF row
    <3> QED
      BY <3>2 DEF IsRow
  <2> HIDE DEF row, at
  <2> QED
    BY <2>1, <2>2, SameCountUpserted
<1> QED
  BY <1>1, <1>2

\* A checkpoint's turn count is taken from the turn that has it, if any.
LEMMA DiffTurnsFacts ==
  ASSUME NEW x, IsTables(x), Distinct(x.row), NEW e
  PROVE  LET y == DiffTurns(x, e)
         IN IsTables(y) /\ y.status = x.status /\ y.turn = x.turn /\ Distinct(y.row)
<1> DEFINE free == WithoutConflict(x.row, e.turn, e.count)
           z == [x EXCEPT !.row = free]
           state == IF e.status = "error" THEN "error" ELSE "completed"
           row == [state |-> state, done |-> TRUE, count |-> e.count, checkpoint |-> e.status]
           at == Now(x)
<1>1. DiffTurns(x, e) = Upserted(z, e.turn, row, at)
  BY DEF DiffTurns
<1>2. /\ AreRows(free) /\ Distinct(free)
      /\ \A u \in Turns : u # e.turn /\ free[u].count = e.count => e.count = 0
  BY ConflictFacts DEF IsTables
<1> HIDE DEF free, state, at
<1>3. IsRow(row) /\ row.count = e.count
  BY DEF IsRow
<1> HIDE DEF row
<1>4. /\ z.status = x.status /\ z.turn = x.turn /\ z.order = x.order /\ z.pending = x.pending
      /\ z.row = free
      /\ z \in [status : {x.status}, turn : {x.turn}, order : {x.order},
                pending : {x.pending}, row : {free}]
  BY DEF IsTables
<1> HIDE DEF z
<1>5. IsTables(z) /\ Distinct(z.row)
  BY <1>2, <1>4 DEF IsTables
<1>6. \A u \in Turns : u # e.turn /\ z.row[u].count = row.count => row.count = 0
  BY <1>2, <1>3, <1>4
<1> DEFINE y == Upserted(z, e.turn, row, at)
<1>7. IsTables(y) /\ y.status = z.status /\ y.turn = z.turn /\ Distinct(y.row)
  BY <1>3, <1>5, <1>6, UpsertedFacts
<1> HIDE DEF y
<1>8. y.status = x.status /\ y.turn = x.turn
  BY <1>4, <1>7
<1>9. DiffTurns(x, e) = y
  BY <1>1 DEF y
<1> QED
  BY <1>7, <1>8, <1>9

\* A revert forgets turns; the counts of those it keeps stay.
LEMMA RevertTurnsFacts ==
  ASSUME NEW x, IsTables(x), Distinct(x.row), NEW e
  PROVE  LET y == RevertTurns(x, e)
         IN /\ IsTables(y) /\ Distinct(y.row)
            /\ y.status = IF x.status = "running" THEN "ready" ELSE x.status
            /\ y.turn = NoTurn
<1> DEFINE y == RevertTurns(x, e)
           kept == {t \in Turns : x.row[t].count \in 1 .. e.count}
           status == IF x.status = "running" THEN "ready" ELSE x.status
           order == Filter(x.order, kept)
           rows == [t \in Turns |-> IF t \in kept THEN x.row[t] ELSE NoRow]
<1>1. y = [status |-> status, turn |-> NoTurn, order |-> order, pending |-> 0, row |-> rows]
  BY DEF RevertTurns
<1>2. AreRows(rows) /\ Distinct(rows)
  <2> HIDE DEF kept
  <2>1. IsRow(NoRow) /\ NoRow.count = 0
    BY DEF NoRow, IsRow
  <2>2. \A t \in Turns : rows[t] = IF t \in kept THEN x.row[t] ELSE NoRow
    OBVIOUS
  <2>3. rows = [t \in Turns |-> rows[t]]
    OBVIOUS
  <2> HIDE DEF rows
  <2>4. AreRows(rows)
    BY <2>1, <2>2, <2>3 DEF IsTables, AreRows
  <2>5. Distinct(rows)
    BY <2>1, <2>2 DEF Distinct
  <2> QED
    BY <2>4, <2>5
<1> HIDE DEF y, status, order, rows
<1>3. /\ y.status = status /\ y.turn = NoTurn /\ y.order = order /\ y.pending = 0
      /\ y.row = rows
      /\ y \in [status : {status}, turn : {NoTurn}, order : {order}, pending : {0},
                row : {rows}]
  BY <1>1
<1>4. IsTables(y) /\ Distinct(y.row)
  BY <1>2, <1>3 DEF IsTables
<1> QED
  BY <1>3, <1>4 DEF y, status

\* What the tables make of any event: they agree with the read model on what
\* changes the session, and no two turns come to have the same turn count.
LEMMA TablesFacts ==
  ASSUME NEW x, IsTables(x), Distinct(x.row), NEW e
  PROVE  LET y == ProjectTables(x, e)
         IN /\ IsTables(y) /\ Distinct(y.row)
            /\ e.type = "session-set" => y.status = e.status /\ y.turn = e.turn
            /\ e.type = "reverted" =>
                 /\ y.status = IF x.status = "running" THEN "ready" ELSE x.status
                 /\ y.turn = NoTurn
            /\ e.type \notin {"session-set", "reverted"} =>
                 y.status = x.status /\ y.turn = x.turn
<1> DEFINE y == ProjectTables(x, e)
<1>1. CASE e.type = "turn-start-requested"
  <2> DEFINE at == Now(x)
  <2>1. y = [x EXCEPT !.pending = at]
    BY <1>1 DEF ProjectTables
  <2> HIDE DEF y, at
  <2>2. /\ y.status = x.status /\ y.turn = x.turn /\ y.order = x.order /\ y.pending = at
        /\ y.row = x.row
        /\ y \in [status : {x.status}, turn : {x.turn}, order : {x.order}, pending : {at},
                  row : {x.row}]
    BY <2>1 DEF IsTables
  <2>3. IsTables(y)
    BY <2>2 DEF IsTables
  <2> QED
    BY <1>1, <2>2, <2>3 DEF y
<1>2. CASE e.type = "session-set"
  <2> DEFINE z == SessionSetTurns(x, e)
  <2>1. y = [z EXCEPT !.status = e.status, !.turn = e.turn]
    BY <1>2 DEF ProjectTables
  <2>2. IsTables(z) /\ Distinct(z.row)
    BY SessionSetTurnsFacts
  <2> HIDE DEF y, z
  <2>3. /\ y.status = e.status /\ y.turn = e.turn /\ y.order = z.order
        /\ y.pending = z.pending /\ y.row = z.row
        /\ y \in [status : {e.status}, turn : {e.turn}, order : {z.order},
                  pending : {z.pending}, row : {z.row}]
    BY <2>1, <2>2 DEF IsTables
  <2>4. IsTables(y) /\ Distinct(y.row)
    BY <2>2, <2>3 DEF IsTables
  <2> QED
    BY <1>2, <2>3, <2>4 DEF y
<1>3. CASE e.type \in {"message-delta", "message-complete"}
  <2>1. y = MessageTurns(x, e)
    BY <1>3 DEF ProjectTables
  <2> QED
    BY <1>3, <2>1, MessageTurnsFacts
<1>4. CASE e.type = "turn-interrupt-requested"
  <2>1. y = InterruptTurns(x, e)
    BY <1>4 DEF ProjectTables
  <2> QED
    BY <1>4, <2>1, InterruptTurnsFacts
<1>5. CASE e.type = "turn-diff-completed"
  <2>1. y = DiffTurns(x, e)
    BY <1>5 DEF ProjectTables
  <2> QED
    BY <1>5, <2>1, DiffTurnsFacts
<1>6. CASE e.type = "reverted"
  <2>1. y = RevertTurns(x, e)
    BY <1>6 DEF ProjectTables
  <2> QED
    BY <1>6, <2>1, RevertTurnsFacts
<1>7. CASE e.type \notin {"turn-start-requested", "session-set", "message-delta",
                          "message-complete", "turn-interrupt-requested",
                          "turn-diff-completed", "reverted"}
  <2>1. y = x
    BY <1>7 DEF ProjectTables
  <2> QED
    BY <1>7, <2>1
<1> QED
  BY <1>1, <1>2, <1>3, <1>4, <1>5, <1>6, <1>7

-----------------------------------------------------------------------------
(* The session in both projections                                         *)

SInv ==
  /\ IsThread(thread)
  /\ IsTables(tables) /\ Distinct(tables.row)
  /\ SessionsAgree

\* A step projects one event, restarts the server or leaves both projections alone.
LEMMA StepProjects ==
  ASSUME [Next]_vars
  PROVE  /\ \/ UNCHANGED projections
            \/ \E e : Project(e)
            \/ thread' = Snapshot(tables) /\ tables' = tables /\ "restarted" \in faults'
         /\ "restarted" \in faults => "restarted" \in faults'
<1>1. CASE Users /\ UNCHANGED faults
  BY <1>1 DEF Users, RequestTurn, Interrupt, RequestStop, SetRuntimeMode, RequestRevert,
              Dispatch, projections
<1>2. CASE Provider /\ UNCHANGED faults
  BY <1>2 DEF Provider, TurnEnds, TurnAborts, Reports, SessionStateChanges, SessionExits,
              ReplacedSessionExits, RuntimeError, Emit, projections
<1>3. CASE Ingestion /\ UNCHANGED faults
  BY <1>3 DEF Ingestion, IngestBegin, IngestDispatch, Dispatch, projections
<1>4. CASE Checkpointing /\ UNCHANGED faults
  BY <1>4 DEF Checkpointing, CaptureCompletedTurn, HandleDomainEvent, FinishCapture,
              Dispatch, projections
<1>5. CASE Commanding /\ UNCHANGED faults
  BY <1>5 DEF Commanding, TakeCommand, StartSession, BindSession, SendTurn, SendRefused,
              StopSession, UnbindSession, Emit, Dispatch, projections
<1>6. CASE Failures /\ faults' = faults \cup {"gave up"}
  BY <1>6 DEF Failures, IngestFails, CaptureFails, CommandFails, projections
<1>7. CASE Restart /\ faults' = faults \cup {"restarted"}
  BY <1>7 DEF Restart
<1>8. CASE UNCHANGED vars
  BY <1>8 DEF vars, system
<1> QED
  BY <1>1, <1>2, <1>3, <1>4, <1>5, <1>6, <1>7, <1>8 DEF Next

\* What a snapshot shows of the session is what the tables keep.
LEMMA SnapshotFacts ==
  ASSUME NEW x
  PROVE  LET y == Snapshot(x)
         IN IsThread(y) /\ y.status = x.status /\ y.turn = x.turn
<1> DEFINE y == Snapshot(x)
           latest == SnapshotLatest(x)
           checks == SnapshotCheckpoints(x)
<1>1. IsLatest(latest)
  BY DEF SnapshotLatest, NoLatest, IsLatest
<1>2. y = [status |-> x.status, turn |-> x.turn, latest |-> latest, checkpoints |-> checks]
  BY DEF Snapshot
<1> HIDE DEF y, latest, checks
<1>3. /\ y.status = x.status /\ y.turn = x.turn /\ y.latest = latest /\ y.checkpoints = checks
      /\ y \in [status : {x.status}, turn : {x.turn}, latest : {latest}, checkpoints : {checks}]
  BY <1>2
<1>4. IsThread(y)
  BY <1>1, <1>3 DEF IsThread
<1> QED
  BY <1>3, <1>4 DEF y

\* An empty thread has no session.
LEMMA SInvInit == Init => SInv
<1> SUFFICES ASSUME Init PROVE SInv
  OBVIOUS
<1>1. thread = EmptyThread /\ tables = EmptyTables
  BY DEF Init
<1>2. IsThread(EmptyThread)
  BY DEF EmptyThread, NoLatest, IsThread, IsLatest
<1>3. IsTables(EmptyTables)
  BY DEF EmptyTables, NoRow, IsTables, AreRows, IsRow
<1>4. Distinct(EmptyTables.row)
  BY DEF EmptyTables, NoRow, Distinct
<1>5. SessionsAgree
  BY <1>1 DEF EmptyThread, EmptyTables, SessionsAgree
<1> QED
  BY <1>1, <1>2, <1>3, <1>4, <1>5 DEF SInv

\* Any event at all keeps it: both projections take the same from a session.
LEMMA SInvNext == SInv /\ [Next]_vars => SInv'
<1> SUFFICES ASSUME SInv, [Next]_vars PROVE SInv'
  OBVIOUS
<1>0. "restarted" \in faults => "restarted" \in faults'
  BY StepProjects
<1>1. CASE UNCHANGED projections
  BY <1>0, <1>1 DEF SInv, SessionsAgree, projections
<1>2. CASE \E e : Project(e)
  <2>1. PICK e : thread' = ProjectThread(thread, e) /\ tables' = ProjectTables(tables, e)
    BY <1>2 DEF Project
  <2>2. /\ IsThread(thread')
        /\ e.type = "session-set" =>
             thread'.status = e.status /\ thread'.turn = NormalizedTurn(e.status, e.turn)
        /\ e.type = "reverted" =>
             /\ thread'.status = IF thread.status = "running" THEN "ready" ELSE thread.status
             /\ thread'.turn = NoTurn
        /\ e.type \notin {"session-set", "reverted"} =>
             thread'.status = thread.status /\ thread'.turn = thread.turn
    <3>1. IsThread(thread)
      BY DEF SInv
    <3> DEFINE y == ProjectThread(thread, e)
    <3>2. /\ IsThread(y)
          /\ e.type = "session-set" =>
               y.status = e.status /\ y.turn = NormalizedTurn(e.status, e.turn)
          /\ e.type = "reverted" =>
               /\ y.status = IF thread.status = "running" THEN "ready" ELSE thread.status
               /\ y.turn = NoTurn
          /\ e.type \notin {"session-set", "reverted"} =>
               y.status = thread.status /\ y.turn = thread.turn
      BY <3>1, ThreadFacts
    <3> QED
      BY <2>1, <3>2
  <2>3. /\ IsTables(tables') /\ Distinct(tables'.row)
        /\ e.type = "session-set" => tables'.status = e.status /\ tables'.turn = e.turn
        /\ e.type = "reverted" =>
             /\ tables'.status = IF tables.status = "running" THEN "ready" ELSE tables.status
             /\ tables'.turn = NoTurn
        /\ e.type \notin {"session-set", "reverted"} =>
             tables'.status = tables.status /\ tables'.turn = tables.turn
    <3>1. IsTables(tables) /\ Distinct(tables.row)
      BY DEF SInv
    <3> DEFINE y == ProjectTables(tables, e)
    <3>2. /\ IsTables(y) /\ Distinct(y.row)
          /\ e.type = "session-set" => y.status = e.status /\ y.turn = e.turn
          /\ e.type = "reverted" =>
               /\ y.status = IF tables.status = "running" THEN "ready" ELSE tables.status
               /\ y.turn = NoTurn
          /\ e.type \notin {"session-set", "reverted"} =>
               y.status = tables.status /\ y.turn = tables.turn
      BY <3>1, TablesFacts
    <3> HIDE DEF y
    <3> QED
      BY <2>1, <3>2 DEF y
  <2>4. CASE e.type = "session-set"
    BY <2>2, <2>3, <2>4 DEF SInv, SessionsAgree, NormalizedTurn
  <2>5. CASE e.type = "reverted"
    BY <2>2, <2>3, <2>5 DEF SInv, SessionsAgree
  <2>6. CASE e.type \notin {"session-set", "reverted"}
    BY <1>0, <2>2, <2>3, <2>6 DEF SInv, SessionsAgree
  <2> QED
    BY <2>4, <2>5, <2>6
<1>3. CASE thread' = Snapshot(tables) /\ tables' = tables /\ "restarted" \in faults'
  <2>1. IsThread(thread') /\ thread'.status = tables.status /\ thread'.turn = tables.turn
    BY <1>3, SnapshotFacts
  <2> QED
    BY <1>3, <2>1 DEF SInv, SessionsAgree
<1> QED
  BY <1>1, <1>2, <1>3, StepProjects

\* Both projections agree on the thread's session and its active turn.
THEOREM SessionsCorrect == Spec => []SessionsAgree
<1>1. SInv => SessionsAgree
  BY DEF SInv
<1> QED
  BY SInvInit, SInvNext, <1>1, PTL DEF Spec

\* No two turns of a thread have the same turn count in the table.
THEOREM CountsCorrect == Spec => []CountsDistinct
<1>1. SInv => CountsDistinct
  BY DEF SInv, Distinct, CountsDistinct
<1> QED
  BY SInvInit, SInvNext, <1>1, PTL DEF Spec

-----------------------------------------------------------------------------
(* What the ingestion worker has yet to dispatch                           *)

IsIngest(x) == x \in [event : {x.event}, todo : {x.todo}]

\* e makes the session run.
Runs(e) == e.type = "session-set" /\ e.status = "running"

\* A session that settles names no turn.
NamesNoTurn(e) == e.type = "session-set" /\ e.status \in SettledStatuses => e.turn = NoTurn

IngestOK ==
  /\ IsIngest(ingest)
  /\ ingest # NoIngest => ingest.todo # << >>
  /\ \E S : ingest.todo \in Seq(S) /\ \A x \in S : NamesNoTurn(x)

\* The session that is recorded for an event settles without a turn.
LEMMA LifecycleFacts ==
  ASSUME NEW e, AppliesLifecycle(e)
  PROVE  LET x == LifecycleSession(e)
         IN /\ x.type = "session-set" /\ NamesNoTurn(x)
            /\ e.type \in TurnEndings => x.status # "running"
<1> DEFINE x == LifecycleSession(e)
<1>0. \A s, t : /\ SessionSet(s, t).type = "session-set"
                /\ SessionSet(s, t).status = s /\ SessionSet(s, t).turn = t
  BY DEF SessionSet, NoEvent
<1>1. CASE e.type = "turn.started"
  <2>1. x = SessionSet("running", e.turn)
    BY <1>1 DEF LifecycleSession
  <2> QED
    BY <1>0, <1>1, <2>1 DEF NamesNoTurn, SettledStatuses, TurnEndings
<1>2. CASE e.type = "turn.completed"
  <2>1. x = SessionSet(IF e.state = "failed" THEN "error" ELSE "ready", NoTurn)
    BY <1>2 DEF LifecycleSession
  <2> QED
    BY <1>0, <2>1 DEF NamesNoTurn
<1>3. CASE e.type = "turn.aborted"
  <2>1. x = SessionSet("interrupted", NoTurn)
    BY <1>3 DEF LifecycleSession
  <2> QED
    BY <1>0, <2>1 DEF NamesNoTurn
<1>4. CASE e.type = "session.exited"
  <2>1. x = SessionSet("stopped", NoTurn)
    BY <1>4 DEF LifecycleSession
  <2> QED
    BY <1>0, <2>1 DEF NamesNoTurn
<1>5. CASE e.type = "session.started"
  <2>1. x = SessionSet(IF thread.turn # NoTurn THEN "running" ELSE "ready", thread.turn)
    BY <1>5 DEF LifecycleSession
  <2> QED
    BY <1>0, <1>5, <2>1 DEF NamesNoTurn, SettledStatuses, TurnEndings
<1>6. CASE e.type = "session.state.changed"
  <2>1. x = SessionSet(IF e.state = "waiting" THEN "running" ELSE e.state,
                       IF e.state \in {"waiting", "starting"} THEN thread.turn ELSE NoTurn)
    BY <1>6 DEF LifecycleSession
  <2> QED
    BY <1>0, <1>6, <2>1 DEF NamesNoTurn, SettledStatuses, TurnEndings
<1> QED
  BY <1>1, <1>2, <1>3, <1>4, <1>5, <1>6 DEF AppliesLifecycle, ForLifecycle, TurnEndings

\* What is dispatched for an event: sessions that settle without a turn, for the
\* end of a turn only its own session unless the quality gate fails, and none that
\* makes the session run but its own.
LEMMA OutcomeFacts ==
  ASSUME NEW e, NEW spills, NEW gateFails
  PROVE  \E S : /\ Outcome(e, spills, gateFails) \in Seq(S)
                /\ \A x \in S :
                     /\ NamesNoTurn(x)
                     /\ e.type \in TurnEndings /\ ~gateFails =>
                          /\ x.type # "reverted"
                          /\ x.type = "session-set" =>
                               /\ x.status # "running"
                               /\ OfActiveTurn(e)
                     /\ Runs(x) => AppliesLifecycle(e) /\ x = LifecycleSession(e)
<1> DEFINE own == IF AppliesLifecycle(e) THEN {LifecycleSession(e)} ELSE {}
           failed == IF gateFails THEN {SessionSet("error", NoTurn)} ELSE {}
           broken == IF e.type = "runtime.error" THEN {SessionSet("error", NoTurn)} ELSE {}
           placeholder == DiffCompleted(e.turn, CurrentTurnCount(thread) + 1, "missing")
           other == {MessageDelta(e.turn), MessageComplete(e.turn), placeholder}
           S == own \cup failed \cup broken \cup other
           q1 == IF AppliesLifecycle(e) THEN <<LifecycleSession(e)>> ELSE << >>
           q2 == IF e.type = "content.delta" /\ spills THEN <<MessageDelta(e.turn)>> ELSE << >>
           q3 == IF e.type = "item.completed" THEN Finalized(e.turn) ELSE << >>
           q4 == IF e.type \in TurnEndings /\ e.turn \in open THEN Finalized(e.turn) ELSE << >>
           q5 == IF gateFails THEN <<SessionSet("error", NoTurn)>> ELSE << >>
           q6 == IF e.type = "runtime.error"
                      /\ (thread.turn = NoTurn \/ e.turn \in {NoTurn, thread.turn})
                 THEN <<SessionSet("error", NoTurn)>> ELSE << >>
           q7 == IF e.type = "turn.diff.updated" THEN Placeholder(e.turn) ELSE << >>
<1>1. Outcome(e, spills, gateFails) = q1 \o q2 \o q3 \o q4 \o q5 \o q6 \o q7
  BY DEF Outcome
<1>2. /\ q1 \in Seq(S) /\ q2 \in Seq(S) /\ q3 \in Seq(S) /\ q4 \in Seq(S)
      /\ q5 \in Seq(S) /\ q6 \in Seq(S) /\ q7 \in Seq(S)
  <2>1. /\ AppliesLifecycle(e) => LifecycleSession(e) \in S
        /\ gateFails => SessionSet("error", NoTurn) \in S
        /\ e.type = "runtime.error" => SessionSet("error", NoTurn) \in S
        /\ MessageDelta(e.turn) \in S /\ MessageComplete(e.turn) \in S
        /\ placeholder \in S
    OBVIOUS
  <2>2. Placeholder(e.turn) = << >> \/ Placeholder(e.turn) = <<placeholder>>
    BY DEF Placeholder
  <2>3. Finalized(e.turn) = <<MessageDelta(e.turn), MessageComplete(e.turn)>>
    BY DEF Finalized
  <2> DEFINE delta == MessageDelta(e.turn)
             complete == MessageComplete(e.turn)
             error == SessionSet("error", NoTurn)
  <2> HIDE DEF S, placeholder, delta, complete, error
  <2>4. << >> \in Seq(S) /\ \A x \in S : <<x>> \in Seq(S)
    OBVIOUS
  <2>5. <<delta, complete>> \in Seq(S)
    BY <2>1 DEF delta, complete
  <2>6. Finalized(e.turn) \in Seq(S)
    BY <2>3, <2>5 DEF delta, complete
  <2>7. Placeholder(e.turn) \in Seq(S)
    BY <2>1, <2>2, <2>4
  <2>8. q1 \in Seq(S) /\ q5 \in Seq(S) /\ q6 \in Seq(S)
    BY <2>1, <2>4
  <2>9. q2 \in Seq(S)
    BY <2>1, <2>4
  <2>10. q3 \in Seq(S) /\ q4 \in Seq(S) /\ q7 \in Seq(S)
    BY <2>4, <2>6, <2>7
  <2> QED
    BY <2>8, <2>9, <2>10
<1>3. ASSUME NEW x \in S
      PROVE  /\ NamesNoTurn(x)
             /\ e.type \in TurnEndings /\ ~gateFails =>
                  /\ x.type # "reverted"
                  /\ x.type = "session-set" => x.status # "running" /\ OfActiveTurn(e)
             /\ Runs(x) => AppliesLifecycle(e) /\ x = LifecycleSession(e)
  <2>1. CASE x \in own
    <3>1. AppliesLifecycle(e) /\ x = LifecycleSession(e)
      BY <2>1
    <3>2. /\ x.type = "session-set" /\ NamesNoTurn(x)
          /\ e.type \in TurnEndings => x.status # "running"
      BY <3>1, LifecycleFacts
    <3>3. e.type \in TurnEndings => OfActiveTurn(e)
      BY <3>1 DEF AppliesLifecycle
    <3> QED
      BY <3>1, <3>2, <3>3
  <2>2. CASE x \in failed
    <3>1. gateFails /\ x = SessionSet("error", NoTurn)
      BY <2>2
    <3>2. NamesNoTurn(x) /\ ~Runs(x)
      BY <3>1 DEF SessionSet, NoEvent, NamesNoTurn, Runs
    <3> QED
      BY <3>1, <3>2
  <2>3. CASE x \in broken
    <3>1. e.type = "runtime.error" /\ x = SessionSet("error", NoTurn)
      BY <2>3
    <3>2. NamesNoTurn(x) /\ ~Runs(x)
      BY <3>1 DEF SessionSet, NoEvent, NamesNoTurn, Runs
    <3> QED
      BY <3>1, <3>2 DEF TurnEndings
  <2>4. CASE x \in other
    <3>0. \A t, n, s : /\ MessageDelta(t).type = "message-delta"
                       /\ MessageComplete(t).type = "message-complete"
                       /\ DiffCompleted(t, n, s).type = "turn-diff-completed"
      BY DEF MessageDelta, MessageComplete, DiffCompleted, NoEvent
    <3>1. x.type \in {"message-delta", "message-complete", "turn-diff-completed"}
      BY <2>4, <3>0
    <3> QED
      BY <3>1 DEF NamesNoTurn, Runs
  <2> QED
    BY <2>1, <2>2, <2>3, <2>4
<1> HIDE DEF S, q1, q2, q3, q4, q5, q6, q7
<1>4. Outcome(e, spills, gateFails) \in Seq(S)
  BY <1>1, <1>2
<1> QED
  BY <1>3, <1>4

\* Only the ingestion worker and a restart change what it is at work on.
LEMMA IngestSteps ==
  ASSUME [Next]_vars
  PROVE  UNCHANGED ingest \/ IngestBegin \/ IngestDispatch \/ ingest' = NoIngest
<1>1. CASE Users
  BY <1>1 DEF Users, RequestTurn, Interrupt, RequestStop, SetRuntimeMode, RequestRevert,
              ingestion
<1>2. CASE Provider
  BY <1>2 DEF Provider, TurnEnds, TurnAborts, Reports, SessionStateChanges, SessionExits,
              ReplacedSessionExits, RuntimeError, Emit
<1>3. CASE Checkpointing
  BY <1>3 DEF Checkpointing, CaptureCompletedTurn, HandleDomainEvent, FinishCapture, ingestion
<1>4. CASE Commanding
  BY <1>4 DEF Commanding, TakeCommand, StartSession, BindSession, SendTurn, SendRefused,
              StopSession, UnbindSession, Emit, ingestion
<1>5. CASE Failures
  BY <1>5 DEF Failures, IngestFails, CaptureFails, CommandFails, ingestion
<1>6. CASE Restart
  BY <1>6 DEF Restart
<1>7. CASE UNCHANGED vars
  BY <1>7 DEF vars, system, ingestion
<1> QED
  BY <1>1, <1>2, <1>3, <1>4, <1>5, <1>6, <1>7 DEF Next, Ingestion

\* What is left of a sequence is of the same elements.
LEMMA IngestNext ==
  ASSUME IngestOK, [Next]_vars
  PROVE  IngestOK'
<1>0. IngestOK' <=> /\ IsIngest(ingest')
                    /\ ingest' # NoIngest => ingest'.todo # << >>
                    /\ \E S : ingest'.todo \in Seq(S) /\ \A x \in S : NamesNoTurn(x)
  BY DEF IngestOK
<1>1. ASSUME ingest' = NoIngest
      PROVE  IngestOK'
  <2>1. IsIngest(NoIngest) /\ NoIngest.todo = << >>
    BY DEF NoIngest, IsIngest
  <2>2. << >> \in Seq({}) /\ \A x \in {} : NamesNoTurn(x)
    OBVIOUS
  <2> QED
    BY <1>0, <1>1, <2>1, <2>2
<1>2. CASE UNCHANGED ingest
  BY <1>2 DEF IngestOK
<1>3. CASE IngestBegin
  <2> DEFINE e == Head(ingestQueue)
  <2>1. PICK spills, gateFails :
          LET todo == Outcome(e, spills, gateFails)
          IN ingest' = IF todo = << >> THEN NoIngest ELSE [event |-> e, todo |-> todo]
    BY <1>3 DEF IngestBegin
  <2> DEFINE todo == Outcome(e, spills, gateFails)
  <2>2. PICK S : todo \in Seq(S) /\ \A x \in S : NamesNoTurn(x)
    BY OutcomeFacts
  <2>3. CASE todo = << >>
    BY <1>1, <2>1, <2>3
  <2>4. CASE todo # << >>
    <3>1. ingest' = [event |-> e, todo |-> todo]
      BY <2>1, <2>4
    <3> HIDE DEF e, todo
    <3>2. IsIngest(ingest') /\ ingest'.todo = todo
      BY <3>1 DEF IsIngest
    <3> QED
      BY <1>0, <2>2, <2>4, <3>2
  <2> QED
    BY <2>3, <2>4
<1>4. CASE IngestDispatch
  <2>1. ingest # NoIngest /\ ingest' = Remaining
    BY <1>4 DEF IngestDispatch
  <2>2. CASE Len(ingest.todo) = 1
    BY <1>1, <2>1, <2>2 DEF Remaining
  <2>3. CASE Len(ingest.todo) # 1
    <3>1. ingest' = [ingest EXCEPT !.todo = Tail(ingest.todo)]
      BY <2>1, <2>3 DEF Remaining
    <3>2. PICK S : ingest.todo \in Seq(S) /\ \A x \in S : NamesNoTurn(x)
      BY DEF IngestOK
    <3> DEFINE rest == Tail(ingest.todo)
    <3>3. rest \in Seq(S) /\ rest # << >>
      <4> DEFINE q == ingest.todo
      <4>1. q \in Seq(S) /\ q # << >> /\ Len(q) # 1
        BY <2>1, <2>3, <3>2 DEF IngestOK
      <4> HIDE DEF q
      <4>2. Tail(q) \in Seq(S) /\ Len(Tail(q)) = Len(q) - 1 /\ Len(q) \in Nat /\ Len(q) # 0
        BY <4>1
      <4>3. Len(Tail(q)) # 0
        BY <4>1, <4>2
      <4>4. Tail(q) # << >>
        BY <4>2, <4>3, EmptySeq
      <4> QED
        BY <4>2, <4>4 DEF q
    <3> HIDE DEF rest
    <3>4. IsIngest(ingest') /\ ingest'.todo = rest
      <4>1. IsIngest(ingest)
        BY DEF IngestOK
      <4>2. /\ ingest'.todo = rest /\ ingest'.event = ingest.event
            /\ ingest' \in [event : {ingest.event}, todo : {rest}]
        BY <3>1, <4>1 DEF IsIngest, rest
      <4> QED
        BY <4>2 DEF IsIngest
    <3> QED
      BY <1>0, <3>2, <3>3, <3>4
  <2> QED
    BY <2>2, <2>3
<1>5. UNCHANGED ingest \/ IngestBegin \/ IngestDispatch \/ ingest' = NoIngest
  BY IngestSteps
<1> QED
  BY <1>1, <1>2, <1>3, <1>4, <1>5

\* The next event of what is to be dispatched.
LEMMA HeadFacts ==
  ASSUME IngestOK, ingest # NoIngest
  PROVE  NamesNoTurn(Head(ingest.todo))
<1>1. PICK S : ingest.todo \in Seq(S) /\ \A x \in S : NamesNoTurn(x)
  BY DEF IngestOK
<1>2. Head(ingest.todo) \in S
  BY <1>1 DEF IngestOK
<1> QED
  BY <1>1, <1>2

\* Which event a step projects: a session that settles names no turn, and only
\* the ingestion worker gives the thread an active turn.
LEMMA StepEvents ==
  ASSUME IngestOK, [Next]_vars
  PROVE  /\ \/ UNCHANGED projections
            \/ \E e : /\ Project(e) /\ NamesNoTurn(e)
                      /\ \/ e.type = "session-set" => NormalizedTurn(e.status, e.turn) = NoTurn
                         \/ IngestDispatch /\ e = Head(ingest.todo)
            \/ Restart /\ "restarted" \in faults'
         /\ "restarted" \in faults => "restarted" \in faults'
<1>0. \A s, t, n : /\ SessionSet(s, t).type = "session-set"
                   /\ SessionSet(s, t).status = s /\ SessionSet(s, t).turn = t
                   /\ TurnStartRequested.type # "session-set"
                   /\ TurnInterruptRequested(t).type # "session-set"
                   /\ RevertRequested(n).type # "session-set"
                   /\ Reverted(n).type # "session-set"
                   /\ DiffCompleted(t, n, s).type # "session-set"
  BY DEF SessionSet, TurnStartRequested, TurnInterruptRequested, RevertRequested, Reverted,
         DiffCompleted, NoEvent
<1> DEFINE Quiet(e) ==
             /\ NamesNoTurn(e)
             /\ e.type = "session-set" => NormalizedTurn(e.status, e.turn) = NoTurn
<1>1. CASE Users /\ UNCHANGED faults
  <2>1. UNCHANGED projections \/ \E e : Project(e) /\ e.type # "session-set"
    BY <1>0, <1>1 DEF Users, RequestTurn, Interrupt, RequestStop, SetRuntimeMode,
                      RequestRevert, Dispatch, projections
  <2> QED
    BY <1>1, <2>1 DEF NamesNoTurn
<1>2. CASE Provider /\ UNCHANGED faults
  BY <1>2 DEF Provider, TurnEnds, TurnAborts, Reports, SessionStateChanges, SessionExits,
              ReplacedSessionExits, RuntimeError, Emit, projections
<1>3. CASE IngestBegin /\ UNCHANGED faults
  BY <1>3 DEF IngestBegin, projections
<1>4. CASE IngestDispatch /\ UNCHANGED faults
  <2>1. ingest # NoIngest /\ Project(Head(ingest.todo))
    BY <1>4 DEF IngestDispatch, Dispatch
  <2>2. NamesNoTurn(Head(ingest.todo))
    BY <2>1, HeadFacts
  <2> QED
    BY <1>4, <2>1, <2>2
<1>5. CASE Checkpointing /\ UNCHANGED faults
  <2>1. UNCHANGED projections \/ \E e : Project(e) /\ e.type # "session-set"
    BY <1>0, <1>5 DEF Checkpointing, CaptureCompletedTurn, HandleDomainEvent, FinishCapture,
                      Dispatch, projections
  <2> QED
    BY <1>5, <2>1 DEF NamesNoTurn
<1>6. CASE Commanding /\ UNCHANGED faults
  <2>1. UNCHANGED projections \/ \E s : Project(SessionSet(s, NoTurn))
    BY <1>6 DEF Commanding, TakeCommand, StartSession, BindSession, SendTurn, SendRefused,
                StopSession, UnbindSession, Emit, Dispatch, projections
  <2>2. ASSUME NEW s
        PROVE  Quiet(SessionSet(s, NoTurn))
    BY <1>0 DEF NamesNoTurn, NormalizedTurn
  <2> QED
    BY <1>6, <2>1, <2>2
<1>7. CASE Failures /\ faults' = faults \cup {"gave up"}
  BY <1>7 DEF Failures, IngestFails, CaptureFails, CommandFails, projections
<1>8. CASE Restart /\ faults' = faults \cup {"restarted"}
  BY <1>8
<1>9. CASE UNCHANGED vars
  BY <1>9 DEF vars, system
<1> QED
  BY <1>1, <1>2, <1>3, <1>4, <1>5, <1>6, <1>7, <1>8, <1>9 DEF Next, Ingestion

-----------------------------------------------------------------------------
(* The latest turn of a settled session                                    *)

DInv == SInv /\ IngestOK /\ SettledSessionSettlesTurn

\* At first there is no turn and nothing to dispatch.
LEMMA DInvInit == Init => DInv
<1> SUFFICES ASSUME Init PROVE DInv
  OBVIOUS
<1>1. SInv
  BY SInvInit
<1>2. IngestOK
  <2>1. ingest = NoIngest /\ IsIngest(NoIngest) /\ NoIngest.todo = << >>
    BY DEF Init, NoIngest, IsIngest
  <2>2. << >> \in Seq({}) /\ \A x \in {} : NamesNoTurn(x)
    OBVIOUS
  <2> QED
    BY <2>1, <2>2 DEF IngestOK
<1>3. SettledSessionSettlesTurn
  BY DEF Init, EmptyThread, NoLatest, SettledSessionSettlesTurn
<1> QED
  BY <1>1, <1>2, <1>3 DEF DInv

\* No step leaves the latest turn going on when its session settles.
LEMMA DInvNext == DInv /\ [Next]_vars => DInv'
<1> SUFFICES ASSUME DInv, [Next]_vars PROVE DInv'
  OBVIOUS
<1>1. SInv' /\ IngestOK'
  BY SInvNext, IngestNext DEF DInv
<1>2. SettledSessionSettlesTurn'
  <2>0. SettledSessionSettlesTurn /\ IngestOK /\ IsThread(thread)
    BY DEF DInv, SInv
  <2>1. "restarted" \in faults => "restarted" \in faults'
    BY <2>0, StepEvents
  <2>2. CASE UNCHANGED projections
    BY <2>0, <2>1, <2>2 DEF SettledSessionSettlesTurn, projections
  <2>3. CASE \E e : Project(e) /\ NamesNoTurn(e)
    <3>1. PICK e : thread' = ProjectThread(thread, e) /\ NamesNoTurn(e)
      BY <2>3 DEF Project
    <3> DEFINE y == ProjectThread(thread, e)
    <3>2. /\ e.type = "session-set" =>
               /\ y.status = e.status
               /\ e.status \in SettledStatuses /\ e.turn = NoTurn => y.latest.done
          /\ e.type = "reverted" => y.latest.done
          /\ e.type \notin {"session-set", "reverted"} =>
               y.status = thread.status /\ (thread.latest.done => y.latest.done)
      BY <2>0, ThreadFacts
    <3> HIDE DEF y
    <3>3. CASE e.type = "session-set"
      <4>1. y.status \in SettledStatuses => y.latest.done
        BY <3>1, <3>2, <3>3 DEF NamesNoTurn
      <4> QED
        BY <3>1, <4>1 DEF SettledSessionSettlesTurn, y
    <3>4. CASE e.type = "reverted"
      <4>1. y.latest.done
        BY <3>2, <3>4
      <4> QED
        BY <3>1, <4>1 DEF SettledSessionSettlesTurn, y
    <3>5. CASE e.type \notin {"session-set", "reverted"}
      <4>1. y.status = thread.status /\ (thread.latest.done => y.latest.done)
        BY <3>2, <3>5
      <4> QED
        BY <2>0, <2>1, <3>1, <4>1 DEF SettledSessionSettlesTurn, y
    <3> QED
      BY <3>3, <3>4, <3>5
  <2>4. CASE "restarted" \in faults'
    BY <2>4 DEF SettledSessionSettlesTurn
  <2> QED
    BY <2>0, <2>2, <2>3, <2>4, StepEvents
<1> QED
  BY <1>1, <1>2 DEF DInv

\* A thread whose session has settled has no latest turn that goes on, until the
\* server is restarted.
THEOREM SettledCorrect == Spec => []SettledSessionSettlesTurn
<1>1. DInv => SettledSessionSettlesTurn
  BY DEF DInv
<1> QED
  BY DInvInit, DInvNext, <1>1, PTL DEF Spec

-----------------------------------------------------------------------------
(* Who ends the active turn                                                *)

\* Without failing quality gates an event of a turn's end settles the session once,
\* and while it waits to do so the active turn is its own or none: whoever else is
\* at work only takes the active turn away.
EInv ==
  /\ left \in [BudgetKinds -> Nat] /\ left["gate"] = 0
  /\ \E S : /\ ingest.todo \in Seq(S)
            /\ ingest.event.type \in TurnEndings =>
                 \A x \in S :
                   /\ x.type # "reverted"
                   /\ x.type = "session-set" =>
                        /\ x.status # "running"
                        /\ thread.turn \in {NoTurn, ingest.event.turn}

\* No failing gate can be spent.
LEMMA LeftNext ==
  ASSUME left \in [BudgetKinds -> Nat], left["gate"] = 0, [Next]_vars
  PROVE  left' \in [BudgetKinds -> Nat] /\ left'["gate"] = 0
<1>1. ASSUME NEW k \in BudgetKinds, Spend(k)
      PROVE  left' \in [BudgetKinds -> Nat] /\ left'["gate"] = 0
  BY <1>1 DEF Spend, BudgetKinds
<1>2. CASE UNCHANGED left
  BY <1>2
<1>3. UNCHANGED left \/ \E k \in BudgetKinds : Spend(k)
  <2>1. CASE Users
    BY <2>1 DEF Users, RequestTurn, Interrupt, RequestStop, SetRuntimeMode, RequestRevert,
                BudgetKinds
  <2>2. CASE Provider
    BY <2>2 DEF Provider, TurnEnds, TurnAborts, Ends, Reports, SessionStateChanges,
                SessionExits, ReplacedSessionExits, RuntimeError, BudgetKinds
  <2>3. CASE IngestBegin
    BY <2>3 DEF IngestBegin, BudgetKinds
  <2>4. CASE IngestDispatch
    BY <2>4 DEF IngestDispatch
  <2>5. CASE Checkpointing
    BY <2>5 DEF Checkpointing, CaptureCompletedTurn, HandleDomainEvent, FinishCapture
  <2>6. CASE Commanding
    BY <2>6 DEF Commanding, TakeCommand, StartSession, BindSession, SendTurn, SendRefused,
                StopSession, UnbindSession, Done, BudgetKinds
  <2>7. CASE Failures
    BY <2>7 DEF Failures, IngestFails, CaptureFails, CommandFails, BudgetKinds
  <2>8. CASE Restart
    BY <2>8 DEF Restart, BudgetKinds
  <2>9. CASE UNCHANGED vars
    BY <2>9 DEF vars, system
  <2> QED
    BY <2>1, <2>2, <2>3, <2>4, <2>5, <2>6, <2>7, <2>8, <2>9 DEF Next, Ingestion
<1> QED
  BY <1>1, <1>2, <1>3

\* What the ingestion worker dispatches for the end of a turn.
LEMMA DispatchFacts ==
  ASSUME DInv, EInv, IngestDispatch, ingest.event.type \in TurnEndings
  PROVE  /\ thread'.turn \in {thread.turn, NoTurn}
         /\ thread'.turn # thread.turn => ingest.event.turn = thread.turn
<1> DEFINE e == Head(ingest.todo)
           y == ProjectThread(thread, e)
<1>1. thread' = y /\ ingest # NoIngest
  BY DEF IngestDispatch, Dispatch, Project
<1>2. /\ e.type # "reverted"
      /\ e.type = "session-set" =>
           /\ e.status # "running"
           /\ thread.turn \in {NoTurn, ingest.event.turn}
  <2>1. PICK S : /\ ingest.todo \in Seq(S)
                 /\ \A x \in S :
                      /\ x.type # "reverted"
                      /\ x.type = "session-set" =>
                           /\ x.status # "running"
                           /\ thread.turn \in {NoTurn, ingest.event.turn}
    BY DEF EInv
  <2>2. e \in S
    BY <1>1, <2>1 DEF DInv, IngestOK
  <2> QED
    BY <2>1, <2>2
<1>3. IsThread(thread)
  BY DEF DInv, SInv
<1>4. /\ e.type = "session-set" => y.turn = NormalizedTurn(e.status, e.turn)
      /\ e.type \notin {"session-set", "reverted"} => y.turn = thread.turn
  BY <1>3, ThreadFacts
<1> HIDE DEF e, y
<1>5. CASE e.type = "session-set"
  <2>1. y.turn = NoTurn
    BY <1>2, <1>4, <1>5 DEF NormalizedTurn
  <2> QED
    BY <1>1, <1>2, <1>5, <2>1
<1>6. CASE e.type # "session-set"
  BY <1>1, <1>2, <1>4, <1>6
<1> QED
  BY <1>5, <1>6

\* Only the ingestion worker gives the thread another active turn.
LEMMA TurnStays ==
  ASSUME DInv, [Next]_vars, ~IngestDispatch, ~Restart
  PROVE  thread'.turn \in {thread.turn, NoTurn}
<1>1. IngestOK /\ IsThread(thread)
  BY DEF DInv, SInv
<1>2. CASE UNCHANGED projections
  BY <1>2 DEF projections
<1>3. CASE \E e : /\ Project(e)
                  /\ e.type = "session-set" => NormalizedTurn(e.status, e.turn) = NoTurn
  <2>1. PICK e : /\ thread' = ProjectThread(thread, e)
                 /\ e.type = "session-set" => NormalizedTurn(e.status, e.turn) = NoTurn
    BY <1>3 DEF Project
  <2> DEFINE y == ProjectThread(thread, e)
  <2>2. /\ e.type = "session-set" => y.turn = NormalizedTurn(e.status, e.turn)
        /\ e.type = "reverted" => y.turn = NoTurn
        /\ e.type \notin {"session-set", "reverted"} => y.turn = thread.turn
    BY <1>1, ThreadFacts
  <2> QED
    BY <2>1, <2>2
<1> QED
  BY <1>1, <1>2, <1>3, StepEvents

\* No step brings another active turn while the end of a turn is handled.
LEMMA EInvNext == DInv /\ EInv /\ [Next]_vars => EInv'
<1> SUFFICES ASSUME DInv, EInv, [Next]_vars PROVE EInv'
  OBVIOUS
<1>0. left' \in [BudgetKinds -> Nat] /\ left'["gate"] = 0
  BY LeftNext DEF EInv
<1>1. CASE ingest' = NoIngest
  <2>1. NoIngest.todo = << >> /\ NoIngest.event.type \notin TurnEndings
    BY DEF NoIngest, Runtime, TurnEndings
  <2>2. << >> \in Seq({})
    OBVIOUS
  <2> QED
    BY <1>0, <1>1, <2>1, <2>2 DEF EInv
<1>2. PICK S : /\ ingest.todo \in Seq(S)
               /\ ingest.event.type \in TurnEndings =>
                    \A x \in S :
                      /\ x.type # "reverted"
                      /\ x.type = "session-set" =>
                           /\ x.status # "running"
                           /\ thread.turn \in {NoTurn, ingest.event.turn}
  BY DEF EInv
<1>3. CASE UNCHANGED ingest /\ thread'.turn \in {thread.turn, NoTurn}
  BY <1>0, <1>2, <1>3 DEF EInv
<1>4. CASE IngestBegin
  <2> DEFINE e == Head(ingestQueue)
  <2>1. PICK spills, gateFails :
          /\ LET todo == Outcome(e, spills, gateFails)
             IN ingest' = IF todo = << >> THEN NoIngest ELSE [event |-> e, todo |-> todo]
          /\ IF gateFails THEN Spend("gate") ELSE UNCHANGED left
    BY <1>4 DEF IngestBegin
  <2> DEFINE todo == Outcome(e, spills, gateFails)
  <2>2. ~gateFails
    BY <2>1 DEF EInv, Spend
  <2>3. PICK T : /\ todo \in Seq(T)
                 /\ e.type \in TurnEndings =>
                      \A x \in T :
                        /\ x.type # "reverted"
                        /\ x.type = "session-set" => x.status # "running" /\ OfActiveTurn(e)
    BY <2>2, OutcomeFacts
  <2>4. thread' = thread
    BY <1>4 DEF IngestBegin, projections
  <2>5. CASE todo = << >>
    BY <1>1, <2>1, <2>5
  <2>6. CASE todo # << >>
    <3>1. ingest'.event = e /\ ingest'.todo = todo
      BY <2>1, <2>6
    <3>2. OfActiveTurn(e) => thread'.turn \in {NoTurn, e.turn}
      BY <2>4 DEF OfActiveTurn
    <3> HIDE DEF e, todo
    <3> QED
      BY <1>0, <2>3, <3>1, <3>2 DEF EInv
  <2> QED
    BY <2>5, <2>6
<1>5. CASE IngestDispatch
  <2>1. ingest # NoIngest /\ ingest' = Remaining
    BY <1>5 DEF IngestDispatch
  <2>2. CASE Len(ingest.todo) = 1
    BY <1>1, <2>1, <2>2 DEF Remaining
  <2>3. CASE Len(ingest.todo) # 1
    <3> DEFINE rest == Tail(ingest.todo)
    <3>1. ingest' = [ingest EXCEPT !.todo = rest]
      BY <2>1, <2>3 DEF Remaining
    <3>2. rest \in Seq(S)
      BY <1>2, <2>1 DEF DInv, IngestOK
    <3> HIDE DEF rest
    <3>3. ingest'.event = ingest.event /\ ingest'.todo = rest
      BY <3>1 DEF DInv, IngestOK, IsIngest
    <3>4. ingest.event.type \in TurnEndings => thread'.turn \in {thread.turn, NoTurn}
      BY <1>5, DispatchFacts
    <3> QED
      BY <1>0, <1>2, <3>2, <3>3, <3>4 DEF EInv
  <2> QED
    BY <2>2, <2>3
<1>6. CASE ~IngestDispatch /\ UNCHANGED ingest
  <2>1. CASE Restart
    BY <1>1, <2>1 DEF Restart
  <2>2. CASE ~Restart
    BY <1>3, <1>6, <2>2, TurnStays
  <2> QED
    BY <2>1, <2>2
<1>7. UNCHANGED ingest \/ IngestBegin \/ IngestDispatch \/ ingest' = NoIngest
  BY IngestSteps
<1> QED
  BY <1>1, <1>4, <1>5, <1>6, <1>7

\* As long as no quality gate fails, the end of a turn takes the active turn from
\* the session only if it is its own, although the worker judged it by a read
\* model that others change before it dispatches.
THEOREM OwnEndCorrect ==
  ASSUME \A budget \in Budgets : budget["gate"] = 0
  PROVE  Spec => OnlyItsOwnEndSettles
<1> DEFINE OwnEnd ==
             IngestDispatch /\ ingest.event.type \in TurnEndings /\ thread'.turn # thread.turn
               => ingest.event.turn = thread.turn
<1>1. Init => EInv
  <2> SUFFICES ASSUME Init PROVE EInv
    OBVIOUS
  <2>1. left \in [BudgetKinds -> Nat] /\ left["gate"] = 0
    BY BudgetAssumption DEF Init
  <2>2. ingest = NoIngest /\ NoIngest.todo = << >> /\ NoIngest.event.type \notin TurnEndings
    BY DEF Init, NoIngest, Runtime, TurnEndings
  <2>3. << >> \in Seq({})
    OBVIOUS
  <2> QED
    BY <2>1, <2>2, <2>3 DEF EInv
<1>2. DInv /\ EInv /\ [Next]_vars => OwnEnd
  BY DispatchFacts
<1>3. Spec => [](DInv /\ EInv)
  BY <1>1, DInvInit, DInvNext, EInvNext, PTL DEF Spec
<1>4. DInv /\ EInv /\ [Next]_vars => [OwnEnd]_vars
  BY <1>2
<1>5. Spec => [][OwnEnd]_vars
  BY <1>3, <1>4, PTL DEF Spec
<1> QED
  BY <1>5 DEF OnlyItsOwnEndSettles
-----------------------------------------------------------------------------
(* What is not running is not shown as running                             *)

\* e takes the active turn from the session when it is handled, and be it t; when
\* no turn is active, the end of any turn does.
EndsIt(e, t) ==
  \/ e.type = "session.exited"
  \/ e.type \in TurnEndings /\ t \in {e.turn, NoTurn}

\* t is at work, or the event that ends it is in the queue, past the first n.
EndOwed(t, n) ==
  \/ t \in Working
  \/ t = NoTurn /\ Working # {}
  \/ \E i \in DOMAIN ingestQueue : i > n /\ EndsIt(ingestQueue[i], t)

SettlesSession(e) == e.type = "session-set" /\ e.status # "running"

\* What is to make the session run, and the session that runs, is owed an end.
RunOwed ==
  /\ \A i \in DOMAIN ingestQueue :
       LET e == ingestQueue[i] IN
       /\ e.type = "turn.started" => EndOwed(e.turn, i)
       /\ e.type = "session.state.changed" /\ e.state \in {"waiting", "running"} =>
            EndOwed(NoTurn, i)
  /\ \A i \in DOMAIN ingest.todo : Runs(ingest.todo[i]) => EndOwed(ingest.todo[i].turn, 0)
  /\ thread.status = "running" =>
       \/ EndOwed(thread.turn, 0)
       \/ \E i \in DOMAIN ingest.todo : SettlesSession(ingest.todo[i])

Heard ==
  [type : ForLifecycle \cup {"turn.diff.updated", "content.delta", "item.completed",
                            "runtime.error"},
   turn : Nat,
   state : {"none", "completed", "failed", "interrupted", "starting", "ready", "error",
            "waiting"}]

RInv ==
  /\ begun \in Nat /\ live \in Nat /\ orphaned \subseteq Nat
  /\ live # NoTurn => session
  /\ ingestQueue \in Seq(Heard)
  /\ faults = {} => RunOwed

\* events go to the ingestion worker: the ends of the turns no longer worked on
\* are among them, and what starts to run is worked on.
Emitted(events) ==
  /\ events \in Seq(Heard)
  /\ ingestQueue' = ingestQueue \o events
  /\ \A t \in Working : t \in Working' \/ \E i \in DOMAIN events : EndsIt(events[i], t)
  /\ \A i \in DOMAIN events :
       /\ events[i].type = "turn.started" => events[i].turn \in Working'
       /\ events[i].type = "session.state.changed" /\ events[i].state \in {"waiting", "running"}
            => Working' # {}

\* Nothing is emitted and nothing is done by the provider.
LEMMA EmittedNone ==
  ASSUME ingestQueue \in Seq(Heard), UNCHANGED <<ingestQueue, provider>>
  PROVE  Emitted(<< >>)
BY DEF Emitted, Working, provider

\* One event is emitted, and the turns it does not end go on.
LEMMA EmittedOne ==
  ASSUME NEW e \in Heard, Emit(<<e>>),
         \A t \in Working : t \in Working' \/ EndsIt(e, t),
         e.type = "turn.started" => e.turn \in Working',
         e.type = "session.state.changed" /\ e.state \in {"waiting", "running"} => Working' # {}
  PROVE  Emitted(<<e>>)
<1>1. <<e>> \in Seq(Heard) /\ DOMAIN <<e>> = {1} /\ <<e>>[1] = e
  OBVIOUS
<1>2. ingestQueue' = ingestQueue \o <<e>>
  BY DEF Emit
<1> DEFINE events == <<e>>
<1> HIDE DEF events
<1>3. events \in Seq(Heard) /\ DOMAIN events = {1} /\ events[1] = e
      /\ ingestQueue' = ingestQueue \o events
  BY <1>1, <1>2 DEF events
<1>4. Emitted(events)
  BY <1>3 DEF Emitted
<1> QED
  BY <1>4 DEF events

\* So with two or three.
LEMMA EmittedTwo ==
  ASSUME NEW d \in Heard, NEW e \in Heard, Emit(<<d, e>>),
         \A t \in Working : t \in Working' \/ EndsIt(d, t) \/ EndsIt(e, t),
         \A x \in {d, e} :
           /\ x.type = "turn.started" => x.turn \in Working'
           /\ x.type = "session.state.changed" /\ x.state \in {"waiting", "running"} => Working' # {}
  PROVE  Emitted(<<d, e>>)
<1> DEFINE events == <<d, e>>
<1>1. /\ events \in Seq(Heard) /\ DOMAIN events = {1, 2} /\ events[1] = d /\ events[2] = e
      /\ ingestQueue' = ingestQueue \o events
  BY DEF Emit
<1> HIDE DEF events
<1>2. Emitted(events)
  BY <1>1 DEF Emitted
<1> QED
  BY <1>2 DEF events

LEMMA EmittedThree ==
  ASSUME NEW c \in Heard, NEW d \in Heard, NEW e \in Heard, Emit(<<c, d, e>>),
         \A t \in Working : t \in Working' \/ EndsIt(c, t) \/ EndsIt(d, t) \/ EndsIt(e, t),
         \A x \in {c, d, e} :
           /\ x.type = "turn.started" => x.turn \in Working'
           /\ x.type = "session.state.changed" /\ x.state \in {"waiting", "running"} => Working' # {}
  PROVE  Emitted(<<c, d, e>>)
<1> DEFINE events == <<c, d, e>>
<1>1. /\ events \in Seq(Heard) /\ DOMAIN events = {1, 2, 3}
      /\ events[1] = c /\ events[2] = d /\ events[3] = e
      /\ ingestQueue' = ingestQueue \o events
  BY DEF Emit
<1> HIDE DEF events
<1>2. Emitted(events)
  BY <1>1 DEF Emitted
<1> QED
  BY <1>2 DEF events

\* Short sequences put together.
LEMMA ShortSequences ==
  ASSUME NEW c, NEW d, NEW e
  PROVE  /\ << >> \o <<c>> = <<c>> /\ <<c>> \o <<d>> = <<c, d>>
         /\ <<c, d>> \o <<e>> = <<c, d, e>>
<1>1. <<c>> \in Seq({c, d, e}) /\ <<c, d>> \in Seq({c, d, e}) /\ e \in {c, d, e}
      /\ d \in {c, d, e} /\ << >> \in Seq({c, d, e}) /\ c \in {c, d, e}
  OBVIOUS
<1>2. << >> \o <<c>> = <<c>>
  OBVIOUS
<1>3. <<c>> \o <<d>> = Append(<<c>>, d)
  BY <1>1, AppendIsConcat
<1>4. <<c, d>> \o <<e>> = Append(<<c, d>>, e)
  BY <1>1, AppendIsConcat
<1>5. Append(<<c>>, d) = <<c, d>>
  <2> DEFINE s == Append(<<c>>, d)
             t == <<c, d>>
  <2>1. s \in Seq({c, d, e}) /\ Len(s) = 2 /\ s[1] = c /\ s[2] = d
    BY <1>1
  <2>2. t \in Seq({c, d, e}) /\ Len(t) = 2 /\ t[1] = c /\ t[2] = d
    OBVIOUS
  <2> HIDE DEF s, t
  <2>3. s = t
    BY <2>1, <2>2, SeqEqual
  <2> QED
    BY <2>3 DEF s, t
<1>6. Append(<<c, d>>, e) = <<c, d, e>>
  <2> DEFINE s == Append(<<c, d>>, e)
             t == <<c, d, e>>
  <2>1. s \in Seq({c, d, e}) /\ Len(s) = 3 /\ s[1] = c /\ s[2] = d /\ s[3] = e
    BY <1>1
  <2>2. t \in Seq({c, d, e}) /\ Len(t) = 3 /\ t[1] = c /\ t[2] = d /\ t[3] = e
    OBVIOUS
  <2> HIDE DEF s, t
  <2>3. s = t
    BY <2>1, <2>2, SeqEqual
  <2> QED
    BY <2>3 DEF s, t
<1> QED
  BY <1>2, <1>3, <1>4, <1>5, <1>6

\* What a provider does: each turn it no longer works on has its end reported, or
\* that of the session.
LEMMA ProviderEmits ==
  ASSUME RInv, Provider
  PROVE  /\ \E events : Emitted(events)
         /\ begun' = begun /\ live' \in Nat /\ orphaned' \subseteq Nat
         /\ live' # NoTurn => session'
<1>0. /\ begun \in Nat /\ live \in Nat /\ orphaned \subseteq Nat /\ Working \subseteq Nat
      /\ live # NoTurn => session
      /\ NoTurn \in Nat
  BY DEF RInv, Working, NoTurn
<1>1. ASSUME NEW t \in Working, NEW e \in Heard, Emit(<<e>>), Ends(t), EndsIt(e, t),
             e.type \in TurnEndings
      PROVE  /\ \E events : Emitted(events)
             /\ begun' = begun /\ live' \in Nat /\ orphaned' \subseteq Nat
             /\ live' # NoTurn => session'
  <2>1. \A u \in Working : u \in Working' \/ u = t
    BY <1>1 DEF Ends, Working
  <2>2. e.type \notin {"turn.started", "session.state.changed"}
    BY <1>1 DEF TurnEndings
  <2>3. Emitted(<<e>>)
    BY <1>1, <2>1, <2>2, EmittedOne
  <2> QED
    BY <1>0, <1>1, <2>3 DEF Ends
<1>2. CASE TurnEnds
  <2>1. PICK t \in Working, state \in {"completed", "failed", "interrupted"} :
          Emit(<<Runtime("turn.completed", t, state)>>) /\ Ends(t)
    BY <1>2 DEF TurnEnds
  <2>2. LET e == Runtime("turn.completed", t, state)
        IN e \in Heard /\ e.type = "turn.completed" /\ e.turn = t
    BY <1>0 DEF Runtime, Heard, ForLifecycle, TurnEndings
  <2> QED
    BY <1>1, <2>1, <2>2 DEF EndsIt, TurnEndings
<1>3. CASE TurnAborts
  <2>1. PICK t \in Working : Emit(<<Runtime("turn.aborted", t, "none")>>) /\ Ends(t)
    BY <1>3 DEF TurnAborts
  <2>2. LET e == Runtime("turn.aborted", t, "none")
        IN e \in Heard /\ e.type = "turn.aborted" /\ e.turn = t
    BY <1>0 DEF Runtime, Heard, ForLifecycle, TurnEndings
  <2> QED
    BY <1>1, <2>1, <2>2 DEF EndsIt, TurnEndings
<1>4. ASSUME NEW e \in Heard, Emit(<<e>>), UNCHANGED provider, e.type # "turn.started",
             e.type = "session.state.changed" /\ e.state \in {"waiting", "running"} =>
               Working # {}
      PROVE  /\ \E events : Emitted(events)
             /\ begun' = begun /\ live' \in Nat /\ orphaned' \subseteq Nat
             /\ live' # NoTurn => session'
  <2>1. Working' = Working
    BY <1>4 DEF Working, provider
  <2>2. Emitted(<<e>>)
    BY <1>4, <2>1, EmittedOne
  <2> QED
    BY <1>0, <1>4, <2>2 DEF provider
<1>5. CASE Reports
  <2>1. PICK type \in {"turn.diff.updated", "content.delta", "item.completed"}, t \in Working :
          Emit(<<Runtime(type, t, "none")>>) /\ UNCHANGED provider
    BY <1>5 DEF Reports
  <2>2. LET e == Runtime(type, t, "none") IN e \in Heard /\ e.type = type
    BY <1>0 DEF Runtime, Heard, ForLifecycle, TurnEndings
  <2> QED
    BY <1>4, <2>1, <2>2
<1>6. CASE SessionStateChanges
  <2>1. PICK state \in {"starting", "ready", "error"} \cup (IF live = NoTurn THEN {} ELSE {"waiting"}) :
          Emit(<<Runtime("session.state.changed", NoTurn, state)>>) /\ UNCHANGED provider
    BY <1>6 DEF SessionStateChanges
  <2>2. LET e == Runtime("session.state.changed", NoTurn, state)
        IN e \in Heard /\ e.type = "session.state.changed" /\ e.state = state
    BY <1>0, <2>1 DEF Runtime, Heard, ForLifecycle, TurnEndings
  <2>3. state \in {"waiting", "running"} => Working # {}
    BY DEF Working
  <2> QED
    BY <1>4, <2>1, <2>2, <2>3
<1>7. LET e == Runtime("session.exited", NoTurn, "none")
      IN /\ SessionExited = <<e>>
         /\ e \in Heard /\ e.type = "session.exited" /\ \A t : EndsIt(e, t)
  BY <1>0 DEF Runtime, Heard, ForLifecycle, TurnEndings, SessionExited, EndsIt
<1>8. CASE SessionExits
  <2>1. Emitted(SessionExited)
    BY <1>7, <1>8, EmittedOne DEF SessionExits
  <2> QED
    BY <1>0, <1>8, <2>1 DEF SessionExits
<1>9. CASE ReplacedSessionExits
  <2>1. Emitted(SessionExited)
    BY <1>7, <1>9, EmittedOne DEF ReplacedSessionExits
  <2> QED
    BY <1>0, <1>9, <2>1 DEF ReplacedSessionExits
<1>10. CASE RuntimeError
  <2>1. PICK t \in {NoTurn, live} :
          Emit(<<Runtime("runtime.error", t, "none")>>) /\ UNCHANGED provider
    BY <1>10 DEF RuntimeError
  <2>2. LET e == Runtime("runtime.error", t, "none") IN e \in Heard /\ e.type = "runtime.error"
    BY <1>0, <2>1 DEF Runtime, Heard, ForLifecycle, TurnEndings
  <2> QED
    BY <1>4, <2>1, <2>2
<1> QED
  BY <1>2, <1>3, <1>5, <1>6, <1>8, <1>9, <1>10 DEF Provider

\* What the command reactor has the provider do.
LEMMA CommandingEmits ==
  ASSUME RInv, Commanding
  PROVE  /\ \E events : Emitted(events)
         /\ begun' \in Nat /\ live' \in Nat /\ orphaned' \subseteq Nat
         /\ live' # NoTurn => session'
<1>0. /\ begun \in Nat /\ live \in Nat /\ orphaned \subseteq Nat /\ Working \subseteq Nat
      /\ live # NoTurn => session
      /\ NoTurn \in Nat /\ ingestQueue \in Seq(Heard)
  BY DEF RInv, Working, NoTurn
<1> DEFINE started == Runtime("session.started", NoTurn, "none")
           ready == Runtime("session.state.changed", NoTurn, "ready")
           exited == Runtime("session.exited", NoTurn, "none")
<1>1. /\ SessionReady = <<started, ready>> /\ SessionExited = <<exited>>
      /\ started \in Heard /\ started.type = "session.started"
      /\ ready \in Heard /\ ready.type = "session.state.changed" /\ ready.state = "ready"
      /\ exited \in Heard /\ exited.type = "session.exited" /\ \A t : EndsIt(exited, t)
  BY <1>0 DEF Runtime, Heard, ForLifecycle, TurnEndings, SessionReady, SessionExited, EndsIt
<1> HIDE DEF started, ready, exited
<1>2. CASE TakeCommand \/ BindSession \/ SendRefused \/ UnbindSession
  <2>1. UNCHANGED <<ingestQueue, provider>>
    BY <1>2 DEF TakeCommand, BindSession, SendRefused, UnbindSession, ingestion
  <2> QED
    BY <1>0, <2>1, EmittedNone DEF provider
<1>3. CASE StartSession
  <2>1. Working' = Working
    BY <1>3 DEF StartSession, Working
  <2>2. Emitted(<<started, ready>>)
    BY <1>1, <1>3, <2>1, EmittedTwo DEF StartSession
  <2> QED
    BY <1>0, <1>3, <2>2 DEF StartSession
<1>4. CASE SendTurn
  <2> DEFINE t == begun + 1
             begins == Runtime("turn.started", t, "none")
  <2>1. begins \in Heard /\ begins.type = "turn.started" /\ begins.turn = t /\ t \in Nat /\ t # NoTurn
    BY <1>0 DEF Runtime, Heard, ForLifecycle, TurnEndings, NoTurn
  <2>2. t \in Working' /\ \A u \in Working : u \in Working'
    BY <1>4, <2>1 DEF SendTurn, Working
  <2>3. Emit((IF session THEN << >> ELSE SessionReady) \o <<begins>>)
    BY <1>4 DEF SendTurn
  <2>4. begun' = t /\ live' = t /\ session' = TRUE /\ orphaned' = orphaned
    BY <1>4 DEF SendTurn
  <2> HIDE DEF t, begins
  <2>5. CASE session
    <3>1. << >> \o <<begins>> = <<begins>>
      BY ShortSequences
    <3>2. Emitted(<<begins>>)
      BY <2>1, <2>2, <2>3, <2>5, <3>1, EmittedOne
    <3> QED
      BY <1>0, <2>1, <2>4, <3>2
  <2>6. CASE ~session
    <3>1. <<started, ready>> \o <<begins>> = <<started, ready, begins>>
      BY ShortSequences
    <3>2. Emitted(<<started, ready, begins>>)
      BY <1>1, <2>1, <2>2, <2>3, <2>6, <3>1, EmittedThree
    <3> QED
      BY <1>0, <2>1, <2>4, <3>2
  <2> QED
    BY <2>5, <2>6
<1>5. CASE StopSession
  <2>1. PICK last \in {<< >>} \cup {<<Runtime("turn.completed", t, "interrupted")>> :
                                      t \in {live} \ {NoTurn}} :
          Emit(IF session THEN last \o SessionExited ELSE << >>)
    BY <1>5 DEF StopSession
  <2>2. session' = FALSE /\ live' = NoTurn /\ UNCHANGED <<orphaned, begun>>
    BY <1>5 DEF StopSession
  <2>3. CASE ~session
    <3>1. Working' = Working
      BY <1>0, <2>2, <2>3 DEF Working
    <3>2. ingestQueue' = ingestQueue \o << >>
      BY <2>1, <2>3 DEF Emit
    <3>3. Emitted(<< >>)
      BY <3>1, <3>2 DEF Emitted
    <3> QED
      BY <1>0, <2>2, <3>3
  <2>4. CASE session /\ last = << >>
    <3>1. << >> \o <<exited>> = <<exited>>
      BY ShortSequences
    <3>2. Emitted(<<exited>>)
      BY <1>1, <2>1, <2>4, <3>1, EmittedOne
    <3> QED
      BY <1>0, <2>2, <3>2
  <2>5. CASE session /\ last # << >>
    <3>1. PICK t \in {live} \ {NoTurn} : last = <<Runtime("turn.completed", t, "interrupted")>>
      BY <2>1, <2>5
    <3> DEFINE ends == Runtime("turn.completed", t, "interrupted")
    <3>2. ends \in Heard /\ ends.type = "turn.completed"
      BY <1>0, <3>1 DEF Runtime, Heard, ForLifecycle, TurnEndings
    <3>3. last = <<ends>>
      BY <3>1
    <3> HIDE DEF ends
    <3>4. <<ends>> \o <<exited>> = <<ends, exited>>
      BY ShortSequences
    <3>5. Emitted(<<ends, exited>>)
      BY <1>1, <2>1, <2>5, <3>2, <3>3, <3>4, EmittedTwo
    <3> QED
      BY <1>0, <2>2, <3>5
  <2> QED
    BY <2>3, <2>4, <2>5
<1> QED
  BY <1>2, <1>3, <1>4, <1>5 DEF Commanding

LEMMA FirstOfConcat ==
  ASSUME NEW S, NEW a \in Seq(S), NEW b \in Seq(S), a # << >>
  PROVE  a \o b \in Seq(S) /\ a \o b # << >> /\ (a \o b)[1] = a[1]
<1> DEFINE ab == a \o b
<1>1. Len(a) \in Nat /\ Len(a) # 0 /\ Len(b) \in Nat
  BY EmptySeq
<1>2. ab \in Seq(S) /\ Len(ab) = Len(a) + Len(b) /\ \A i \in 1 .. Len(a) : ab[i] = a[i]
  OBVIOUS
<1> HIDE DEF ab
<1>3. Len(ab) # 0 /\ ab[1] = a[1]
  BY <1>1, <1>2
<1>4. ab # << >>
  BY <1>2, <1>3, EmptySeq
<1> QED
  BY <1>2, <1>3, <1>4 DEF ab

\* The session of an event comes first.
LEMMA OutcomeFirst ==
  ASSUME NEW e, NEW spills, NEW gateFails, AppliesLifecycle(e)
  PROVE  LET todo == Outcome(e, spills, gateFails)
         IN todo # << >> /\ 1 \in DOMAIN todo /\ todo[1] = LifecycleSession(e)
<1> DEFINE own == LifecycleSession(e)
           error == SessionSet("error", NoTurn)
           delta == MessageDelta(e.turn)
           complete == MessageComplete(e.turn)
           placeholder == DiffCompleted(e.turn, CurrentTurnCount(thread) + 1, "missing")
           S == {own, error, delta, complete, placeholder}
           q2 == IF e.type = "content.delta" /\ spills THEN <<MessageDelta(e.turn)>> ELSE << >>
           q3 == IF e.type = "item.completed" THEN Finalized(e.turn) ELSE << >>
           q4 == IF e.type \in TurnEndings /\ e.turn \in open THEN Finalized(e.turn) ELSE << >>
           q5 == IF gateFails THEN <<SessionSet("error", NoTurn)>> ELSE << >>
           q6 == IF e.type = "runtime.error"
                      /\ (thread.turn = NoTurn \/ e.turn \in {NoTurn, thread.turn})
                 THEN <<SessionSet("error", NoTurn)>> ELSE << >>
           q7 == IF e.type = "turn.diff.updated" THEN Placeholder(e.turn) ELSE << >>
           todo == Outcome(e, spills, gateFails)
<1>1. todo = <<own>> \o q2 \o q3 \o q4 \o q5 \o q6 \o q7
  BY DEF Outcome
<1>2. Finalized(e.turn) = <<delta, complete>>
  BY DEF Finalized
<1>3. Placeholder(e.turn) = << >> \/ Placeholder(e.turn) = <<placeholder>>
  BY DEF Placeholder
<1>4. /\ q2 = << >> \/ q2 = <<delta>>
      /\ q3 = << >> \/ q3 = <<delta, complete>>
      /\ q4 = << >> \/ q4 = <<delta, complete>>
      /\ q5 = << >> \/ q5 = <<error>>
      /\ q6 = << >> \/ q6 = <<error>>
      /\ q7 = << >> \/ q7 = <<placeholder>>
  BY <1>2, <1>3
<1>5. /\ own \in S /\ error \in S /\ delta \in S /\ complete \in S /\ placeholder \in S
  OBVIOUS
<1> HIDE DEF S, own, error, delta, complete, placeholder, q2, q3, q4, q5, q6, q7, todo
<1>6. << >> \in Seq(S) /\ <<delta, complete>> \in Seq(S) /\ \A x \in S : <<x>> \in Seq(S)
  BY <1>5
<1>7. /\ <<own>> \in Seq(S) /\ <<own>> # << >> /\ <<own>>[1] = own
  BY <1>5
<1>8. /\ q2 \in Seq(S) /\ q3 \in Seq(S) /\ q4 \in Seq(S)
      /\ q5 \in Seq(S) /\ q6 \in Seq(S) /\ q7 \in Seq(S)
  <2> DEFINE both == <<delta, complete>>
             one == <<delta>>
             err == <<error>>
             pl == <<placeholder>>
  <2>1. both \in Seq(S) /\ one \in Seq(S) /\ err \in Seq(S) /\ pl \in Seq(S) /\ << >> \in Seq(S)
    BY <1>5, <1>6
  <2>2. /\ q2 = << >> \/ q2 = one
        /\ q3 = << >> \/ q3 = both
        /\ q4 = << >> \/ q4 = both
        /\ q5 = << >> \/ q5 = err
        /\ q6 = << >> \/ q6 = err
        /\ q7 = << >> \/ q7 = pl
    BY <1>4
  <2> HIDE DEF both, one, err, pl
  <2> QED
    BY <2>1, <2>2
<1> DEFINE p2 == <<own>> \o q2
           p3 == p2 \o q3
           p4 == p3 \o q4
           p5 == p4 \o q5
           p6 == p5 \o q6
           p7 == p6 \o q7
<1>9. p2 \in Seq(S) /\ p2 # << >> /\ p2[1] = own
  BY <1>7, <1>8, FirstOfConcat
<1> HIDE DEF p2
<1>10. p3 \in Seq(S) /\ p3 # << >> /\ p3[1] = own
  BY <1>8, <1>9, FirstOfConcat
<1> HIDE DEF p3
<1>11. p4 \in Seq(S) /\ p4 # << >> /\ p4[1] = own
  BY <1>8, <1>10, FirstOfConcat
<1> HIDE DEF p4
<1>12. p5 \in Seq(S) /\ p5 # << >> /\ p5[1] = own
  BY <1>8, <1>11, FirstOfConcat
<1> HIDE DEF p5
<1>13. p6 \in Seq(S) /\ p6 # << >> /\ p6[1] = own
  BY <1>8, <1>12, FirstOfConcat
<1> HIDE DEF p6
<1>14. p7 \in Seq(S) /\ p7 # << >> /\ p7[1] = own
  BY <1>8, <1>13, FirstOfConcat
<1>15. todo = p7
  BY <1>1 DEF p2, p3, p4, p5, p6
<1> HIDE DEF p7
<1>16. 1 \in DOMAIN p7
  <2>1. Len(p7) \in Nat /\ Len(p7) # 0
    BY <1>14, EmptySeq
  <2> QED
    BY <1>14, <2>1
<1> QED
  BY <1>14, <1>15, <1>16 DEF todo, own

\* What makes the session run: the start of a turn, a session that waits, and one
\* that starts while a turn is active.
LEMMA RunsFacts ==
  ASSUME NEW e, AppliesLifecycle(e), Runs(LifecycleSession(e))
  PROVE  LET x == LifecycleSession(e)
         IN \/ e.type = "turn.started" /\ x.turn = e.turn
            \/ e.type = "session.started" /\ x.turn = thread.turn /\ x.turn # NoTurn
            \/ /\ e.type = "session.state.changed" /\ e.state \in {"waiting", "running"}
               /\ x.turn \in {thread.turn, NoTurn}
<1> DEFINE x == LifecycleSession(e)
<1>0. \A s, t : /\ SessionSet(s, t).type = "session-set"
                /\ SessionSet(s, t).status = s /\ SessionSet(s, t).turn = t
  BY DEF SessionSet, NoEvent
<1>1. CASE e.type = "turn.started"
  <2>1. x = SessionSet("running", e.turn)
    BY <1>1 DEF LifecycleSession
  <2> QED
    BY <1>0, <1>1, <2>1
<1>2. CASE e.type \in TurnEndings
  BY <1>2, LifecycleFacts DEF Runs
<1>4. CASE e.type = "session.exited"
  <2>1. x = SessionSet("stopped", NoTurn)
    BY <1>4 DEF LifecycleSession
  <2> QED
    BY <1>0, <2>1 DEF Runs
<1>5. CASE e.type = "session.started"
  <2>1. x = SessionSet(IF thread.turn # NoTurn THEN "running" ELSE "ready", thread.turn)
    BY <1>5 DEF LifecycleSession
  <2> QED
    BY <1>0, <1>5, <2>1 DEF Runs
<1>6. CASE e.type = "session.state.changed"
  <2>1. x = SessionSet(IF e.state = "waiting" THEN "running" ELSE e.state,
                       IF e.state \in {"waiting", "starting"} THEN thread.turn ELSE NoTurn)
    BY <1>6 DEF LifecycleSession
  <2> QED
    BY <1>0, <1>6, <2>1 DEF Runs
<1> QED
  BY <1>1, <1>2, <1>4, <1>5, <1>6 DEF AppliesLifecycle, ForLifecycle

\* The end of the session settles it, and so does the end of the active turn.
LEMMA EndSettles ==
  ASSUME NEW e, EndsIt(e, thread.turn)
  PROVE  AppliesLifecycle(e) /\ SettlesSession(LifecycleSession(e))
<1>1. CASE e.type = "session.exited"
  <2>1. AppliesLifecycle(e) /\ LifecycleSession(e) = SessionSet("stopped", NoTurn)
    BY <1>1 DEF AppliesLifecycle, ForLifecycle, TurnEndings, LifecycleSession
  <2> QED
    BY <2>1 DEF SettlesSession, SessionSet, NoEvent
<1>2. CASE e.type \in TurnEndings /\ thread.turn \in {e.turn, NoTurn}
  <2>1. AppliesLifecycle(e)
    BY <1>2 DEF AppliesLifecycle, ForLifecycle, OfActiveTurn
  <2> QED
    BY <1>2, <2>1, LifecycleFacts DEF SettlesSession
<1> QED
  BY <1>1, <1>2 DEF EndsIt

\* What ends a turn ends what is not named, too.
LEMMA OwedNoTurn ==
  ASSUME NEW t, NEW n, EndOwed(t, n)
  PROVE  EndOwed(NoTurn, n)
BY DEF EndOwed, EndsIt

\* What is owed stays owed when the provider reports what it no longer works on.
LEMMA OwedStays ==
  ASSUME RInv, NEW events, Emitted(events), NEW t, NEW n \in 0 .. Len(ingestQueue),
         EndOwed(t, n)
  PROVE  EndOwed(t, n)'
<1> DEFINE q == ingestQueue
           l == Len(q)
<1>1. /\ q \in Seq(Heard) /\ events \in Seq(Heard) /\ ingestQueue' = q \o events
      /\ l \in Nat
  BY DEF RInv, Emitted
<1>2. /\ DOMAIN ingestQueue' = 1 .. l + Len(events)
      /\ \A i \in 1 .. l : ingestQueue'[i] = q[i]
      /\ \A i \in 1 .. Len(events) : ingestQueue'[l + i] = events[i]
      /\ DOMAIN events = 1 .. Len(events) /\ DOMAIN q = 1 .. l /\ Len(events) \in Nat
  <2> HIDE DEF q, l
  <2> QED
    BY <1>1 DEF l
<1> HIDE DEF q, l
<1>3. ASSUME NEW u \in Working, \A e : EndsIt(e, u) => EndsIt(e, t),
             u \in Working' => EndOwed(t, n)'
      PROVE  EndOwed(t, n)'
  <2>1. CASE u \in Working'
    BY <1>3, <2>1
  <2>2. CASE \E i \in DOMAIN events : EndsIt(events[i], u)
    <3>1. PICK i \in DOMAIN events : EndsIt(events[i], u)
      BY <2>2
    <3>2. l + i \in DOMAIN ingestQueue' /\ l + i > n /\ EndsIt(ingestQueue'[l + i], t)
      BY <1>1, <1>2, <1>3, <3>1 DEF q, l
    <3> QED
      BY <3>2 DEF EndOwed
  <2> QED
    BY <1>3, <2>1, <2>2 DEF Emitted
<1>4. CASE t \in Working
  BY <1>3, <1>4 DEF EndOwed
<1>5. CASE t = NoTurn /\ Working # {}
  <2>1. PICK u : u \in Working
    BY <1>5
  <2>2. u \in Working' => EndOwed(t, n)'
    BY <1>5 DEF EndOwed
  <2>3. \A e : EndsIt(e, u) => EndsIt(e, t)
    BY <1>5 DEF EndsIt
  <2> QED
    BY <1>3, <2>1, <2>2, <2>3
<1>6. CASE \E i \in DOMAIN ingestQueue : i > n /\ EndsIt(ingestQueue[i], t)
  <2>1. PICK i \in DOMAIN q : i > n /\ EndsIt(q[i], t)
    BY <1>6 DEF q
  <2>2. i \in DOMAIN ingestQueue' /\ ingestQueue'[i] = q[i]
    BY <1>1, <1>2, <2>1
  <2> QED
    BY <2>1, <2>2 DEF EndOwed
<1> QED
  BY <1>4, <1>5, <1>6 DEF EndOwed

\* Nobody but the ingestion worker makes the session run, or run another turn.
LEMMA RunStays ==
  ASSUME DInv, [Next]_vars, ~IngestDispatch, faults' = {}
  PROVE  thread'.status = "running" => thread.status = "running" /\ thread'.turn = thread.turn
<1>1. IngestOK /\ IsThread(thread)
  BY DEF DInv, SInv
<1>0. \A s, t, n : /\ SessionSet(s, t).type = "session-set" /\ SessionSet(s, t).status = s
                   /\ TurnStartRequested.type # "session-set"
                   /\ TurnInterruptRequested(t).type # "session-set"
                   /\ RevertRequested(n).type # "session-set"
                   /\ Reverted(n).type # "session-set"
                   /\ DiffCompleted(t, n, s).type # "session-set"
  BY DEF SessionSet, TurnStartRequested, TurnInterruptRequested, RevertRequested, Reverted,
         DiffCompleted, NoEvent
<1>2. CASE UNCHANGED projections
  BY <1>2 DEF projections
<1>3. CASE \E e : Project(e) /\ ~Runs(e)
  <2>1. PICK e : thread' = ProjectThread(thread, e) /\ ~Runs(e)
    BY <1>3 DEF Project
  <2> DEFINE y == ProjectThread(thread, e)
  <2>2. /\ e.type = "session-set" => y.status = e.status
        /\ e.type = "reverted" =>
             y.status = IF thread.status = "running" THEN "ready" ELSE thread.status
        /\ e.type \notin {"session-set", "reverted"} =>
             y.status = thread.status /\ y.turn = thread.turn
    BY <1>1, ThreadFacts
  <2> HIDE DEF y
  <2> QED
    BY <2>1, <2>2 DEF Runs, y
<1>4. CASE Users
  <2>1. UNCHANGED projections \/ \E e : Project(e) /\ e.type # "session-set"
    BY <1>0, <1>4 DEF Users, RequestTurn, Interrupt, RequestStop, SetRuntimeMode,
                      RequestRevert, Dispatch, projections
  <2> QED
    BY <1>2, <1>3, <2>1 DEF Runs
<1>5. CASE Provider
  BY <1>2, <1>5 DEF Provider, TurnEnds, TurnAborts, Reports, SessionStateChanges,
                    SessionExits, ReplacedSessionExits, RuntimeError, Emit, projections
<1>6. CASE IngestBegin
  BY <1>2, <1>6 DEF IngestBegin, projections
<1>7. CASE Checkpointing
  <2>1. UNCHANGED projections \/ \E e : Project(e) /\ e.type # "session-set"
    BY <1>0, <1>7 DEF Checkpointing, CaptureCompletedTurn, HandleDomainEvent, FinishCapture,
                      Dispatch, projections
  <2> QED
    BY <1>2, <1>3, <2>1 DEF Runs
<1>8. CASE Commanding
  <2>1. UNCHANGED projections \/ \E s \in {"ready", "stopped"} : Project(SessionSet(s, NoTurn))
    BY <1>8 DEF Commanding, TakeCommand, StartSession, BindSession, SendTurn, SendRefused,
                StopSession, UnbindSession, Emit, Dispatch, projections
  <2> QED
    BY <1>0, <1>2, <1>3, <2>1 DEF Runs
<1>9. CASE UNCHANGED vars
  BY <1>2, <1>9 DEF vars, system
<1>10. ~(faults' = faults \cup {"gave up"}) /\ ~(faults' = faults \cup {"restarted"})
  OBVIOUS
<1> QED
  BY <1>4, <1>5, <1>6, <1>7, <1>8, <1>9, <1>10 DEF Next, Ingestion

\* What is owed past the event that is taken stays owed.
LEMMA OwedShifts ==
  ASSUME RInv, IngestBegin, NEW t, NEW n \in Nat, EndOwed(t, n + 1)
  PROVE  EndOwed(t, n)'
<1> DEFINE q == ingestQueue
<1>1. /\ q \in Seq(Heard) /\ q # << >> /\ ingestQueue' = Tail(q) /\ Working' = Working
  BY DEF RInv, IngestBegin, Working, provider
<1>2. /\ DOMAIN q = 1 .. Len(q) /\ DOMAIN ingestQueue' = 1 .. Len(q) - 1 /\ Len(q) \in Nat
      /\ \A i \in 1 .. Len(q) - 1 : ingestQueue'[i] = q[i + 1]
  <2> HIDE DEF q
  <2> QED
    BY <1>1
<1> HIDE DEF q
<1>3. CASE t \in Working \/ (t = NoTurn /\ Working # {})
  BY <1>1, <1>3 DEF EndOwed
<1>4. CASE \E i \in DOMAIN ingestQueue : i > n + 1 /\ EndsIt(ingestQueue[i], t)
  <2>1. PICK i \in DOMAIN q : i > n + 1 /\ EndsIt(q[i], t)
    BY <1>4 DEF q
  <2>2. i - 1 \in DOMAIN ingestQueue' /\ i - 1 > n /\ ingestQueue'[i - 1] = q[i]
    BY <1>2, <2>1
  <2>3. i - 1 \in DOMAIN ingestQueue' /\ i - 1 > n /\ EndsIt(ingestQueue'[i - 1], t)
    BY <2>1, <2>2
  <2> QED
    BY <2>3 DEF EndOwed
<1> QED
  BY <1>3, <1>4 DEF EndOwed

\* The worker that takes an event leaves a run owed its end, or settles the session.
LEMMA BeginRuns ==
  ASSUME DInv, RInv, faults = {}, IngestBegin
  PROVE  RunOwed'
<1> DEFINE q == ingestQueue
           e == Head(q)
<1>0. /\ RunOwed /\ SessionsAgree /\ ingest.todo = << >> /\ thread' = thread
      /\ q \in Seq(Heard) /\ q # << >> /\ ingestQueue' = Tail(q)
  BY DEF RInv, DInv, SInv, IngestBegin, NoIngest, projections
<1>1. PICK spills, gateFails :
        LET todo == Outcome(e, spills, gateFails)
        IN ingest' = IF todo = << >> THEN NoIngest ELSE [event |-> e, todo |-> todo]
  BY DEF IngestBegin
<1> DEFINE todo == Outcome(e, spills, gateFails)
<1>2. ingest'.todo = todo
  BY <1>1 DEF NoIngest
<1>3. /\ 1 \in DOMAIN q /\ e = q[1]
      /\ \A i \in DOMAIN ingestQueue' :
           i \in Nat /\ i + 1 \in DOMAIN q /\ ingestQueue'[i] = q[i + 1]
  <2> HIDE DEF q
  <2>1. Len(q) \in Nat /\ Len(q) # 0
    BY <1>0, EmptySeq
  <2> QED
    BY <1>0, <2>1
<1> HIDE DEF q, e, todo
<1>4. ASSUME NEW t, EndOwed(t, 1)
      PROVE  EndOwed(t, 0)'
  BY <1>4, OwedShifts, 0 + 1 = 1
<1>5. thread.status = "running" => EndOwed(thread.turn, 0)
  BY <1>0 DEF RunOwed
<1>6. ASSUME NEW t, EndOwed(t, 0), ~EndsIt(e, t)
      PROVE  EndOwed(t, 1)
  <2>1. CASE t \in Working \/ (t = NoTurn /\ Working # {})
    BY <2>1 DEF EndOwed
  <2>2. CASE \E i \in DOMAIN q : i > 0 /\ EndsIt(q[i], t)
    <3>1. PICK i \in DOMAIN q : EndsIt(q[i], t)
      BY <2>2
    <3>2. i # 1 /\ i \in 1 .. Len(q)
      BY <1>0, <1>3, <1>6, <3>1
    <3>3. i > 1
      BY <3>2
    <3> QED
      BY <3>1, <3>3 DEF EndOwed, q
  <2> QED
    BY <1>6, <2>1, <2>2 DEF EndOwed, q
<1>7. ASSUME NEW i \in DOMAIN ingestQueue'
      PROVE  LET x == ingestQueue[i] IN
             ( /\ x.type = "turn.started" => EndOwed(x.turn, i)
               /\ x.type = "session.state.changed" /\ x.state \in {"waiting", "running"} =>
                    EndOwed(NoTurn, i) )'
  <2>1. PICK x : x = q[i + 1]
    OBVIOUS
  <2>2. ingestQueue'[i] = x /\ i + 1 \in DOMAIN q /\ i \in Nat
    BY <1>3, <2>1
  <2>3. x.type = "turn.started" => EndOwed(x.turn, i + 1)
    BY <1>0, <2>1, <2>2 DEF RunOwed, q
  <2>4. x.type = "session.state.changed" /\ x.state \in {"waiting", "running"} =>
          EndOwed(NoTurn, i + 1)
    BY <1>0, <2>1, <2>2 DEF RunOwed, q
  <2>5. x.type = "turn.started" => EndOwed(x.turn, i)'
    BY <2>2, <2>3, OwedShifts
  <2>6. EndOwed(NoTurn, i + 1) => EndOwed(NoTurn, i)'
    BY <2>2, OwedShifts
  <2> QED
    BY <2>2, <2>4, <2>5, <2>6 DEF EndOwed
<1>8. ASSUME NEW i \in DOMAIN ingest'.todo, NEW t, t = ingest'.todo[i].turn,
             Runs(ingest'.todo[i])
      PROVE  EndOwed(t, 0)'
  <2>1. PICK S : todo \in Seq(S) /\ \A x \in S : Runs(x) => AppliesLifecycle(e) /\ x = LifecycleSession(e)
    BY OutcomeFacts DEF todo
  <2> PICK x : x = ingest'.todo[i]
    OBVIOUS
  <2>2. x \in S
    BY <1>2, <2>1
  <2>3. AppliesLifecycle(e) /\ Runs(LifecycleSession(e)) /\ x = LifecycleSession(e)
    BY <1>8, <2>1, <2>2
  <2>4. \/ e.type = "turn.started" /\ t = e.turn
        \/ /\ e.type \in {"session.started", "session.state.changed"}
           /\ t = thread.turn /\ t # NoTurn
        \/ /\ e.type = "session.state.changed" /\ e.state \in {"waiting", "running"}
           /\ t = NoTurn
    BY <1>8, <2>3, RunsFacts
  <2>5. EndOwed(t, 1)
    <3>1. CASE e.type = "turn.started" /\ t = e.turn
      BY <1>0, <1>3, <3>1 DEF RunOwed, q
    <3>2. CASE /\ e.type \in {"session.started", "session.state.changed"}
               /\ t = thread.turn /\ t # NoTurn
      <4>1. EndOwed(t, 0)
        BY <1>0, <1>5, <3>2 DEF SessionsAgree
      <4>2. ~EndsIt(e, t)
        BY <3>2 DEF EndsIt, TurnEndings
      <4> QED
        BY <1>6, <4>1, <4>2
    <3>3. CASE /\ e.type = "session.state.changed" /\ e.state \in {"waiting", "running"}
               /\ t = NoTurn
      BY <1>0, <1>3, <3>3 DEF RunOwed, q
    <3> QED
      BY <2>4, <3>1, <3>2, <3>3
  <2> QED
    BY <1>4, <2>5
<1>9. ASSUME thread'.status = "running"
      PROVE  \/ EndOwed(thread.turn, 0)'
             \/ \E i \in DOMAIN ingest'.todo : SettlesSession(ingest'.todo[i])
  <2> PICK t : t = thread.turn
    OBVIOUS
  <2>1. EndOwed(t, 0) /\ thread'.turn = t
    BY <1>0, <1>5, <1>9
  <2>2. CASE EndsIt(e, t)
    <3>1. AppliesLifecycle(e) /\ SettlesSession(LifecycleSession(e))
      BY <2>2, EndSettles
    <3>2. 1 \in DOMAIN todo /\ todo[1] = LifecycleSession(e)
      BY <3>1, OutcomeFirst DEF todo
    <3> QED
      BY <1>2, <3>1, <3>2
  <2>3. CASE ~EndsIt(e, t)
    <3>1. EndOwed(t, 0)'
      BY <1>4, <1>6, <2>1, <2>3
    <3> QED
      BY <2>1, <3>1 DEF EndOwed
  <2> QED
    BY <2>2, <2>3
<1>10. ASSUME NEW i \in DOMAIN ingest'.todo
       PROVE  (Runs(ingest.todo[i]) => EndOwed(ingest.todo[i].turn, 0))'
  <2> PICK t : t = ingest'.todo[i].turn
    OBVIOUS
  <2>1. Runs(ingest'.todo[i]) => EndOwed(t, 0)'
    BY <1>8
  <2> QED
    BY <2>1 DEF EndOwed, Runs
<1> QED
  BY <1>7, <1>9, <1>10 DEF RunOwed, SettlesSession, Runs

\* What the worker dispatches takes from the session what it had to take, or makes
\* run what is owed an end.
LEMMA DispatchRuns ==
  ASSUME DInv, RInv, faults = {}, IngestDispatch
  PROVE  RunOwed'
<1>1. ASSUME NEW e
       PROVE  LET y == ProjectThread(thread, e)
              IN /\ e.type = "session-set" =>
                      y.status = e.status /\ y.turn = NormalizedTurn(e.status, e.turn)
                 /\ e.type = "reverted" =>
                      y.status = IF thread.status = "running" THEN "ready" ELSE thread.status
                 /\ e.type \notin {"session-set", "reverted"} =>
                      y.status = thread.status /\ y.turn = thread.turn
  <2>1. IsThread(thread)
    BY DEF DInv, SInv
  <2> QED
    BY <2>1, ThreadFacts
<1> DEFINE q == ingest.todo
<1>2. /\ RunOwed /\ IngestOK /\ IsThread(thread) /\ ingest # NoIngest /\ ingest' = Remaining
      /\ q # << >> /\ ingestQueue' = ingestQueue /\ Working' = Working
  BY DEF RInv, DInv, SInv, IngestOK, IngestDispatch, Working, provider
<1>3. PICK S : q \in Seq(S)
  BY <1>2 DEF IngestOK
<1> PICK d : d = q[1]
  OBVIOUS
<1>4. /\ 1 \in DOMAIN q /\ Head(q) = d
      /\ \A i \in DOMAIN Tail(q) : i + 1 \in DOMAIN q /\ Tail(q)[i] = q[i + 1]
      /\ \A i \in DOMAIN q : i # 1 => i - 1 \in DOMAIN Tail(q) /\ Tail(q)[i - 1] = q[i]
      /\ Len(q) = 1 => DOMAIN q = {1}
  <2> HIDE DEF q
  <2>1. Len(q) \in Nat /\ Len(q) # 0
    BY <1>2, <1>3, EmptySeq
  <2> QED
    BY <1>2, <1>3, <2>1
<1>5. /\ Len(q) # 1 => ingest'.todo = Tail(q)
      /\ Len(q) = 1 => ingest'.todo = << >>
  BY <1>2 DEF Remaining, NoIngest, IngestOK, IsIngest
<1>6. thread' = ProjectThread(thread, d)
  BY <1>4 DEF IngestDispatch, Dispatch, Project
<1> HIDE DEF q
<1>7. /\ \A i \in DOMAIN ingest'.todo : i + 1 \in DOMAIN q /\ ingest'.todo[i] = q[i + 1]
      /\ \A i \in DOMAIN q : i # 1 => i - 1 \in DOMAIN ingest'.todo /\ ingest'.todo[i - 1] = q[i]
  BY <1>4, <1>5
<1>8. /\ \A i \in DOMAIN q : Runs(q[i]) => EndOwed(q[i].turn, 0)
      /\ thread.status = "running" =>
           EndOwed(thread.turn, 0) \/ \E i \in DOMAIN q : SettlesSession(q[i])
  BY <1>2 DEF RunOwed, q
<1>9. ASSUME NEW t, NEW n, EndOwed(t, n)
      PROVE  EndOwed(t, n)'
  BY <1>2, <1>9 DEF EndOwed
<1>10. ASSUME NEW i \in DOMAIN ingestQueue'
      PROVE  LET y == ingestQueue[i] IN
             ( /\ y.type = "turn.started" => EndOwed(y.turn, i)
               /\ y.type = "session.state.changed" /\ y.state \in {"waiting", "running"} =>
                    EndOwed(NoTurn, i) )'
  <2>1. LET y == ingestQueue[i] IN
        /\ y.type = "turn.started" => EndOwed(y.turn, i)
        /\ y.type = "session.state.changed" /\ y.state \in {"waiting", "running"} =>
             EndOwed(NoTurn, i)
    BY <1>2 DEF RunOwed
  <2> QED
    BY <1>2, <2>1 DEF EndOwed
<1>11. ASSUME NEW i \in DOMAIN ingest'.todo
      PROVE  (Runs(ingest.todo[i]) => EndOwed(ingest.todo[i].turn, 0))'
  <2> PICK t : t = ingest'.todo[i].turn
    OBVIOUS
  <2>1. Runs(ingest'.todo[i]) => EndOwed(t, 0)
    BY <1>7, <1>8
  <2>2. Runs(ingest'.todo[i]) => EndOwed(t, 0)'
    BY <1>9, <2>1
  <2> QED
    BY <2>2 DEF EndOwed, Runs
<1>12. ASSUME thread'.status = "running"
       PROVE  \/ EndOwed(thread.turn, 0)'
              \/ \E i \in DOMAIN ingest'.todo : SettlesSession(ingest'.todo[i])
  <2> DEFINE y == ProjectThread(thread, d)
  <2>1. /\ d.type = "session-set" =>
             y.status = d.status /\ y.turn = NormalizedTurn(d.status, d.turn)
        /\ d.type = "reverted" =>
             y.status = IF thread.status = "running" THEN "ready" ELSE thread.status
        /\ d.type \notin {"session-set", "reverted"} =>
             y.status = thread.status /\ y.turn = thread.turn
    BY <1>1
  <2>2. y = thread'
    BY <1>6
  <2> HIDE DEF y
  <2> PICK t : t = thread'.turn
    OBVIOUS
  <2>3. CASE d.type = "session-set"
    <3>1. Runs(d) /\ t = d.turn
      BY <1>12, <2>1, <2>2, <2>3 DEF Runs, NormalizedTurn
    <3>2. EndOwed(t, 0)
      BY <1>4, <1>8, <3>1
    <3>3. EndOwed(t, 0)'
      BY <1>9, <3>2
    <3> QED
      BY <3>3 DEF EndOwed
  <2>4. CASE d.type = "reverted"
    BY <1>12, <2>1, <2>2, <2>4
  <2>5. CASE d.type \notin {"session-set", "reverted"}
    <3>1. thread.status = "running" /\ thread.turn = t
      BY <1>12, <2>1, <2>2, <2>5
    <3>2. CASE EndOwed(thread.turn, 0)
      <4>1. EndOwed(t, 0)
        BY <3>1, <3>2
      <4>2. EndOwed(t, 0)'
        BY <1>9, <4>1
      <4> QED
        BY <4>2 DEF EndOwed
    <3>3. CASE \E i \in DOMAIN q : SettlesSession(q[i])
      <4>1. PICK i \in DOMAIN q : SettlesSession(q[i])
        BY <3>3
      <4>2. i # 1
        BY <2>5, <4>1 DEF SettlesSession, q
      <4> QED
        BY <1>7, <4>1, <4>2
    <3> QED
      BY <1>8, <3>1, <3>2, <3>3
  <2> QED
    BY <2>3, <2>4, <2>5
<1> QED
  BY <1>10, <1>11, <1>12 DEF RunOwed, SettlesSession, Runs

\* So do all the others, who only add to what the worker is to hear.
LEMMA OthersRun ==
  ASSUME DInv, RInv, [Next]_vars, ~IngestDispatch, UNCHANGED ingest, faults = {}, faults' = {},
         NEW events, Emitted(events)
  PROVE  RunOwed'
<1> DEFINE l == Len(ingestQueue)
<1>0. RunOwed
  BY DEF RInv
<1>1. /\ l \in Nat /\ DOMAIN ingestQueue = 1 .. l
      /\ DOMAIN ingestQueue' = 1 .. l + Len(events) /\ Len(events) \in Nat
      /\ DOMAIN events = 1 .. Len(events)
      /\ \A i \in 1 .. l : ingestQueue'[i] = ingestQueue[i]
      /\ \A i \in 1 .. Len(events) : ingestQueue'[l + i] = events[i]
  <2> DEFINE q == ingestQueue
  <2>1. q \in Seq(Heard) /\ events \in Seq(Heard) /\ ingestQueue' = q \o events
    BY DEF RInv, Emitted
  <2> HIDE DEF q
  <2> QED
    BY <2>1 DEF q
<1> HIDE DEF l
<1>2. ASSUME NEW t, NEW n \in 0 .. l, EndOwed(t, n)
      PROVE  EndOwed(t, n)'
  BY <1>2, OwedStays DEF l
<1>3. ASSUME NEW i \in DOMAIN ingestQueue'
      PROVE  LET y == ingestQueue[i] IN
             ( /\ y.type = "turn.started" => EndOwed(y.turn, i)
               /\ y.type = "session.state.changed" /\ y.state \in {"waiting", "running"} =>
                    EndOwed(NoTurn, i) )'
  <2> PICK y : y = ingestQueue'[i]
    OBVIOUS
  <2>1. CASE i \in 1 .. l
    <3>1. /\ y.type = "turn.started" => EndOwed(y.turn, i)
          /\ y.type = "session.state.changed" /\ y.state \in {"waiting", "running"} =>
               EndOwed(NoTurn, i)
      BY <1>0, <1>1, <2>1 DEF RunOwed
    <3>2. i \in 0 .. l
      BY <1>1, <2>1
    <3>3. /\ y.type = "turn.started" => EndOwed(y.turn, i)'
          /\ EndOwed(NoTurn, i) => EndOwed(NoTurn, i)'
      BY <1>2, <3>1, <3>2
    <3> QED
      BY <3>1, <3>3 DEF EndOwed
  <2>2. CASE i \notin 1 .. l
    <3>1. i - l \in DOMAIN events /\ y = events[i - l]
      BY <1>1, <2>2
    <3>2. /\ y.type = "turn.started" => y.turn \in Working'
          /\ y.type = "session.state.changed" /\ y.state \in {"waiting", "running"} => Working' # {}
      BY <3>1 DEF Emitted
    <3> QED
      BY <3>2 DEF EndOwed
  <2> QED
    BY <2>1, <2>2
<1>4. ASSUME NEW i \in DOMAIN ingest'.todo
      PROVE  (Runs(ingest.todo[i]) => EndOwed(ingest.todo[i].turn, 0))'
  <2> PICK t : t = ingest'.todo[i].turn
    OBVIOUS
  <2>1. Runs(ingest'.todo[i]) => EndOwed(t, 0)
    BY <1>0 DEF RunOwed
  <2>2. Runs(ingest'.todo[i]) => EndOwed(t, 0)'
    BY <1>1, <1>2, <2>1
  <2> QED
    BY <2>2 DEF EndOwed, Runs
<1>5. ASSUME thread'.status = "running"
      PROVE  \/ EndOwed(thread.turn, 0)'
             \/ \E i \in DOMAIN ingest'.todo : SettlesSession(ingest'.todo[i])
  <2> PICK t : t = thread'.turn
    OBVIOUS
  <2>1. thread.status = "running" /\ t = thread.turn
    BY <1>5, RunStays
  <2>2. CASE EndOwed(thread.turn, 0)
    <3>1. EndOwed(t, 0)
      BY <2>1, <2>2
    <3>2. EndOwed(t, 0)'
      BY <1>1, <1>2, <3>1
    <3> QED
      BY <3>2 DEF EndOwed
  <2>3. CASE \E i \in DOMAIN ingest.todo : SettlesSession(ingest.todo[i])
    BY <2>3
  <2> QED
    BY <1>0, <2>1, <2>2, <2>3 DEF RunOwed
<1> QED
  BY <1>3, <1>4, <1>5 DEF RunOwed, SettlesSession, Runs

\* At first nothing runs.
LEMMA RInvInit == Init => RInv
<1> SUFFICES ASSUME Init PROVE RInv
  OBVIOUS
<1>1. /\ begun = 0 /\ live = NoTurn /\ NoTurn = 0 /\ orphaned = {}
      /\ ingestQueue = << >> /\ ingest.todo = << >> /\ thread.status = "none"
  BY DEF Init, NoTurn, NoIngest, EmptyThread
<1>2. RunOwed
  BY <1>1 DEF RunOwed
<1> QED
  BY <1>1, <1>2 DEF RInv

\* Every step leaves what runs owed its end.
LEMMA RInvNext == DInv /\ RInv /\ [Next]_vars => RInv'
<1> SUFFICES ASSUME DInv, RInv, [Next]_vars PROVE RInv'
  OBVIOUS
<1>0. /\ begun \in Nat /\ live \in Nat /\ orphaned \subseteq Nat /\ (live # NoTurn => session)
      /\ ingestQueue \in Seq(Heard)
  BY DEF RInv
<1>1. ASSUME NEW events, Emitted(events), begun' \in Nat, live' \in Nat, orphaned' \subseteq Nat,
             live' # NoTurn => session', UNCHANGED <<ingest, faults>>, ~IngestDispatch
      PROVE  RInv'
  <2>1. ingestQueue' \in Seq(Heard)
    BY <1>0, <1>1 DEF Emitted
  <2>2. faults' = {} => RunOwed'
    BY <1>1, OthersRun
  <2> QED
    BY <1>1, <2>1, <2>2 DEF RInv
<1>2. CASE UNCHANGED <<provider, ingestQueue, ingest, faults>> /\ ~IngestDispatch
  <2>1. Emitted(<< >>)
    BY <1>2, <1>0, EmittedNone
  <2>2. UNCHANGED <<begun, live, orphaned, session>>
    BY <1>2 DEF provider
  <2> QED
    BY <1>0, <1>1, <1>2, <2>1, <2>2
<1>3. ~(IngestDispatch /\ UNCHANGED ingest)
  <2> SUFFICES ASSUME IngestDispatch, UNCHANGED ingest PROVE FALSE
    OBVIOUS
  <2>1. ingest # NoIngest /\ ingest = Remaining /\ ingest.todo # << >>
    BY DEF IngestDispatch, DInv, IngestOK
  <2>2. PICK S : ingest.todo \in Seq(S)
    BY DEF DInv, IngestOK
  <2> DEFINE q == ingest.todo
  <2>3. q = Tail(q)
    BY <2>1 DEF Remaining, DInv, IngestOK, IsIngest
  <2>4. q \in Seq(S) /\ q # << >>
    BY <2>1, <2>2
  <2> HIDE DEF q
  <2>5. Len(Tail(q)) = Len(q) - 1 /\ Len(q) \in Nat
    BY <2>4
  <2> QED
    BY <2>3, <2>5
<1>4. CASE Users /\ UNCHANGED faults
  <2>1. UNCHANGED <<provider, ingestQueue, ingest>>
    BY <1>4 DEF Users, RequestTurn, Interrupt, RequestStop, SetRuntimeMode, RequestRevert,
                ingestion
  <2> QED
    BY <1>2, <1>3, <1>4, <2>1
<1>5. CASE Provider /\ UNCHANGED faults
  <2>1. UNCHANGED ingest
    BY <1>5 DEF Provider, TurnEnds, TurnAborts, Reports, SessionStateChanges, SessionExits,
                ReplacedSessionExits, RuntimeError, Emit
  <2>2. /\ \E events : Emitted(events)
        /\ begun' = begun /\ live' \in Nat /\ orphaned' \subseteq Nat
        /\ live' # NoTurn => session'
    BY <1>5, ProviderEmits
  <2> QED
    BY <1>0, <1>1, <1>3, <1>5, <2>1, <2>2
<1>6. CASE IngestBegin /\ UNCHANGED faults
  <2>1. faults' = {} => RunOwed'
    BY <1>6, BeginRuns
  <2>2. ingestQueue' \in Seq(Heard) /\ UNCHANGED provider
    BY <1>0, <1>6 DEF IngestBegin
  <2> QED
    BY <1>0, <2>1, <2>2 DEF RInv, provider
<1>7. CASE IngestDispatch /\ UNCHANGED faults
  <2>1. faults' = {} => RunOwed'
    BY <1>7, DispatchRuns
  <2>2. UNCHANGED <<ingestQueue, provider>>
    BY <1>7 DEF IngestDispatch
  <2> QED
    BY <1>0, <2>1, <2>2 DEF RInv, provider
<1>8. CASE Checkpointing /\ UNCHANGED faults
  <2>1. UNCHANGED <<provider, ingestQueue, ingest>>
    BY <1>8 DEF Checkpointing, CaptureCompletedTurn, HandleDomainEvent, FinishCapture, ingestion
  <2> QED
    BY <1>2, <1>3, <1>8, <2>1
<1>9. CASE Commanding /\ UNCHANGED faults
  <2>1. UNCHANGED ingest
    BY <1>9 DEF Commanding, TakeCommand, StartSession, BindSession, SendTurn, SendRefused,
                StopSession, UnbindSession, Emit, ingestion
  <2>2. /\ \E events : Emitted(events)
        /\ begun' \in Nat /\ live' \in Nat /\ orphaned' \subseteq Nat
        /\ live' # NoTurn => session'
    BY <1>9, CommandingEmits
  <2> QED
    BY <1>1, <1>3, <1>9, <2>1, <2>2
<1>10. CASE Failures /\ faults' = faults \cup {"gave up"}
  <2>1. UNCHANGED <<provider, ingestQueue>>
    BY <1>10 DEF Failures, IngestFails, CaptureFails, CommandFails, ingestion
  <2> QED
    BY <1>0, <1>10, <2>1 DEF RInv, provider
<1>11. CASE Restart /\ faults' = faults \cup {"restarted"}
  <2>1. /\ ingestQueue' = << >> /\ begun' = begun /\ live' = NoTurn /\ orphaned' = {}
        /\ NoTurn \in Nat
    BY <1>11 DEF Restart, NoTurn
  <2> QED
    BY <1>0, <1>11, <2>1 DEF RInv
<1>12. CASE UNCHANGED vars
  <2>1. UNCHANGED <<provider, ingestQueue, ingest, faults>>
    BY <1>12 DEF vars, system, ingestion
  <2> QED
    BY <1>2, <1>3, <2>1
<1> QED
  BY <1>4, <1>5, <1>6, <1>7, <1>8, <1>9, <1>10, <1>11, <1>12 DEF Next, Ingestion

\* When everything is handled and no process works on a turn, the thread is not
\* shown as running, unless a handler gave up or the server was restarted: no end
\* of a turn is dropped that another does not make up for.
THEOREM IdleCorrect == Spec => []IdleIsNotRunning
<1>1. RInv => IdleIsNotRunning
  BY DEF RInv, RunOwed, EndOwed, IdleIsNotRunning, Quiescent, NoIngest
<1> QED
  BY DInvInit, DInvNext, RInvInit, RInvNext, <1>1, PTL DEF Spec

-----------------------------------------------------------------------------
(* Filters                                                                 *)

\* A set of numbers has a least one.
LEMMA Least ==
  ASSUME NEW S, S \subseteq Nat, S # {}
  PROVE  \E n \in S : \A m \in S : n <= m
<1> DEFINE R == OpToRel(<, Nat)
<1>1. IsWellFoundedOn(R, Nat)
  BY NatLessThanWellFounded
<1> HIDE DEF R
<1>2. PICK n \in S : \A m \in S : <<m, n>> \notin R
  BY <1>1, WFMin
<1>3. \A m \in S : ~(m < n)
  BY <1>2 DEF OpToRel, R
<1> QED
  BY <1>2, <1>3

\* Induction over the numbers, for a set instead of a predicate.
LEMMA Induction ==
  ASSUME NEW S, 0 \in S, \A n \in Nat : n \in S => n + 1 \in S
  PROVE  \A n \in Nat : n \in S
<1> DEFINE T == Nat \ S
<1> SUFFICES ASSUME T # {}
             PROVE  FALSE
  OBVIOUS
<1>1. PICK n \in T : \A m \in T : n <= m
  BY Least
<1>2. n \in Nat \ {0} /\ n - 1 \in Nat
  BY <1>1
<1>3. n - 1 \notin T
  BY <1>1, <1>2
<1> QED
  BY <1>2, <1>3

\* f holds what is kept of the first elements of s, up to the n-th.
Keeping(f, s, S, n) ==
  f = [k \in 0 .. n |-> IF k = 0 THEN << >>
                        ELSE IF s[k] \in S THEN Append(f[k - 1], s[k]) ELSE f[k - 1]]

LEMMA KeepingExists ==
  ASSUME NEW s, NEW S
  PROVE  \A n \in Nat : \E f : Keeping(f, s, S, n)
<1> DEFINE Step(w, k) == IF s[k] \in S THEN Append(w, s[k]) ELSE w
           N == {n \in Nat : \E f : Keeping(f, s, S, n)}
<1>0. \A f, n : Keeping(f, s, S, n) <=>
                  f = [k \in 0 .. n |-> IF k = 0 THEN << >> ELSE Step(f[k - 1], k)]
  BY DEF Keeping
<1> HIDE DEF Step
<1>1. 0 \in N
  <2> DEFINE f == [k \in 0 .. 0 |-> << >>]
  <2>1. Keeping(f, s, S, 0)
    BY <1>0
  <2> QED
    BY <2>1
<1>2. ASSUME NEW n \in Nat, n \in N
      PROVE  n + 1 \in N
  <2>1. PICK f : f = [k \in 0 .. n |-> IF k = 0 THEN << >> ELSE Step(f[k - 1], k)]
    BY <1>0, <1>2
  <2> DEFINE g == [k \in 0 .. n + 1 |-> IF k = n + 1 THEN Step(f[n], n + 1) ELSE f[k]]
  <2>2. ASSUME NEW k \in 0 .. n + 1
        PROVE  g[k] = IF k = 0 THEN << >> ELSE Step(g[k - 1], k)
    <3>1. CASE k = n + 1
      <4>1. k # 0 /\ k - 1 = n /\ n \in 0 .. n + 1 /\ n # n + 1
        BY <3>1
      <4> QED
        BY <3>1, <4>1
    <3>2. CASE k = 0
      <4>1. g[k] = f[0] /\ f[0] = << >>
        BY <2>1, <3>2
      <4> QED
        BY <3>2, <4>1
    <3>3. CASE k \in 1 .. n
      <4>1. k \in 0 .. n /\ k - 1 \in 0 .. n + 1 /\ k # n + 1 /\ k - 1 # n + 1 /\ k # 0
        BY <3>3
      <4>2. g[k] = f[k] /\ g[k - 1] = f[k - 1]
        BY <4>1
      <4>3. f[k] = Step(f[k - 1], k)
        BY <2>1, <4>1
      <4> QED
        BY <4>1, <4>2, <4>3
    <3> QED
      BY <3>1, <3>2, <3>3
  <2>3. g = [k \in 0 .. n + 1 |-> g[k]]
    OBVIOUS
  <2> HIDE DEF g
  <2>4. g = [k \in 0 .. n + 1 |-> IF k = 0 THEN << >> ELSE Step(g[k - 1], k)]
    BY <2>2, <2>3
  <2>5. Keeping(g, s, S, n + 1)
    BY <1>0, <2>4
  <2> QED
    BY <2>5
<1> HIDE DEF N
<1>3. \A n \in Nat : n \in N
  BY <1>1, <1>2, Induction
<1> QED
  BY <1>3 DEF N

\* w is what S keeps of the first n elements of s; g tells where each comes from.
Embeds(w, s, S, n, g) ==
  /\ g \in [1 .. Len(w) -> 1 .. n]
  /\ \A i, j \in 1 .. Len(w) : i < j => g[i] < g[j]
  /\ \A i \in 1 .. Len(w) : w[i] = s[g[i]] /\ w[i] \in S
  /\ \A k \in 1 .. n : s[k] \in S => \E i \in 1 .. Len(w) : g[i] = k

\* One element more.
LEMMA EmbedsOneMore ==
  ASSUME NEW T, NEW w \in Seq(T), NEW s, NEW S, NEW n \in Nat, NEW g, Embeds(w, s, S, n, g),
         s[n + 1] \in T
  PROVE  LET x == IF s[n + 1] \in S THEN Append(w, s[n + 1]) ELSE w
         IN x \in Seq(T) /\ \E h : Embeds(x, s, S, n + 1, h)
<1>1. CASE s[n + 1] \notin S
  <2>1. Embeds(w, s, S, n + 1, g)
    <3>1. \A k \in 1 .. n + 1 : s[k] \in S => k \in 1 .. n
      BY <1>1
    <3>2. g \in [1 .. Len(w) -> 1 .. n + 1]
      <4>1. g \in [1 .. Len(w) -> 1 .. n] /\ 1 .. n \subseteq 1 .. n + 1
        BY DEF Embeds
      <4> QED
        BY <4>1
    <3> QED
      BY <3>1, <3>2 DEF Embeds
  <2> QED
    BY <1>1, <2>1
<1>2. CASE s[n + 1] \in S
  <2> DEFINE x == Append(w, s[n + 1])
             l == Len(w)
             h == [i \in 1 .. l + 1 |-> IF i = l + 1 THEN n + 1 ELSE g[i]]
  <2>1. /\ x \in Seq(T) /\ Len(x) = l + 1 /\ l \in Nat
        /\ x[l + 1] = s[n + 1] /\ \A i \in 1 .. l : x[i] = w[i]
    OBVIOUS
  <2>2. /\ g \in [1 .. l -> 1 .. n]
        /\ \A i, j \in 1 .. l : i < j => g[i] < g[j]
        /\ \A i \in 1 .. l : w[i] = s[g[i]] /\ w[i] \in S
        /\ \A k \in 1 .. n : s[k] \in S => \E i \in 1 .. l : g[i] = k
    BY DEF Embeds
  <2> HIDE DEF x, l
  <2>3. /\ h[l + 1] = n + 1 /\ \A i \in 1 .. l : h[i] = g[i]
        /\ \A i \in 1 .. l + 1 : i = l + 1 \/ i \in 1 .. l
        /\ DOMAIN h = 1 .. l + 1
    BY <2>1
  <2>4. h \in [1 .. l + 1 -> 1 .. n + 1]
    BY <2>1, <2>2
  <2> HIDE DEF h
  <2>5. ASSUME NEW i \in 1 .. l + 1, NEW j \in 1 .. l + 1, i < j
        PROVE  h[i] < h[j]
    <3>1. i \in 1 .. l
      BY <2>1, <2>5
    <3>2. h[i] = g[i] /\ g[i] \in 1 .. n
      BY <2>2, <2>3, <3>1
    <3>3. CASE j = l + 1
      BY <2>3, <3>2, <3>3
    <3>4. CASE j \in 1 .. l
      BY <2>2, <2>3, <2>5, <3>1, <3>4
    <3> QED
      BY <2>3, <3>3, <3>4
  <2>6. ASSUME NEW i \in 1 .. l + 1
        PROVE  x[i] = s[h[i]] /\ x[i] \in S
    <3>1. CASE i = l + 1
      BY <1>2, <2>1, <2>3, <3>1
    <3>2. CASE i \in 1 .. l
      BY <2>1, <2>2, <2>3, <3>2
    <3> QED
      BY <2>3, <3>1, <3>2
  <2>7. ASSUME NEW k \in 1 .. n + 1, s[k] \in S
        PROVE  \E i \in 1 .. l + 1 : h[i] = k
    <3>1. CASE k = n + 1
      <4>1. l + 1 \in 1 .. l + 1
        BY <2>1
      <4> QED
        BY <2>3, <3>1, <4>1
    <3>2. CASE k # n + 1
      <4>1. PICK i \in 1 .. l : g[i] = k
        BY <2>2, <2>7, <3>2
      <4>2. i \in 1 .. l + 1 /\ h[i] = k
        BY <2>1, <2>3, <4>1
      <4> QED
        BY <4>2
    <3> QED
      BY <3>1, <3>2
  <2>8. Embeds(x, s, S, n + 1, h)
    BY <2>1, <2>4, <2>5, <2>6, <2>7 DEF Embeds
  <2> QED
    BY <1>2, <2>1, <2>8 DEF x
<1> QED
  BY <1>1, <1>2

\* What a filter keeps of a sequence: the elements of the set, in their order.
LEMMA FilterEmbeds ==
  ASSUME NEW T, NEW s \in Seq(T), NEW S
  PROVE  Filter(s, S) \in Seq(T) /\ \E g : Embeds(Filter(s, S), s, S, Len(s), g)
<1> DEFINE f == CHOOSE f : Keeping(f, s, S, Len(s))
           N == {n \in Nat : n <= Len(s) =>
                   f[n] \in Seq(T) /\ \E g : Embeds(f[n], s, S, n, g)}
<1>1. Len(s) \in Nat
  OBVIOUS
<1>2. Keeping(f, s, S, Len(s))
  BY <1>1, KeepingExists
<1>3. Filter(s, S) = f[Len(s)]
  BY DEF Filter, Keeping
<1> HIDE DEF f
<1>4. 0 \in N
  <2>1. f[0] = << >>
    BY <1>1, <1>2 DEF Keeping
  <2> DEFINE g == [i \in 1 .. 0 |-> i]
  <2>2. Embeds(<< >>, s, S, 0, g)
    BY DEF Embeds
  <2>3. << >> \in Seq(T)
    OBVIOUS
  <2> QED
    BY <2>1, <2>2, <2>3
<1>5. ASSUME NEW n \in Nat, n \in N
      PROVE  n + 1 \in N
  <2> SUFFICES ASSUME n + 1 <= Len(s)
               PROVE  f[n + 1] \in Seq(T) /\ \E g : Embeds(f[n + 1], s, S, n + 1, g)
    OBVIOUS
  <2>1. n <= Len(s) /\ n + 1 \in 1 .. Len(s) /\ n + 1 \in 0 .. Len(s) /\ n + 1 # 0 /\ n + 1 - 1 = n
    BY <1>1
  <2>2. s[n + 1] \in T
    BY <2>1
  <2>3. f[n] \in Seq(T) /\ \E g : Embeds(f[n], s, S, n, g)
    BY <1>5, <2>1
  <2>4. f[n + 1] = IF s[n + 1] \in S THEN Append(f[n], s[n + 1]) ELSE f[n]
    <3>1. \A k \in 0 .. Len(s) :
            f[k] = IF k = 0 THEN << >>
                   ELSE IF s[k] \in S THEN Append(f[k - 1], s[k]) ELSE f[k - 1]
      BY <1>2 DEF Keeping
    <3> QED
      BY <2>1, <3>1
  <2> QED
    BY <2>2, <2>3, <2>4, EmbedsOneMore
<1> HIDE DEF N
<1>6. \A n \in Nat : n \in N
  BY <1>4, <1>5, Induction
<1> QED
  BY <1>1, <1>3, <1>6 DEF N

\* So without telling where: what was there and in the set is kept ...
LEMMA FilterKeeps ==
  ASSUME NEW T, NEW s \in Seq(T), NEW S, NEW k \in DOMAIN s, s[k] \in S
  PROVE  \E i \in DOMAIN Filter(s, S) : Filter(s, S)[i] = s[k]
<1> DEFINE w == Filter(s, S)
<1>1. w \in Seq(T)
  BY FilterEmbeds
<1>2. PICK g : Embeds(w, s, S, Len(s), g)
  BY FilterEmbeds
<1> HIDE DEF w
<1>3. DOMAIN w = 1 .. Len(w) /\ k \in 1 .. Len(s)
  BY <1>1
<1>4. PICK i \in 1 .. Len(w) : g[i] = k
  BY <1>2, <1>3 DEF Embeds
<1>5. i \in DOMAIN w /\ w[i] = s[k]
  BY <1>2, <1>3, <1>4 DEF Embeds
<1> QED
  BY <1>5 DEF w

\* ... what is kept was there and in the set, and what comes first came first.
LEMMA FilterFacts ==
  ASSUME NEW T, NEW s \in Seq(T), NEW S
  PROVE  LET w == Filter(s, S)
         IN /\ w \in Seq(T) /\ w \in Seq(S)
            /\ \A i \in DOMAIN w : w[i] \in S /\ \E k \in DOMAIN s : w[i] = s[k]
            /\ \A i, j \in DOMAIN w :
                 i < j => \E k, l \in DOMAIN s : k < l /\ w[i] = s[k] /\ w[j] = s[l]
<1> DEFINE w == Filter(s, S)
<1>1. PICK g : Embeds(w, s, S, Len(s), g)
  BY FilterEmbeds
<1>2. w \in Seq(T)
  BY FilterEmbeds
<1> HIDE DEF w
<1>3. DOMAIN w = 1 .. Len(w) /\ DOMAIN s = 1 .. Len(s) /\ Len(w) \in Nat
  BY <1>2
<1>4. /\ g \in [DOMAIN w -> DOMAIN s]
      /\ \A i, j \in DOMAIN w : i < j => g[i] < g[j]
      /\ \A i \in DOMAIN w : w[i] = s[g[i]] /\ w[i] \in S
      /\ \A k \in DOMAIN s : s[k] \in S => \E i \in DOMAIN w : g[i] = k
  BY <1>1, <1>3 DEF Embeds
<1>5. w \in Seq(S)
  BY <1>2, <1>4
<1>6. \A i \in DOMAIN w : w[i] \in S /\ \E k \in DOMAIN s : w[i] = s[k]
  BY <1>4
<1>7. \A i, j \in DOMAIN w :
        i < j => \E k, l \in DOMAIN s : k < l /\ w[i] = s[k] /\ w[j] = s[l]
  BY <1>4
<1> QED
  BY <1>2, <1>5, <1>6, <1>7 DEF w

-----------------------------------------------------------------------------
(* Checkpoints in their order                                              *)

\* No two checkpoints are of one turn, and their counts never fall.
Ordered(s) ==
  \A i, j \in DOMAIN s : i < j => s[i].turn # s[j].turn /\ s[i].count <= s[j].count

\* What is kept of an ordered sequence is ordered.
LEMMA FilterOrdered ==
  ASSUME NEW T, NEW s \in Seq(T), Ordered(s), NEW S
  PROVE  Ordered(Filter(s, S))
<1> DEFINE w == Filter(s, S)
<1>1. \A i, j \in DOMAIN w :
        i < j => \E k, l \in DOMAIN s : k < l /\ w[i] = s[k] /\ w[j] = s[l]
  BY FilterFacts
<1> HIDE DEF w
<1>2. Ordered(w)
  BY <1>1 DEF Ordered
<1> QED
  BY <1>2 DEF w

\* One element put between two sequences.
LEMMA BetweenFacts ==
  ASSUME NEW T, NEW a \in Seq(T), NEW c \in T, NEW b \in Seq(T), NEW w, w = a \o <<c>> \o b
  PROVE  /\ w \in Seq(T) /\ Len(a) \in Nat /\ Len(b) \in Nat
         /\ DOMAIN w = 1 .. Len(a) + 1 + Len(b)
         /\ \A i \in 1 .. Len(a) : w[i] = a[i]
         /\ w[Len(a) + 1] = c
         /\ \A i \in 1 .. Len(b) : w[Len(a) + 1 + i] = b[i]
<1> DEFINE ac == a \o <<c>>
<1>1. /\ ac \in Seq(T) /\ Len(ac) = Len(a) + 1 /\ Len(a) \in Nat /\ Len(b) \in Nat
      /\ \A i \in 1 .. Len(a) : ac[i] = a[i]
      /\ ac[Len(a) + 1] = c
  OBVIOUS
<1>2. w = ac \o b
  OBVIOUS
<1> HIDE DEF ac
<1>3. /\ w \in Seq(T) /\ Len(w) = Len(ac) + Len(b)
      /\ \A i \in 1 .. Len(ac) : w[i] = ac[i]
      /\ \A i \in 1 .. Len(b) : w[Len(ac) + i] = b[i]
  <2>1. ac \in Seq(T) /\ b \in Seq(T)
    BY <1>1
  <2>2. w \in Seq(T) /\ Len(w) = Len(ac) + Len(b)
    BY <1>2, <2>1
  <2>3. \A i \in 1 .. Len(ac) : w[i] = ac[i]
    BY <1>2, <2>1
  <2>4. \A i \in 1 .. Len(b) : w[Len(ac) + i] = b[i]
    BY <1>2, <2>1
  <2> QED
    BY <2>2, <2>3, <2>4
<1>4. /\ w \in Seq(T) /\ DOMAIN w = 1 .. Len(a) + 1 + Len(b)
      /\ \A i \in 1 .. Len(a) : w[i] = a[i]
      /\ w[Len(a) + 1] = c
      /\ \A i \in 1 .. Len(b) : w[Len(a) + 1 + i] = b[i]
  BY <1>1, <1>3
<1> QED
  BY <1>1, <1>4

\* A new checkpoint takes the place of its turn's, and the others stay, in order.
LEMMA WithCheckpointFacts ==
  ASSUME NEW s \in Seq(Checkpoints), Ordered(s), NEW c \in Checkpoints
  PROVE  LET w == WithCheckpoint(s, c)
         IN /\ w \in Seq(Checkpoints) /\ Ordered(w)
            /\ \E i \in DOMAIN w : w[i] = c
            /\ \A k \in DOMAIN s : s[k].turn # c.turn => \E i \in DOMAIN w : w[i] = s[k]
<1> DEFINE others == {d \in ToSet(s) : d.turn # c.turn}
           low == {d \in others : d.count <= c.count}
           high == {d \in others : d.count > c.count}
           a == Filter(s, low)
           b == Filter(s, high)
           w == WithCheckpoint(s, c)
           l == Len(a)
<1>0. \A d \in Checkpoints : d.count \in Nat
  BY DEF Checkpoints
<1>1. w = a \o <<c>> \o b
  BY DEF WithCheckpoint
<1>2. /\ \A d \in low : d.turn # c.turn /\ d.count <= c.count
      /\ \A d \in high : d.turn # c.turn /\ d.count > c.count
  OBVIOUS
<1>3. \A k \in DOMAIN s : s[k].turn # c.turn => s[k] \in low \/ s[k] \in high
  BY <1>0 DEF ToSet
<1> HIDE DEF low, high
<1>4. /\ a \in Seq(Checkpoints)
      /\ \A i \in DOMAIN a :
           a[i] \in low /\ a[i] \in Checkpoints /\ \E k \in DOMAIN s : a[i] = s[k]
  BY FilterFacts
<1>5. \A k \in DOMAIN s : s[k] \in low => \E i \in DOMAIN a : a[i] = s[k]
  BY FilterKeeps
<1>6. /\ b \in Seq(Checkpoints)
      /\ \A i \in DOMAIN b :
           b[i] \in high /\ b[i] \in Checkpoints /\ \E k \in DOMAIN s : b[i] = s[k]
  BY FilterFacts
<1>7. \A k \in DOMAIN s : s[k] \in high => \E i \in DOMAIN b : b[i] = s[k]
  BY FilterKeeps
<1>8. Ordered(a) /\ Ordered(b)
  BY FilterOrdered
<1> HIDE DEF a, b, w
<1>9. /\ w \in Seq(Checkpoints) /\ l \in Nat /\ Len(b) \in Nat
      /\ DOMAIN w = 1 .. l + 1 + Len(b)
      /\ \A i \in 1 .. l : w[i] = a[i]
      /\ w[l + 1] = c
      /\ \A i \in 1 .. Len(b) : w[l + 1 + i] = b[i]
      /\ DOMAIN a = 1 .. l /\ DOMAIN b = 1 .. Len(b)
  BY <1>1, <1>4, <1>6, BetweenFacts
<1> HIDE DEF l
<1>10. \E i \in DOMAIN w : w[i] = c
  <2>1. l + 1 \in DOMAIN w
    BY <1>9
  <2> QED
    BY <1>9, <2>1
<1>11. ASSUME NEW k \in DOMAIN s, s[k].turn # c.turn
      PROVE  \E i \in DOMAIN w : w[i] = s[k]
  <2>1. CASE s[k] \in low
    <3>1. PICK i \in 1 .. l : a[i] = s[k]
      BY <1>5, <1>9, <2>1
    <3>2. i \in DOMAIN w /\ w[i] = s[k]
      BY <1>9, <3>1
    <3> QED
      BY <3>2
  <2>2. CASE s[k] \in high
    <3>1. PICK i \in 1 .. Len(b) : b[i] = s[k]
      BY <1>7, <1>9, <2>2
    <3>2. l + 1 + i \in DOMAIN w /\ w[l + 1 + i] = s[k]
      BY <1>9, <3>1
    <3> QED
      BY <3>2
  <2> QED
    BY <1>3, <1>11, <2>1, <2>2
<1>12. Ordered(w)
  <2>0. ASSUME NEW i \in DOMAIN w, i > l + 1
        PROVE  i - (l + 1) \in 1 .. Len(b) /\ w[i] = b[i - (l + 1)]
    <3> DEFINE n == Len(b)
               k == i - (l + 1)
    <3>1. l \in Nat /\ n \in Nat /\ i \in 1 .. l + 1 + n
      BY <1>9
    <3> HIDE DEF n
    <3>2. k \in 1 .. n /\ i = l + 1 + k
      BY <2>0, <3>1
    <3> HIDE DEF k
    <3>3. w[l + 1 + k] = b[k]
      BY <1>9, <3>2 DEF n
    <3> QED
      BY <3>2, <3>3 DEF k, n
  <2>1. ASSUME NEW i \in DOMAIN w
        PROVE  \/ i \in 1 .. l /\ w[i] = a[i]
               \/ i = l + 1 /\ w[i] = c
               \/ i - (l + 1) \in 1 .. Len(b) /\ w[i] = b[i - (l + 1)]
    <3>1. CASE i <= l
      <4>1. i \in 1 .. l + 1 + Len(b) /\ l \in Nat /\ Len(b) \in Nat
        BY <1>9
      <4>2. i \in 1 .. l
        BY <3>1, <4>1
      <4> QED
        BY <1>9, <4>2
    <3>2. CASE i = l + 1
      BY <1>9, <3>2
    <3>3. CASE i > l + 1
      BY <2>0, <3>3
    <3>4. i \in 1 .. l + 1 + Len(b) /\ l \in Nat /\ Len(b) \in Nat
      BY <1>9
    <3> QED
      BY <3>1, <3>2, <3>3, <3>4
  <2>2. \A i \in 1 .. l : a[i] \in Checkpoints /\ a[i].turn # c.turn /\ a[i].count <= c.count
    <3> SUFFICES ASSUME NEW i \in DOMAIN a
                 PROVE  a[i] \in Checkpoints /\ a[i].turn # c.turn /\ a[i].count <= c.count
      BY <1>9
    <3>1. a[i] \in low /\ a[i] \in Checkpoints
      BY <1>4
    <3> QED
      BY <1>2, <3>1
  <2>3. \A i \in 1 .. Len(b) : b[i] \in Checkpoints /\ b[i].turn # c.turn /\ b[i].count > c.count
    <3> SUFFICES ASSUME NEW i \in DOMAIN b
                 PROVE  b[i] \in Checkpoints /\ b[i].turn # c.turn /\ b[i].count > c.count
      BY <1>9
    <3>1. b[i] \in high /\ b[i] \in Checkpoints
      BY <1>6
    <3> QED
      BY <1>2, <3>1
  <2>4. \A i \in 1 .. l, j \in 1 .. Len(b) :
          a[i].turn # b[j].turn /\ a[i].count <= b[j].count
    <3> SUFFICES ASSUME NEW i \in 1 .. l, NEW j \in 1 .. Len(b)
                 PROVE  a[i].turn # b[j].turn /\ a[i].count <= b[j].count
      OBVIOUS
    <3>1. a[i].count \in Nat /\ b[j].count \in Nat /\ c.count \in Nat
      BY <1>0, <2>2, <2>3
    <3>2. a[i].count <= b[j].count
      BY <2>2, <2>3, <3>1
    <3>3. PICK k, m \in DOMAIN s : a[i] = s[k] /\ b[j] = s[m]
      BY <1>4, <1>6, <1>9
    <3>4. k # m
      BY <2>2, <2>3, <3>1, <3>3
    <3>5. a[i].turn # b[j].turn
      BY <3>3, <3>4 DEF Ordered
    <3> QED
      BY <3>2, <3>5
  <2>5. ASSUME NEW i \in DOMAIN w, NEW j \in DOMAIN w, i < j
        PROVE  w[i].turn # w[j].turn /\ w[i].count <= w[j].count
    <3>0. i \in Nat /\ j \in Nat /\ c.count \in Nat /\ l \in Nat
      BY <1>0, <1>9
    <3>1. CASE i \in 1 .. l /\ w[i] = a[i]
      <4>1. CASE j \in 1 .. l /\ w[j] = a[j]
        <5>1. i \in DOMAIN a /\ j \in DOMAIN a
          BY <1>9, <3>1, <4>1
        <5> QED
          BY <1>8, <2>5, <3>1, <4>1, <5>1 DEF Ordered
      <4>2. CASE j = l + 1 /\ w[j] = c
        BY <2>2, <3>1, <4>2
      <4>3. CASE j - (l + 1) \in 1 .. Len(b) /\ w[j] = b[j - (l + 1)]
        BY <2>4, <3>1, <4>3
      <4> QED
        BY <2>1, <4>1, <4>2, <4>3
    <3>2. CASE i = l + 1 /\ w[i] = c
      <4>0. j > l + 1
        BY <2>5, <3>0, <3>2
      <4>1. j - (l + 1) \in 1 .. Len(b) /\ w[j] = b[j - (l + 1)]
        BY <2>0, <4>0
      <4> DEFINE m == j - (l + 1)
      <4> HIDE DEF m
      <4>2. b[m].turn # c.turn /\ b[m].count > c.count /\ b[m].count \in Nat
        BY <1>0, <2>3, <4>1 DEF m
      <4>3. w[j] = b[m]
        BY <4>1 DEF m
      <4> QED
        BY <3>0, <3>2, <4>2, <4>3
    <3>3. CASE i - (l + 1) \in 1 .. Len(b) /\ w[i] = b[i - (l + 1)]
      <4>0. j > l + 1
        BY <2>5, <3>0, <3>3
      <4>1. j - (l + 1) \in 1 .. Len(b) /\ w[j] = b[j - (l + 1)]
        BY <2>0, <4>0
      <4>2. i - (l + 1) < j - (l + 1)
        BY <2>5, <3>0
      <4> DEFINE m == i - (l + 1)
                 n == j - (l + 1)
      <4>3. m \in DOMAIN b /\ n \in DOMAIN b /\ m < n /\ w[i] = b[m] /\ w[j] = b[n]
        BY <1>9, <3>3, <4>1, <4>2
      <4> HIDE DEF m, n
      <4> QED
        BY <1>8, <4>3 DEF Ordered
    <3> QED
      BY <2>1, <3>1, <3>2, <3>3
  <2> QED
    BY <2>5 DEF Ordered
<1> QED
  BY <1>9, <1>10, <1>11, <1>12 DEF w

-----------------------------------------------------------------------------
(* Types of the read model                                                 *)

EventOK(e) ==
  /\ e \in Events
  /\ e.type = "session-set" => e.status \in Statuses
  /\ e.type \in {"message-delta", "message-complete"} => e.turn \in Turns
  /\ e.type = "turn-diff-completed" =>
       e.turn \in Turns /\ e.count # 0 /\ e.status \in CheckpointStatuses

ThreadOK(x) ==
  /\ x \in [status : Statuses, turn : Turns \cup {NoTurn}, latest : Latests \cup {NoLatest},
            checkpoints : Seq(Checkpoints)]
  /\ Ordered(x.checkpoints)

\* The latest turn is one that a session ran or a checkpoint was captured of.
LEMMA LatestTyped ==
  /\ \A c \in Checkpoints : LatestOfCheckpoint(c) \in Latests
  /\ \A e : \A l \in Latests \cup {NoLatest} :
       EventOK(e) /\ e.type = "session-set" => ReconciledLatest(l, e) \in Latests \cup {NoLatest}
<1>1. ASSUME NEW c \in Checkpoints
      PROVE  LatestOfCheckpoint(c) \in Latests
  BY DEF LatestOfCheckpoint, Latests, Checkpoints, TurnStates, CheckpointStatuses
<1>2. ASSUME NEW l \in Latests \cup {NoLatest}, NEW e, EventOK(e), e.type = "session-set"
      PROVE  ReconciledLatest(l, e) \in Latests \cup {NoLatest}
  <2> DEFINE y == ReconciledLatest(l, e)
  <2>1. CASE e.status = "running" /\ e.turn # NoTurn
    <3>1. e.turn \in Turns
      BY <1>2, <2>1 DEF EventOK, Events
    <3>2. y = [turn |-> e.turn, state |-> "running", done |-> FALSE]
      BY <2>1 DEF ReconciledLatest
    <3> QED
      BY <3>1, <3>2 DEF Latests, TurnStates
  <2>2. CASE ~(e.status = "running" /\ e.turn # NoTurn) /\ Settles(l, e)
    <3>1. l \in Latests
      BY <2>2 DEF Settles, NoLatest
    <3> DEFINE state == IF l.state = "error" THEN l.state ELSE SettledTurnState(e.status)
    <3>2. state \in TurnStates
      BY <2>2 DEF Settles, SettledStatuses, SettledTurnState, TurnStates
    <3>3. y = [l EXCEPT !.state = state, !.done = TRUE]
      BY <2>2 DEF ReconciledLatest
    <3> HIDE DEF y, state
    <3>4. y \in Latests
      BY <3>1, <3>2, <3>3 DEF Latests
    <3> QED
      BY <3>4 DEF y
  <2>3. CASE ~(e.status = "running" /\ e.turn # NoTurn) /\ ~Settles(l, e)
    BY <2>3 DEF ReconciledLatest
  <2> QED
    BY <2>1, <2>2, <2>3
<1> QED
  BY <1>1, <1>2

\* A well-formed event leaves the thread well-formed, and its checkpoints in order.
LEMMA ThreadTyped ==
  ASSUME NEW x, ThreadOK(x), NEW e, EventOK(e)
  PROVE  ThreadOK(ProjectThread(x, e))
<1> DEFINE y == ProjectThread(x, e)
           X == [status : Statuses, turn : Turns \cup {NoTurn}, latest : Latests \cup {NoLatest},
                 checkpoints : Seq(Checkpoints)]
<1>0. x \in X /\ Ordered(x.checkpoints)
  BY DEF ThreadOK
<1>1. CASE e.type = "session-set"
  <2> DEFINE turn == NormalizedTurn(e.status, e.turn)
             latest == ReconciledLatest(x.latest, e)
  <2>1. y = [x EXCEPT !.status = e.status, !.turn = turn, !.latest = latest]
    BY <1>1 DEF ProjectThread
  <2>2. turn \in Turns \cup {NoTurn} /\ e.status \in Statuses
    BY <1>1 DEF EventOK, Events, NormalizedTurn
  <2>3. x.latest \in Latests \cup {NoLatest}
    BY <1>0
  <2>4. latest \in Latests \cup {NoLatest}
    BY <1>1, <2>3, LatestTyped
  <2> HIDE DEF y, turn, latest
  <2>5. y \in X /\ y.checkpoints = x.checkpoints
    BY <1>0, <2>1, <2>2, <2>4
  <2> QED
    BY <1>0, <2>5 DEF ThreadOK, y
<1>2. CASE e.type = "turn-diff-completed" /\ ~Clobbers(x, e)
  <2> DEFINE c == [turn |-> e.turn, count |-> e.count, status |-> e.status]
             checks == WithCheckpoint(x.checkpoints, c)
             latest == LatestOfCheckpoint(c)
  <2>1. y = [x EXCEPT !.checkpoints = checks, !.latest = latest]
    BY <1>2 DEF ProjectThread
  <2>2. c \in Checkpoints
    BY <1>2 DEF EventOK, Events, Checkpoints
  <2> HIDE DEF c
  <2>3. latest \in Latests
    BY <2>2, LatestTyped
  <2>4. x.checkpoints \in Seq(Checkpoints)
    BY <1>0
  <2>5. checks \in Seq(Checkpoints) /\ Ordered(checks)
    BY <1>0, <2>2, <2>4, WithCheckpointFacts
  <2> HIDE DEF y, checks, latest
  <2>6. y \in X /\ y.checkpoints = checks
    BY <1>0, <2>1, <2>3, <2>5
  <2> QED
    BY <2>5, <2>6 DEF ThreadOK, y
<1>3. CASE e.type = "reverted"
  <2> DEFINE early == {c \in ToSet(x.checkpoints) : c.count <= e.count}
             kept == Filter(x.checkpoints, early)
             latest == IF kept = << >> THEN NoLatest ELSE LatestOfCheckpoint(Last(kept))
             status == IF x.status = "running" THEN "ready" ELSE x.status
  <2>1. y = [status |-> status, turn |-> NoTurn, latest |-> latest, checkpoints |-> kept]
    BY <1>3 DEF ProjectThread
  <2> HIDE DEF early
  <2>2. x.checkpoints \in Seq(Checkpoints)
    BY <1>0
  <2>3. kept \in Seq(Checkpoints)
    BY <2>2, FilterFacts
  <2>4. Ordered(kept)
    BY <1>0, <2>2, FilterOrdered
  <2> HIDE DEF kept
  <2>5. latest \in Latests \cup {NoLatest}
    <3>1. CASE kept # << >>
      <4>1. Len(kept) \in DOMAIN kept
        BY <2>3, <3>1, EmptySeq
      <4>2. Last(kept) \in Checkpoints
        BY <2>3, <4>1 DEF Last
      <4> QED
        BY <3>1, <4>2, LatestTyped
    <3> QED
      BY <3>1
  <2>6. status \in Statuses
    BY <1>0 DEF Statuses, SettledStatuses
  <2> HIDE DEF y, latest, status
  <2>7. y \in X /\ y.checkpoints = kept
    BY <2>1, <2>3, <2>5, <2>6
  <2> QED
    BY <2>4, <2>7 DEF ThreadOK, y
<1>4. CASE \/ e.type \notin {"session-set", "turn-diff-completed", "reverted"}
           \/ e.type = "turn-diff-completed" /\ Clobbers(x, e)
  <2>1. y = x
    BY <1>4 DEF ProjectThread
  <2> QED
    BY <2>1
<1> QED
  BY <1>1, <1>2, <1>3, <1>4

\* A captured checkpoint is only undone by a revert: a placeholder for its turn is
\* ignored, and another turn's does not touch it.
LEMMA RealStays ==
  ASSUME NEW x, ThreadOK(x), NEW e, EventOK(e), e.type # "reverted",
         NEW t, HasRealCheckpoint(x, t)
  PROVE  HasRealCheckpoint(ProjectThread(x, e), t)
<1> DEFINE y == ProjectThread(x, e)
<1>0. x.checkpoints \in Seq(Checkpoints) /\ Ordered(x.checkpoints)
  BY DEF ThreadOK
<1>1. CASE e.type = "session-set"
  <2>1. y.checkpoints = x.checkpoints
    BY <1>1 DEF ProjectThread, ThreadOK
  <2> HIDE DEF y
  <2>2. HasRealCheckpoint(y, t)
    BY <2>1 DEF HasRealCheckpoint
  <2> QED
    BY <2>2 DEF y
<1>2. CASE e.type = "turn-diff-completed" /\ ~Clobbers(x, e)
  <2> DEFINE c == [turn |-> e.turn, count |-> e.count, status |-> e.status]
             checks == WithCheckpoint(x.checkpoints, c)
             s == x.checkpoints
  <2>1. y.checkpoints = checks
    BY <1>2 DEF ProjectThread, ThreadOK
  <2>2. c \in Checkpoints /\ c.turn = e.turn /\ c.status = e.status
    BY <1>2 DEF EventOK, Events, Checkpoints
  <2> HIDE DEF c
  <2>3. /\ \E i \in DOMAIN checks : checks[i] = c
        /\ \A k \in DOMAIN s : s[k].turn # c.turn => \E i \in DOMAIN checks : checks[i] = s[k]
    BY <1>0, <2>2, WithCheckpointFacts
  <2> HIDE DEF y, checks
  <2>4. PICK k \in DOMAIN s : s[k].turn = t /\ s[k].status # "missing"
    BY DEF HasRealCheckpoint
  <2>5. CASE t # e.turn
    <3>1. PICK i \in DOMAIN checks : checks[i] = s[k]
      BY <2>2, <2>3, <2>4, <2>5
    <3>2. HasRealCheckpoint(y, t)
      BY <2>1, <2>4, <3>1 DEF HasRealCheckpoint
    <3> QED
      BY <3>2 DEF y
  <2>6. CASE t = e.turn
    <3>1. PICK i \in DOMAIN checks : checks[i] = c
      BY <2>3
    <3>2. e.status # "missing"
      BY <1>2, <2>6 DEF Clobbers
    <3>3. HasRealCheckpoint(y, t)
      BY <2>1, <2>2, <2>6, <3>1, <3>2 DEF HasRealCheckpoint
    <3> QED
      BY <3>3 DEF y
  <2> QED
    BY <2>5, <2>6
<1>3. CASE \/ e.type \notin {"session-set", "turn-diff-completed", "reverted"}
           \/ e.type = "turn-diff-completed" /\ Clobbers(x, e)
  <2>1. y = x
    BY <1>3 DEF ProjectThread
  <2> QED
    BY <2>1
<1> QED
  BY <1>1, <1>2, <1>3

-----------------------------------------------------------------------------
(* Types of the tables                                                     *)

Rows ==
  [state : TurnStates \cup {"none"}, done : BOOLEAN, count : Nat,
   checkpoint : CheckpointStatuses \cup {"none"}]

\* A row that can be written: it is there, and with a count it has a checkpoint.
RowOK(row) ==
  /\ row \in Rows /\ row.state # "none"
  /\ row.count # 0 => row.checkpoint \in CheckpointStatuses

Has(s, u) == \E i \in DOMAIN s : s[i] = u

TablesOK(x) ==
  /\ x \in [status : Statuses, turn : Turns \cup {NoTurn}, order : Seq(Turns), pending : Nat,
            row : [Turns -> Rows]]
  /\ IsInjective(x.order)
  /\ x.pending <= Len(x.order) + 1
  /\ \A t \in Turns : HasRow(x, t) <=> Has(x.order, t)
  /\ \A t \in Turns : x.row[t].count # 0 => RowOK(x.row[t])

\* A turn is inserted among others: those before it stay, those after it move on.
LEMMA InsertAtFacts ==
  ASSUME NEW T, NEW s \in Seq(T), NEW t \in T, NEW at \in 1 .. Len(s) + 1,
         NEW w, w = InsertAt(s, at, t)
  PROVE  /\ w \in Seq(T) /\ Len(w) = Len(s) + 1 /\ at \in DOMAIN w /\ w[at] = t
         /\ \A i \in 1 .. at - 1 : i \in DOMAIN s /\ i \in DOMAIN w /\ w[i] = s[i]
         /\ \A i \in at + 1 .. Len(s) + 1 : i - 1 \in DOMAIN s /\ i \in DOMAIN w /\ w[i] = s[i - 1]
         /\ \A i \in DOMAIN w : i \in 1 .. at - 1 \/ i = at \/ i \in at + 1 .. Len(s) + 1
         /\ \A i \in DOMAIN s : i \in 1 .. at - 1 \/ i + 1 \in at + 1 .. Len(s) + 1
<1> DEFINE a == SubSeq(s, 1, at - 1)
           b == SubSeq(s, at, Len(s))
           l == Len(s)
<1>1. w = a \o <<t>> \o b
  BY DEF InsertAt
<1>2. /\ a \in Seq(T) /\ Len(a) = at - 1 /\ \A i \in 1 .. at - 1 : a[i] = s[i]
      /\ b \in Seq(T) /\ Len(b) = l - at + 1
      /\ \A i \in 1 .. l - at + 1 : b[i] = s[at + i - 1]
      /\ l \in Nat /\ DOMAIN s = 1 .. l
  OBVIOUS
<1> HIDE DEF a, b
<1>3. /\ w \in Seq(T) /\ Len(a) \in Nat /\ Len(b) \in Nat
      /\ DOMAIN w = 1 .. Len(a) + 1 + Len(b)
      /\ \A i \in 1 .. Len(a) : w[i] = a[i]
      /\ w[Len(a) + 1] = t
      /\ \A i \in 1 .. Len(b) : w[Len(a) + 1 + i] = b[i]
  BY <1>1, <1>2, BetweenFacts
<1>4. Len(a) + 1 = at /\ Len(a) + 1 + Len(b) = l + 1
  BY <1>2
<1>5. DOMAIN w = 1 .. l + 1 /\ Len(w) = l + 1 /\ w[at] = t
  BY <1>2, <1>3, <1>4
<1>6. \A i \in 1 .. at - 1 : i \in DOMAIN s /\ i \in DOMAIN w /\ w[i] = s[i]
  BY <1>2, <1>3, <1>5
<1>7. ASSUME NEW i \in at + 1 .. l + 1
      PROVE  i - 1 \in DOMAIN s /\ i \in DOMAIN w /\ w[i] = s[i - 1]
  <2>1. i - at \in 1 .. l - at + 1 /\ at + (i - at) = i /\ at + (i - at) - 1 = i - 1
    BY <1>2
  <2>2. w[at + (i - at)] = b[i - at] /\ b[i - at] = s[at + (i - at) - 1]
    BY <1>2, <1>3, <1>4, <2>1
  <2> QED
    BY <1>2, <1>5, <2>1, <2>2
<1>8. /\ \A i \in DOMAIN w : i \in 1 .. at - 1 \/ i = at \/ i \in at + 1 .. l + 1
      /\ \A i \in DOMAIN s : i \in 1 .. at - 1 \/ i + 1 \in at + 1 .. l + 1
      /\ at \in DOMAIN w
  BY <1>2, <1>5
<1> QED
  BY <1>3, <1>5, <1>6, <1>7, <1>8

\* Then the sequence holds what it held, and the turn.
LEMMA InsertAtHas ==
  ASSUME NEW T, NEW s \in Seq(T), NEW t \in T, NEW at \in 1 .. Len(s) + 1,
         NEW w, w = InsertAt(s, at, t), NEW u
  PROVE  Has(w, u) <=> (u = t \/ Has(s, u))
<1> DEFINE l == Len(s)
<1>1. /\ at \in DOMAIN w /\ w[at] = t
      /\ \A i \in 1 .. at - 1 : i \in DOMAIN s /\ i \in DOMAIN w /\ w[i] = s[i]
      /\ \A i \in at + 1 .. l + 1 : i - 1 \in DOMAIN s /\ i \in DOMAIN w /\ w[i] = s[i - 1]
      /\ \A i \in DOMAIN w : i \in 1 .. at - 1 \/ i = at \/ i \in at + 1 .. l + 1
      /\ \A i \in DOMAIN s : i \in 1 .. at - 1 \/ i + 1 \in at + 1 .. l + 1
  BY InsertAtFacts
<1>2. \A i \in DOMAIN s : i \in Int
  OBVIOUS
<1> HIDE DEF l
<1>3. ASSUME NEW i \in DOMAIN w, w[i] = u
      PROVE  u = t \/ \E j \in DOMAIN s : s[j] = u
  BY <1>1, <1>3
<1>4. ASSUME NEW i \in DOMAIN s, s[i] = u
      PROVE  \E j \in DOMAIN w : w[j] = u
  <2>1. CASE i \in 1 .. at - 1
    BY <1>1, <1>4, <2>1
  <2>2. CASE i + 1 \in at + 1 .. l + 1
    <3>1. i + 1 - 1 = i
      BY <1>2
    <3>2. i + 1 \in DOMAIN w /\ w[i + 1] = s[i + 1 - 1]
      BY <1>1, <2>2
    <3> QED
      BY <1>4, <3>1, <3>2
  <2> QED
    BY <1>1, <2>1, <2>2
<1> QED
  BY <1>1, <1>3, <1>4 DEF Has

\* A new turn among others is still one of a kind.
LEMMA InsertAtInjective ==
  ASSUME NEW T, NEW s \in Seq(T), NEW t \in T, NEW at \in 1 .. Len(s) + 1,
         NEW w, w = InsertAt(s, at, t), IsInjective(s), ~Has(s, t)
  PROVE  IsInjective(w)
<1> DEFINE l == Len(s)
<1>1. /\ w \in Seq(T) /\ at \in DOMAIN w /\ w[at] = t
      /\ \A i \in 1 .. at - 1 : i \in DOMAIN s /\ w[i] = s[i]
      /\ \A i \in at + 1 .. l + 1 : i - 1 \in DOMAIN s /\ w[i] = s[i - 1]
      /\ \A i \in DOMAIN w : i \in 1 .. at - 1 \/ i = at \/ i \in at + 1 .. l + 1
  BY InsertAtFacts
<1>2. \A i, j \in DOMAIN s : s[i] = s[j] => i = j
  BY DEF IsInjective
<1>3. l \in Nat
  OBVIOUS
<1> HIDE DEF l
<1>4. ASSUME NEW i \in DOMAIN w, NEW j \in DOMAIN w, w[i] = w[j]
      PROVE  i = j
  <2>1. i \in Int /\ j \in Int /\ at \in Int
    BY <1>1
  <2>2. CASE i = at \/ j = at
    BY <1>1, <1>4, <2>2 DEF Has
  <2>3. CASE i \in 1 .. at - 1 /\ j \in 1 .. at - 1
    BY <1>1, <1>2, <1>4, <2>3
  <2>4. CASE i \in 1 .. at - 1 /\ j \in at + 1 .. l + 1
    <3>1. i = j - 1
      BY <1>1, <1>2, <1>4, <2>4
    <3> QED
      BY <2>1, <2>4, <3>1
  <2>5. CASE i \in at + 1 .. l + 1 /\ j \in 1 .. at - 1
    <3>1. j = i - 1
      BY <1>1, <1>2, <1>4, <2>5
    <3> QED
      BY <2>1, <2>5, <3>1
  <2>6. CASE i \in at + 1 .. l + 1 /\ j \in at + 1 .. l + 1
    <3>1. j - 1 = i - 1
      BY <1>1, <1>2, <1>4, <2>6
    <3> QED
      BY <2>1, <3>1
  <2> QED
    BY <1>1, <2>2, <2>3, <2>4, <2>5, <2>6
<1> QED
  BY <1>4 DEF IsInjective

\* A turn's row is written, and a new one takes its place in the order.
LEMMA UpsertedTyped ==
  ASSUME NEW x, TablesOK(x), NEW t \in Turns, NEW row, RowOK(row),
         NEW at \in 1 .. Len(x.order) + 1
  PROVE  TablesOK(Upserted(x, t, row, at))
<1> DEFINE X == [status : Statuses, turn : Turns \cup {NoTurn}, order : Seq(Turns),
                 pending : Nat, row : [Turns -> Rows]]
           order == IF HasRow(x, t) THEN x.order ELSE InsertAt(x.order, at, t)
           rows == [x.row EXCEPT ![t] = row]
           y == Upserted(x, t, row, at)
<1>0. /\ x \in X /\ IsInjective(x.order) /\ x.pending <= Len(x.order) + 1
      /\ \A u \in Turns : HasRow(x, u) <=> Has(x.order, u)
      /\ \A u \in Turns : x.row[u].count # 0 => RowOK(x.row[u])
  BY DEF TablesOK
<1>1. /\ x.order \in Seq(Turns) /\ x.row \in [Turns -> Rows] /\ x.pending \in Nat
      /\ Len(x.order) \in Nat
  BY <1>0
<1>2. y = [x EXCEPT !.row = rows, !.order = order]
  BY <1>0 DEF Upserted
<1>3. /\ rows \in [Turns -> Rows] /\ rows[t] = row
      /\ \A u \in Turns : u # t => rows[u] = x.row[u]
  BY <1>1 DEF RowOK
<1>4. /\ order \in Seq(Turns) /\ IsInjective(order)
      /\ Len(order) >= Len(x.order) /\ Len(order) \in Nat
      /\ \A u \in Turns : Has(order, u) <=> (u = t \/ Has(x.order, u))
  <2>1. CASE HasRow(x, t)
    <3>1. order = x.order /\ Has(x.order, t)
      BY <1>0, <2>1
    <3> HIDE DEF order
    <3> QED
      BY <1>0, <1>1, <3>1
  <2>2. CASE ~HasRow(x, t)
    <3>1. order = InsertAt(x.order, at, t) /\ ~Has(x.order, t)
      BY <1>0, <2>2
    <3>2. /\ order \in Seq(Turns) /\ Len(order) = Len(x.order) + 1
          /\ IsInjective(order)
      BY <1>0, <1>1, <3>1, InsertAtFacts, InsertAtInjective
    <3> HIDE DEF order
    <3>3. ASSUME NEW u \in Turns
          PROVE  Has(order, u) <=> (u = t \/ Has(x.order, u))
      BY <1>1, <3>1, InsertAtHas
    <3> QED
      BY <1>1, <3>2, <3>3
  <2> QED
    BY <2>1, <2>2
<1> HIDE DEF rows, order, y
<1>5. /\ y \in X /\ y.order = order /\ y.row = rows /\ y.pending = x.pending
  BY <1>0, <1>2, <1>3, <1>4
<1>6. y.pending <= Len(y.order) + 1
  BY <1>0, <1>1, <1>4, <1>5
<1>7. ASSUME NEW u \in Turns
      PROVE  /\ HasRow(y, u) <=> Has(y.order, u)
             /\ y.row[u].count # 0 => RowOK(y.row[u])
  <2>1. CASE u = t
    BY <1>3, <1>4, <1>5, <2>1 DEF HasRow, RowOK
  <2>2. CASE u # t
    <3>1. y.row[u] = x.row[u] /\ (Has(y.order, u) <=> Has(x.order, u))
      BY <1>3, <1>4, <1>5, <2>2
    <3> QED
      BY <1>0, <3>1 DEF HasRow
  <2> QED
    BY <2>1, <2>2
<1> QED
  BY <1>4, <1>5, <1>6, <1>7 DEF TablesOK, y

\* A checkpoint is taken from a row.
LEMMA RowCleared ==
  ASSUME NEW old \in Rows
  PROVE  LET new == [old EXCEPT !.count = 0, !.checkpoint = "none"]
         IN new \in Rows /\ new.count = 0 /\ new.state = old.state
BY DEF Rows

\* The rows of other turns lose a checkpoint at most.
LEMMA WithoutConflictTyped ==
  ASSUME NEW x, TablesOK(x), NEW t, NEW n
  PROVE  LET y == [x EXCEPT !.row = WithoutConflict(@, t, n)]
         IN TablesOK(y) /\ y.order = x.order
<1> DEFINE X == [status : Statuses, turn : Turns \cup {NoTurn}, order : Seq(Turns),
                 pending : Nat, row : [Turns -> Rows]]
           rows == WithoutConflict(x.row, t, n)
           y == [x EXCEPT !.row = rows]
<1>1. x \in X /\ x.row \in [Turns -> Rows]
  BY DEF TablesOK
<1>2. ASSUME NEW u \in Turns
      PROVE  /\ rows[u] \in Rows /\ rows[u].state = x.row[u].state
             /\ rows[u].count # 0 => rows[u] = x.row[u]
  <2>1. x.row[u] \in Rows
    BY <1>1
  <2>2. rows[u] = IF u # t /\ x.row[u].count = n
                  THEN [x.row[u] EXCEPT !.count = 0, !.checkpoint = "none"]
                  ELSE x.row[u]
    BY DEF WithoutConflict
  <2>3. CASE u # t /\ x.row[u].count = n
    <3>1. rows[u] = [x.row[u] EXCEPT !.count = 0, !.checkpoint = "none"]
      BY <2>2, <2>3
    <3> HIDE DEF rows
    <3> QED
      BY <2>1, <3>1, RowCleared
  <2>4. CASE ~(u # t /\ x.row[u].count = n)
    <3>1. rows[u] = x.row[u]
      BY <2>2, <2>4
    <3> HIDE DEF rows
    <3> QED
      BY <2>1, <3>1
  <2> QED
    BY <2>3, <2>4
<1>3. rows = [u \in Turns |-> rows[u]]
  BY DEF WithoutConflict
<1> HIDE DEF rows
<1>4. rows \in [Turns -> Rows]
  BY <1>2, <1>3
<1>5. y \in X /\ y.order = x.order /\ y.pending = x.pending /\ y.row = rows
  BY <1>1, <1>4
<1> HIDE DEF y
<1>6. /\ IsInjective(x.order) /\ x.pending <= Len(x.order) + 1
      /\ \A u \in Turns : x.row[u].state # "none" <=> Has(x.order, u)
      /\ \A u \in Turns : x.row[u].count # 0 => RowOK(x.row[u])
  BY DEF TablesOK, HasRow
<1>7. \A u \in Turns : y.row[u].state # "none" <=> Has(y.order, u)
  BY <1>2, <1>5, <1>6
<1>8. \A u \in Turns : y.row[u].count # 0 => RowOK(y.row[u])
  BY <1>2, <1>5, <1>6
<1>9. TablesOK(y)
  BY <1>5, <1>6, <1>7, <1>8 DEF TablesOK, HasRow
<1> QED
  BY <1>5, <1>9 DEF y, rows

\* A revert keeps the turns up to a count, with their rows, in their order.
LEMMA RevertTyped ==
  ASSUME NEW x, TablesOK(x), NEW e
  PROVE  TablesOK(RevertTurns(x, e))
<1> DEFINE kept == {t \in Turns : x.row[t].count \in 1 .. e.count}
           order == Filter(x.order, kept)
           rows == [t \in Turns |-> IF t \in kept THEN x.row[t] ELSE NoRow]
           status == IF x.status = "running" THEN "ready" ELSE x.status
           y == RevertTurns(x, e)
<1>1. y = [status |-> status, turn |-> NoTurn, order |-> order, pending |-> 0, row |-> rows]
  BY DEF RevertTurns
<1>2. /\ x.status \in Statuses /\ x.order \in Seq(Turns) /\ x.row \in [Turns -> Rows]
      /\ IsInjective(x.order)
      /\ \A t \in Turns : HasRow(x, t) <=> Has(x.order, t)
      /\ \A t \in Turns : x.row[t].count # 0 => RowOK(x.row[t])
  BY DEF TablesOK
<1>3. status \in Statuses
  BY <1>2 DEF Statuses, SettledStatuses
<1>4. \A t \in kept : t \in Turns /\ x.row[t].count # 0
  OBVIOUS
<1>5. NoRow \in Rows /\ NoRow.count = 0 /\ NoRow.state = "none"
  BY DEF NoRow, Rows
<1>6. /\ rows \in [Turns -> Rows]
      /\ \A t \in kept : rows[t] = x.row[t]
      /\ \A t \in Turns \ kept : rows[t] = NoRow
  BY <1>2, <1>5
<1> HIDE DEF kept, rows
<1>7. order \in Seq(Turns) /\ IsInjective(order)
  <2>1. /\ order \in Seq(Turns)
        /\ \A i, j \in DOMAIN order :
             i < j => \E k, l \in DOMAIN x.order :
                        k < l /\ order[i] = x.order[k] /\ order[j] = x.order[l]
    <3> DEFINE s == x.order
    <3>1. s \in Seq(Turns) /\ order = Filter(s, kept)
      BY <1>2
    <3> HIDE DEF s, order
    <3>2. order \in Seq(Turns)
      BY <3>1, FilterFacts
    <3>3. \A i, j \in DOMAIN order :
             i < j => \E k, l \in DOMAIN s : k < l /\ order[i] = s[k] /\ order[j] = s[l]
      BY <3>1, FilterFacts
    <3> QED
      BY <3>2, <3>3 DEF s
  <2> HIDE DEF order
  <2>2. \A k, l \in DOMAIN x.order : x.order[k] = x.order[l] => k = l
    BY <1>2 DEF IsInjective
  <2>3. DOMAIN order \subseteq Int /\ DOMAIN x.order \subseteq Int
    BY <1>2, <2>1
  <2>4. ASSUME NEW i \in DOMAIN order, NEW j \in DOMAIN order, i < j
        PROVE  order[i] # order[j]
    <3>1. PICK k, l \in DOMAIN x.order :
            k < l /\ order[i] = x.order[k] /\ order[j] = x.order[l]
      BY <2>1, <2>4
    <3>2. k # l
      BY <2>3, <3>1
    <3> QED
      BY <2>2, <3>1, <3>2
  <2>5. ASSUME NEW i \in DOMAIN order, NEW j \in DOMAIN order, order[i] = order[j]
        PROVE  i = j
    <3>1. i \in Int /\ j \in Int
      BY <2>3
    <3>2. ~(i < j) /\ ~(j < i)
      BY <2>4, <2>5
    <3> QED
      BY <3>1, <3>2
  <2> QED
    BY <2>1, <2>5 DEF IsInjective
<1>8. ASSUME NEW t \in Turns
      PROVE  Has(order, t) <=> t \in kept
  <2>1. ASSUME NEW i \in DOMAIN order, order[i] = t
        PROVE  t \in kept
    BY <1>2, <2>1, FilterFacts
  <2>2. ASSUME t \in kept
        PROVE  Has(order, t)
    <3>1. Has(x.order, t)
      BY <1>2, <1>4, <2>2 DEF RowOK, HasRow
    <3>2. PICK k \in DOMAIN x.order : x.order[k] = t
      BY <3>1 DEF Has
    <3>3. \E i \in DOMAIN order : order[i] = x.order[k]
      BY <1>2, <2>2, <3>2, FilterKeeps
    <3> QED
      BY <3>2, <3>3 DEF Has
  <2> QED
    BY <2>1, <2>2 DEF Has
<1> HIDE DEF y, status, order
<1>9. y.status = status /\ y.turn = NoTurn /\ y.order = order /\ y.pending = 0 /\ y.row = rows
  BY <1>1
<1>10. /\ y \in [status : Statuses, turn : Turns \cup {NoTurn}, order : Seq(Turns),
                 pending : Nat, row : [Turns -> Rows]]
       /\ y.pending <= Len(y.order) + 1
  BY <1>1, <1>3, <1>6, <1>7, <1>9
<1>11. ASSUME NEW t \in Turns
       PROVE  /\ y.row[t].state # "none" <=> Has(y.order, t)
              /\ y.row[t].count # 0 => RowOK(y.row[t])
  <2>1. CASE t \in kept
    <3>1. y.row[t] = x.row[t] /\ x.row[t].count # 0 /\ RowOK(x.row[t])
      BY <1>2, <1>4, <1>6, <1>9, <2>1
    <3> QED
      BY <1>8, <1>9, <2>1, <3>1 DEF RowOK
  <2>2. CASE t \notin kept
    BY <1>5, <1>6, <1>8, <1>9, <2>2
  <2> QED
    BY <2>1, <2>2
<1>12. TablesOK(y)
  BY <1>7, <1>9, <1>10, <1>11 DEF TablesOK, HasRow
<1> QED
  BY <1>12 DEF y

\* A well-formed event leaves the tables well-formed.
LEMMA TablesTyped ==
  ASSUME NEW x, TablesOK(x), NEW e, EventOK(e)
  PROVE  TablesOK(ProjectTables(x, e))
<1> DEFINE y == ProjectTables(x, e)
           now == Now(x)
<1>1. /\ e \in Events /\ x.pending \in Nat /\ x.pending <= Len(x.order) + 1
      /\ x.order \in Seq(Turns) /\ x.row \in [Turns -> Rows]
  BY DEF EventOK, TablesOK
<1>2. now \in 1 .. Len(x.order) + 1 /\ now = Len(x.order) + 1
  BY <1>1 DEF Now
<1>3. \A t \in Turns : x.row[t] \in Rows /\ (x.row[t].count # 0 => RowOK(x.row[t]))
  BY <1>1 DEF TablesOK
<1> HIDE DEF now
<1>4. CASE e.type = "turn-start-requested"
  <2>1. y = [x EXCEPT !.pending = now]
    BY <1>4 DEF ProjectTables, now
  <2> HIDE DEF y
  <2>2. y.pending = now /\ y.order = x.order /\ y.row = x.row
    BY <2>1 DEF TablesOK
  <2>3. TablesOK(y)
    BY <1>1, <1>2, <2>1, <2>2 DEF TablesOK, HasRow
  <2> QED
    BY <2>3 DEF y
<1>5. CASE e.type = "session-set"
  <2> DEFINE z == SessionSetTurns(x, e)
  <2>1. y = [z EXCEPT !.status = e.status, !.turn = e.turn]
    BY <1>5 DEF ProjectTables
  <2>2. e.status \in Statuses /\ e.turn \in Turns \cup {NoTurn}
    BY <1>1, <1>5 DEF EventOK, Events
  <2>3. TablesOK(z)
    <3>1. CASE e.turn = NoTurn \/ e.status # "running"
      BY <3>1 DEF SessionSetTurns
    <3>2. CASE ~(e.turn = NoTurn \/ e.status # "running")
      <4> DEFINE old == x.row[e.turn]
                 state == IF old.state \in {"completed", "error"} THEN old.state ELSE "running"
                 at == IF x.pending # 0 THEN x.pending ELSE now
                 row == [old EXCEPT !.state = state]
                 u == Upserted(x, e.turn, row, at)
      <4>1. z = [u EXCEPT !.pending = 0]
        BY <3>2 DEF SessionSetTurns, now
      <4>2. e.turn \in Turns
        BY <2>2, <3>2
      <4>3. RowOK(row)
        BY <1>3, <4>2 DEF RowOK, Rows, TurnStates
      <4>4. at \in 1 .. Len(x.order) + 1
        BY <1>1, <1>2
      <4> HIDE DEF row, at
      <4>5. TablesOK(u)
        BY <4>2, <4>3, <4>4, UpsertedTyped
      <4> HIDE DEF u, z
      <4> DEFINE X == [status : Statuses, turn : Turns \cup {NoTurn}, order : Seq(Turns),
                       pending : Nat, row : [Turns -> Rows]]
      <4>6. u \in X /\ u.order \in Seq(Turns)
        BY <4>5 DEF TablesOK
      <4>7. z.order = u.order /\ z.row = u.row /\ z.pending = 0 /\ Len(u.order) \in Nat /\ z \in X
        BY <4>1, <4>6
      <4>8. IsInjective(u.order) /\ \A t \in Turns : HasRow(u, t) <=> Has(u.order, t)
        BY <4>5 DEF TablesOK
      <4>9. \A t \in Turns : u.row[t].count # 0 => RowOK(u.row[t])
        BY <4>5 DEF TablesOK
      <4>10. \A t \in Turns : HasRow(z, t) <=> Has(z.order, t)
        BY <4>7, <4>8 DEF HasRow
      <4> QED
        BY <4>7, <4>8, <4>9, <4>10 DEF TablesOK
    <3> QED
      BY <3>1, <3>2
  <2> HIDE DEF y, z
  <2>4. y.order = z.order /\ y.row = z.row /\ y.pending = z.pending
    BY <2>1, <2>3 DEF TablesOK
  <2>5. TablesOK(y)
    BY <2>1, <2>2, <2>3, <2>4 DEF TablesOK, HasRow
  <2> QED
    BY <2>5 DEF y
<1>6. CASE e.type \in {"message-delta", "message-complete"}
  <2> DEFINE old == x.row[e.turn]
             row == IF e.type = "message-delta"
                    THEN [old EXCEPT !.state = IF HasRow(x, e.turn) THEN @ ELSE "running"]
                    ELSE [old EXCEPT !.state = IF @ \in {"interrupted", "error"} THEN @ ELSE "completed",
                                     !.done = TRUE]
  <2>1. y = Upserted(x, e.turn, row, now)
    BY <1>6 DEF ProjectTables, MessageTurns, now
  <2>2. e.turn \in Turns
    BY <1>6 DEF EventOK
  <2>3. old \in Rows /\ (old.count # 0 => old.checkpoint \in CheckpointStatuses)
    BY <1>3, <2>2 DEF RowOK
  <2>4. RowOK(row)
    <3>1. CASE e.type = "message-delta"
      <4> DEFINE state == IF old.state # "none" THEN old.state ELSE "running"
      <4>1. row = [old EXCEPT !.state = state]
        BY <2>3, <3>1 DEF HasRow, Rows
      <4>2. state \in TurnStates /\ state # "none"
        BY <2>3 DEF Rows, TurnStates
      <4> HIDE DEF row, old, state
      <4> QED
        BY <2>3, <4>1, <4>2 DEF RowOK, Rows
    <3>2. CASE e.type # "message-delta"
      <4> DEFINE state == IF old.state \in {"interrupted", "error"} THEN old.state ELSE "completed"
      <4>1. row = [old EXCEPT !.state = state, !.done = TRUE]
        BY <3>2
      <4>2. state \in TurnStates /\ state # "none"
        BY DEF TurnStates
      <4> HIDE DEF row, old, state
      <4> QED
        BY <2>3, <4>1, <4>2 DEF RowOK, Rows
    <3> QED
      BY <3>1, <3>2
  <2> HIDE DEF row
  <2> QED
    BY <1>2, <2>1, <2>2, <2>4, UpsertedTyped
<1>7. CASE e.type = "turn-interrupt-requested"
  <2> DEFINE row == [x.row[e.turn] EXCEPT !.state = "interrupted", !.done = TRUE]
  <2>1. CASE e.turn = NoTurn
    BY <1>7, <2>1 DEF ProjectTables, InterruptTurns
  <2>2. CASE e.turn # NoTurn
    <3>1. y = Upserted(x, e.turn, row, now)
      BY <1>7, <2>2 DEF ProjectTables, InterruptTurns, now
    <3>2. e.turn \in Turns
      BY <1>1, <2>2 DEF Events
    <3>3. RowOK(row)
      BY <1>3, <3>2 DEF RowOK, Rows, TurnStates
    <3> HIDE DEF row
    <3> QED
      BY <1>2, <3>1, <3>2, <3>3, UpsertedTyped
  <2> QED
    BY <2>1, <2>2
<1>8. CASE e.type = "turn-diff-completed"
  <2> DEFINE z == [x EXCEPT !.row = WithoutConflict(@, e.turn, e.count)]
             row == [state |-> IF e.status = "error" THEN "error" ELSE "completed", done |-> TRUE,
                     count |-> e.count, checkpoint |-> e.status]
  <2>1. y = Upserted(z, e.turn, row, now)
    BY <1>8 DEF ProjectTables, DiffTurns, now
  <2>2. e.turn \in Turns /\ e.count \in Nat /\ e.status \in CheckpointStatuses
    BY <1>1, <1>8 DEF EventOK, Events
  <2>3. RowOK(row)
    BY <2>2 DEF RowOK, Rows, TurnStates
  <2>4. TablesOK(z) /\ z.order = x.order
    BY WithoutConflictTyped
  <2> HIDE DEF row, z
  <2> QED
    BY <1>2, <2>1, <2>2, <2>3, <2>4, UpsertedTyped
<1>9. CASE e.type = "reverted"
  BY <1>9, RevertTyped DEF ProjectTables
<1>10. CASE e.type \notin {"turn-start-requested", "session-set", "message-delta",
                           "message-complete", "turn-interrupt-requested",
                           "turn-diff-completed", "reverted"}
  BY <1>10 DEF ProjectTables
<1> QED
  BY <1>4, <1>5, <1>6, <1>7, <1>8, <1>9, <1>10

-----------------------------------------------------------------------------
(* Types of a snapshot                                                     *)

\* Finitely many turns with counts of their own can be put in the order of these.
LEMMA Enumeration ==
  ASSUME NEW C \in [Turns -> Nat], NEW n \in Nat, NEW S, S \subseteq Turns,
         IsFiniteSet(S), Cardinality(S) = n, \A t, u \in S : t # u => C[t] # C[u]
  PROVE  \E s \in [1 .. n -> S] : \A i, j \in 1 .. n : i < j => C[s[i]] < C[s[j]]
<1> DEFINE Apart(A) == \A t, u \in A : t # u => C[t] # C[u]
           Rises(s, k) == \A i, j \in 1 .. k : i < j => C[s[i]] < C[s[j]]
           N == {k \in Nat : \A A \in SUBSET Turns :
                   IsFiniteSet(A) /\ Cardinality(A) = k /\ Apart(A)
                     => \E s \in [1 .. k -> A] : Rises(s, k)}
<1>1. 0 \in N
  <2> SUFFICES ASSUME NEW A \in SUBSET Turns
               PROVE  \E s \in [1 .. 0 -> A] : Rises(s, 0)
    OBVIOUS
  <2> DEFINE s == [i \in 1 .. 0 |-> i]
  <2>1. s \in [1 .. 0 -> A] /\ Rises(s, 0)
    OBVIOUS
  <2> QED
    BY <2>1
<1>2. ASSUME NEW k \in Nat, k \in N
      PROVE  k + 1 \in N
  <2> SUFFICES ASSUME NEW A \in SUBSET Turns, IsFiniteSet(A), Cardinality(A) = k + 1, Apart(A)
               PROVE  \E s \in [1 .. k + 1 -> A] : Rises(s, k + 1)
    OBVIOUS
  <2>1. A # {}
    BY FS_EmptySet
  <2>2. PICK t \in A : \A u \in A : C[t] <= C[u]
    <3> DEFINE D == {C[u] : u \in A}
    <3>1. D \subseteq Nat /\ D # {}
      BY <2>1
    <3> HIDE DEF D
    <3>2. PICK d \in D : \A m \in D : d <= m
      BY <3>1, Least
    <3> QED
      BY <3>2 DEF D
  <2> DEFINE B == A \ {t}
  <2>3. IsFiniteSet(B) /\ Cardinality(B) = k
    <3>1. IsFiniteSet(B) /\ Cardinality(B) = Cardinality(A) - 1
      BY FS_RemoveElement
    <3> HIDE DEF B
    <3> QED
      BY <3>1
  <2>4. B \in SUBSET Turns /\ Apart(B)
    OBVIOUS
  <2>5. PICK r \in [1 .. k -> B] : Rises(r, k)
    BY <1>2, <2>3, <2>4
  <2>6. \A u \in B : C[t] < C[u]
    <3>1. \A u \in A : C[u] \in Nat
      OBVIOUS
    <3> QED
      BY <2>2, <3>1
  <2> DEFINE s == [i \in 1 .. k + 1 |-> IF i = 1 THEN t ELSE r[i - 1]]
  <2>7. ASSUME NEW i \in 1 .. k + 1, i # 1
        PROVE  i - 1 \in 1 .. k /\ s[i] = r[i - 1] /\ s[i] \in B
    <3>1. i - 1 \in 1 .. k
      BY <2>7
    <3>2. s[i] = r[i - 1]
      BY <2>7
    <3> HIDE DEF s, B
    <3> QED
      BY <2>5, <3>1, <3>2
  <2>8. s[1] = t /\ s = [i \in 1 .. k + 1 |-> s[i]]
    OBVIOUS
  <2> HIDE DEF s, B
  <2>9. s \in [1 .. k + 1 -> A]
    BY <2>7, <2>8 DEF B
  <2>10. ASSUME NEW i \in 1 .. k + 1, NEW j \in 1 .. k + 1, i < j
         PROVE  C[s[i]] < C[s[j]]
    <3>1. j # 1
      BY <2>10
    <3>2. CASE i = 1
      BY <2>6, <2>7, <2>8, <3>1, <3>2
    <3>3. CASE i # 1
      <4>1. i - 1 \in 1 .. k /\ j - 1 \in 1 .. k /\ i - 1 < j - 1
        BY <2>7, <2>10, <3>1, <3>3
      <4>2. C[r[i - 1]] < C[r[j - 1]]
        BY <2>5, <4>1
      <4> QED
        BY <2>7, <3>1, <3>3, <4>2
    <3> QED
      BY <3>2, <3>3
  <2>11. Rises(s, k + 1)
    BY <2>10
  <2> QED
    BY <2>9, <2>11
<1> HIDE DEF N
<1>3. n \in N
  BY <1>1, <1>2, Induction
<1> QED
  BY <1>3 DEF N

\* A snapshot of well-formed tables is well-formed: the rows with a checkpoint can
\* be ordered by their turn counts, of which no two are the same.
LEMMA SnapshotTyped ==
  ASSUME NEW x, TablesOK(x),
         \A t, u \in Turns : x.row[t].count = x.row[u].count /\ t # u => x.row[t].count = 0
  PROVE  ThreadOK(Snapshot(x))
<1> DEFINE captured == {t \in Turns : x.row[t].count # 0}
           n == Cardinality(captured)
           C == [t \in Turns |-> x.row[t].count]
           held == {t \in Turns : Has(x.order, t)}
<1>1. /\ x.status \in Statuses /\ x.turn \in Turns \cup {NoTurn}
      /\ x.order \in Seq(Turns) /\ x.row \in [Turns -> Rows]
      /\ \A t \in Turns : x.row[t].state # "none" <=> Has(x.order, t)
      /\ \A t \in Turns : x.row[t].count # 0 => RowOK(x.row[t])
  BY DEF TablesOK, HasRow
<1>2. IsFiniteSet(captured)
  <2>1. Len(x.order) \in Nat /\ x.order \in [1 .. Len(x.order) -> Turns]
    BY <1>1
  <2>2. x.order \in Surjection(1 .. Len(x.order), held)
    BY <2>1 DEF Surjection, Has
  <2>3. IsFiniteSet(1 .. Len(x.order))
    BY <2>1, FS_Interval
  <2>4. IsFiniteSet(held)
    BY <2>2, <2>3, FS_Surjection
  <2>5. captured \in SUBSET held
    BY <1>1 DEF RowOK
  <2> HIDE DEF captured, held
  <2> QED
    BY <2>4, <2>5, FS_Subset
<1>3. n \in Nat
  BY <1>2, FS_CardinalityType
<1>4. C \in [Turns -> Nat] /\ captured \subseteq Turns /\ \A t \in Turns : C[t] = x.row[t].count
  BY <1>1 DEF Rows
<1>5. \A t, u \in captured : t # u => C[t] # C[u]
  BY <1>4
<1>6. \A t \in captured : t \in Turns /\ x.row[t].count \in Nat \ {0}
                           /\ x.row[t].checkpoint \in CheckpointStatuses
  BY <1>1 DEF Rows, RowOK
<1> DEFINE Rises(s) == \A i, j \in DOMAIN s : i < j => x.row[s[i]].count < x.row[s[j]].count
           turns == CHOOSE s \in [1 .. Cardinality(captured) -> captured] : Rises(s)
           checks == [i \in DOMAIN turns |->
                        [turn |-> turns[i], count |-> x.row[turns[i]].count,
                         status |-> x.row[turns[i]].checkpoint]]
<1>7. SnapshotCheckpoints(x) = checks
  BY DEF SnapshotCheckpoints
<1> HIDE DEF captured, C
<1>8. \E s \in [1 .. n -> captured] : Rises(s)
  <2>1. PICK s \in [1 .. n -> captured] : \A i, j \in 1 .. n : i < j => C[s[i]] < C[s[j]]
    BY <1>2, <1>3, <1>4, <1>5, Enumeration
  <2>2. Rises(s)
    BY <1>4, <1>6, <2>1
  <2> QED
    BY <2>2
<1>9. turns \in [1 .. n -> captured] /\ Rises(turns)
  BY <1>8
<1> HIDE DEF turns, n
<1>10. checks \in Seq(Checkpoints) /\ DOMAIN checks = 1 .. n
  <2>1. \A i \in 1 .. n : checks[i] \in Checkpoints
    BY <1>6, <1>9 DEF Checkpoints
  <2> QED
    BY <1>3, <1>9, <2>1
<1>11. Ordered(checks)
  <2>1. ASSUME NEW i \in 1 .. n, NEW j \in 1 .. n, i < j
        PROVE  checks[i].turn # checks[j].turn /\ checks[i].count <= checks[j].count
    <3>1. x.row[turns[i]].count < x.row[turns[j]].count
      BY <1>9, <2>1
    <3>2. turns[i] \in captured /\ turns[j] \in captured
      BY <1>9
    <3>3. x.row[turns[i]].count \in Nat /\ x.row[turns[j]].count \in Nat
      BY <1>6, <3>2
    <3>4. /\ checks[i].turn = turns[i] /\ checks[i].count = x.row[turns[i]].count
          /\ checks[j].turn = turns[j] /\ checks[j].count = x.row[turns[j]].count
      BY <1>9
    <3>5. turns[i] # turns[j]
      BY <3>1, <3>3
    <3>6. x.row[turns[i]].count <= x.row[turns[j]].count
      BY <3>1, <3>3
    <3> HIDE DEF checks
    <3> QED
      BY <3>4, <3>5, <3>6
  <2> QED
    BY <1>10, <2>1 DEF Ordered
<1>12. SnapshotLatest(x) \in Latests \cup {NoLatest}
  <2>1. CASE x.order = << >>
    BY <2>1 DEF SnapshotLatest
  <2>2. CASE x.order # << >>
    <3> DEFINE t == Last(x.order)
    <3>1. Len(x.order) \in DOMAIN x.order
      BY <1>1, <2>2, EmptySeq
    <3>2. t \in Turns /\ Has(x.order, t)
      BY <1>1, <3>1 DEF Last, Has
    <3> HIDE DEF t
    <3>3. x.row[t].state \in TurnStates /\ x.row[t].done \in BOOLEAN
      BY <1>1, <3>2 DEF Rows
    <3>4. SnapshotLatest(x) = [turn |-> t, state |-> x.row[t].state, done |-> x.row[t].done]
      BY <2>2 DEF SnapshotLatest, t
    <3> QED
      BY <3>2, <3>3, <3>4 DEF Latests
  <2> QED
    BY <2>1, <2>2
<1> HIDE DEF checks
<1>13. Snapshot(x) = [status |-> x.status, turn |-> x.turn,
                      latest |-> SnapshotLatest(x), checkpoints |-> checks]
  BY <1>7 DEF Snapshot
<1> QED
  BY <1>1, <1>10, <1>11, <1>12, <1>13 DEF ThreadOK

-----------------------------------------------------------------------------
(* Types of the whole, and the numbers of the turns                        *)

\* What is told of the thread, by a provider ...
Told ==
  {e \in RuntimeEvents :
     /\ e.type \in TurnEndings \cup {"turn.started", "content.delta", "item.completed",
                                     "turn.diff.updated"} => e.turn \in Turns
     /\ e.type = "turn.completed" => e.state \in {"completed", "failed", "interrupted"}
     /\ e.type = "session.state.changed" =>
          e.state \in {"starting", "ready", "error", "waiting"}}
Ended == {e \in Told : e.type = "turn.completed"}

\* ... and by the events of the thread.
WellFormed == {e \in Events : EventOK(e)}
Forward == {e \in WellFormed : e.type # "reverted"}

CommandSteps == {"start", "bind", "send", "stop", "unbind"}
Requests == {"turn-start-requested", "session-stop-requested", "runtime-mode-set"}

\* The turns that are asked for: those of the queue, and the one that is to be sent.
Asked(queue) == {i \in DOMAIN queue : queue[i] = "turn-start-requested"}
ToSend(steps) == IF Has(steps, "send") THEN 1 ELSE 0

\* Turns are begun no more often than they were asked for.
Numbered ==
  \E budget \in Budgets :
    begun + ToSend(command) + Cardinality(Asked(commandQueue)) + left["request"]
      <= budget["request"]

CommandsOK ==
  /\ left \in [BudgetKinds -> Nat]
  /\ commandQueue \in Seq(Requests)
  /\ command \in Seq(CommandSteps)
  /\ \A i \in DOMAIN command : command[i] = "send" => i = Len(command)
  /\ begun \in Nat
  /\ Numbered

ProviderOK ==
  /\ session \in BOOLEAN
  /\ live \in Turns \cup {NoTurn} /\ live <= begun
  /\ orphaned \subseteq Turns \ {live} /\ \A t \in orphaned : t <= begun

CaptureOK(x) ==
  \/ x = NoCapture
  \/ \E t \in Turns, n \in Nat \ {0}, s \in CheckpointStatuses : x = CaptureJob(t, n, s)
  \/ \E n \in Nat : x = [NoCapture EXCEPT !.step = "revert", !.count = n]

WorkersOK ==
  /\ ingestQueue \in Seq(Told) /\ runtimeQueue \in Seq(Ended)
  /\ domainQueue \in Seq(WellFormed)
  /\ ingest.todo \in Seq(Forward)
  /\ open \subseteq Turns /\ changed \subseteq Turns
  /\ CaptureOK(capture)

TInv ==
  /\ ThreadOK(thread) /\ TablesOK(tables)
  /\ CommandsOK /\ ProviderOK /\ WorkersOK
  /\ faults \subseteq {"gave up", "restarted"}

\* The events that are dispatched are well-formed, by what they are made of.
LEMMA MadeOf ==
  /\ \A s \in Statuses : \A t \in Turns \cup {NoTurn} : SessionSet(s, t) \in Forward
  /\ \A t \in Turns : MessageDelta(t) \in Forward /\ MessageComplete(t) \in Forward
  /\ \A t \in Turns : \A n \in Nat \ {0} : \A s \in CheckpointStatuses :
       DiffCompleted(t, n, s) \in Forward
  /\ TurnStartRequested \in Forward
  /\ \A t \in Turns \cup {NoTurn} : TurnInterruptRequested(t) \in Forward
  /\ \A n \in Nat : RevertRequested(n) \in Forward
  /\ \A n \in Nat : Reverted(n) \in WellFormed
<1>1. NoTurn \in Nat /\ "none" \in Statuses
  BY DEF NoTurn, Statuses
<1>2. ASSUME NEW s \in Statuses, NEW t \in Turns \cup {NoTurn}
      PROVE  SessionSet(s, t) \in Forward
  BY DEF SessionSet, NoEvent, Forward, WellFormed, EventOK, Events, EventTypes
<1>3. ASSUME NEW t \in Turns
      PROVE  MessageDelta(t) \in Forward /\ MessageComplete(t) \in Forward
  BY <1>1 DEF MessageDelta, MessageComplete, NoEvent, Forward, WellFormed, EventOK, Events,
              EventTypes
<1>4. ASSUME NEW t \in Turns, NEW n \in Nat \ {0}, NEW s \in CheckpointStatuses
      PROVE  DiffCompleted(t, n, s) \in Forward
  BY DEF DiffCompleted, Forward, WellFormed, EventOK, Events, EventTypes, ForCheckpoints
<1>5. TurnStartRequested \in Forward
  BY <1>1 DEF TurnStartRequested, NoEvent, Forward, WellFormed, EventOK, Events, EventTypes
<1>6. ASSUME NEW t \in Turns \cup {NoTurn}
      PROVE  TurnInterruptRequested(t) \in Forward
  BY <1>1 DEF TurnInterruptRequested, NoEvent, Forward, WellFormed, EventOK, Events, EventTypes
<1>7. ASSUME NEW n \in Nat
      PROVE  RevertRequested(n) \in Forward
  BY <1>1 DEF RevertRequested, NoEvent, Forward, WellFormed, EventOK, Events, EventTypes,
              ForCheckpoints
<1>8. ASSUME NEW n \in Nat
      PROVE  Reverted(n) \in WellFormed
  BY <1>1 DEF Reverted, NoEvent, WellFormed, EventOK, Events, EventTypes
<1> QED
  BY <1>2, <1>3, <1>4, <1>5, <1>6, <1>7, <1>8

\* Checkpoints count turns from 1.
LEMMA CountTyped ==
  ASSUME NEW x, ThreadOK(x)
  PROVE  /\ CurrentTurnCount(x) \in Nat
         /\ \A t : HasCheckpoint(x, t) => CheckpointOf(x, t)[1].count \in Nat \ {0}
<1>1. x.checkpoints \in Seq(Checkpoints)
  BY DEF ThreadOK
<1>2. \A c \in Checkpoints : c.count \in Nat \ {0}
  BY DEF Checkpoints
<1>3. CurrentTurnCount(x) \in Nat
  <2>1. CASE x.checkpoints = << >>
    BY <2>1 DEF CurrentTurnCount
  <2>2. CASE x.checkpoints # << >>
    <3>1. Len(x.checkpoints) \in DOMAIN x.checkpoints
      BY <1>1, <2>2, EmptySeq
    <3>2. Last(x.checkpoints) \in Checkpoints
      BY <1>1, <3>1 DEF Last
    <3> QED
      BY <1>2, <2>2, <3>2 DEF CurrentTurnCount
  <2> QED
    BY <2>1, <2>2
<1>4. ASSUME NEW t, HasCheckpoint(x, t)
      PROVE  CheckpointOf(x, t)[1].count \in Nat \ {0}
  <2> DEFINE S == {c \in ToSet(x.checkpoints) : c.turn = t}
             w == Filter(x.checkpoints, S)
  <2>1. w = CheckpointOf(x, t) /\ w # << >>
    BY <1>4 DEF CheckpointOf, HasCheckpoint
  <2>2. w \in Seq(Checkpoints)
    BY <1>1, FilterFacts
  <2> HIDE DEF w
  <2>3. 1 \in DOMAIN w
    BY <2>1, <2>2, EmptySeq
  <2> QED
    BY <1>2, <2>1, <2>2, <2>3
<1> QED
  BY <1>3, <1>4

\* The session that is recorded for what a provider tells is well-formed.
LEMMA LifecycleTyped ==
  ASSUME ThreadOK(thread), NEW e \in Told, AppliesLifecycle(e)
  PROVE  LifecycleSession(e) \in Forward
<1> DEFINE x == LifecycleSession(e)
<1>0. thread.turn \in Turns \cup {NoTurn}
  BY DEF ThreadOK
<1>1. {"running", "error", "ready", "interrupted", "stopped", "starting"} \subseteq Statuses
  BY DEF Statuses, SettledStatuses
<1>2. \A s \in Statuses : \A t \in Turns \cup {NoTurn} : SessionSet(s, t) \in Forward
  BY MadeOf
<1>3. CASE e.type = "turn.started"
  <2>1. x = SessionSet("running", e.turn) /\ e.turn \in Turns
    BY <1>3 DEF LifecycleSession, Told
  <2> QED
    BY <1>1, <1>2, <2>1
<1>4. CASE e.type = "turn.completed"
  <2>1. x = SessionSet(IF e.state = "failed" THEN "error" ELSE "ready", NoTurn)
    BY <1>4 DEF LifecycleSession
  <2> QED
    BY <1>1, <1>2, <2>1
<1>5. CASE e.type = "turn.aborted"
  <2>1. x = SessionSet("interrupted", NoTurn)
    BY <1>5 DEF LifecycleSession
  <2> QED
    BY <1>1, <1>2, <2>1
<1>6. CASE e.type = "session.exited"
  <2>1. x = SessionSet("stopped", NoTurn)
    BY <1>6 DEF LifecycleSession
  <2> QED
    BY <1>1, <1>2, <2>1
<1>7. CASE e.type = "session.started"
  <2>1. x = SessionSet(IF thread.turn # NoTurn THEN "running" ELSE "ready", thread.turn)
    BY <1>7 DEF LifecycleSession
  <2> QED
    BY <1>0, <1>1, <1>2, <2>1
<1>8. CASE e.type = "session.state.changed"
  <2> DEFINE s == IF e.state = "waiting" THEN "running" ELSE e.state
             t == IF e.state \in {"waiting", "starting"} THEN thread.turn ELSE NoTurn
  <2>1. x = SessionSet(s, t)
    BY <1>8 DEF LifecycleSession
  <2>2. e.state \in {"starting", "ready", "error", "waiting"}
    BY <1>8 DEF Told
  <2>3. s \in Statuses /\ t \in Turns \cup {NoTurn}
    BY <1>0, <1>1, <2>2
  <2> HIDE DEF s, t
  <2> QED
    BY <1>2, <2>1, <2>3
<1> QED
  BY <1>3, <1>4, <1>5, <1>6, <1>7, <1>8 DEF AppliesLifecycle, ForLifecycle, TurnEndings

\* What is dispatched for it is well-formed.
LEMMA OutcomeTyped ==
  ASSUME ThreadOK(thread), NEW e \in Told, NEW spills, NEW gateFails
  PROVE  Outcome(e, spills, gateFails) \in Seq(Forward)
<1> DEFINE q1 == IF AppliesLifecycle(e) THEN <<LifecycleSession(e)>> ELSE << >>
           q2 == IF e.type = "content.delta" /\ spills THEN <<MessageDelta(e.turn)>> ELSE << >>
           q3 == IF e.type = "item.completed" THEN Finalized(e.turn) ELSE << >>
           q4 == IF e.type \in TurnEndings /\ e.turn \in open THEN Finalized(e.turn) ELSE << >>
           q5 == IF gateFails THEN <<SessionSet("error", NoTurn)>> ELSE << >>
           q6 == IF e.type = "runtime.error"
                      /\ (thread.turn = NoTurn \/ e.turn \in {NoTurn, thread.turn})
                 THEN <<SessionSet("error", NoTurn)>> ELSE << >>
           q7 == IF e.type = "turn.diff.updated" THEN Placeholder(e.turn) ELSE << >>
           ofTurn == TurnEndings \cup {"content.delta", "item.completed", "turn.diff.updated"}
           error == SessionSet("error", NoTurn)
           session1 == LifecycleSession(e)
           delta == MessageDelta(e.turn)
           complete == MessageComplete(e.turn)
           placeholder == DiffCompleted(e.turn, CurrentTurnCount(thread) + 1, "missing")
<1>1. Outcome(e, spills, gateFails) = q1 \o q2 \o q3 \o q4 \o q5 \o q6 \o q7
  BY DEF Outcome
<1>2. e.type \in ofTurn => e.turn \in Turns
  BY DEF Told
<1>3. "missing" \in CheckpointStatuses /\ "error" \in Statuses /\ NoTurn \in Turns \cup {NoTurn}
  BY DEF CheckpointStatuses, Statuses, SettledStatuses
<1>4. error \in Forward
  BY <1>3, MadeOf
<1>5. AppliesLifecycle(e) => session1 \in Forward
  BY LifecycleTyped
<1>6. e.type \in ofTurn => delta \in Forward /\ complete \in Forward
  BY <1>2, MadeOf
<1>7. e.type \in ofTurn => placeholder \in Forward
  <2>1. CurrentTurnCount(thread) + 1 \in Nat \ {0}
    BY CountTyped
  <2> QED
    BY <1>2, <1>3, <2>1, MadeOf
<1>8. Finalized(e.turn) = <<delta, complete>>
  BY DEF Finalized
<1>9. Placeholder(e.turn) = << >> \/ Placeholder(e.turn) = <<placeholder>>
  BY DEF Placeholder
<1>10. << >> \in Seq(Forward) /\ (\A x \in Forward : <<x>> \in Seq(Forward))
       /\ \A x, y \in Forward : <<x, y>> \in Seq(Forward)
  OBVIOUS
<1> HIDE DEF error, session1, delta, complete, placeholder
<1>11. e.type \in ofTurn =>
         Finalized(e.turn) \in Seq(Forward) /\ Placeholder(e.turn) \in Seq(Forward)
  BY <1>6, <1>7, <1>8, <1>9, <1>10
<1>12. q1 \in Seq(Forward) /\ q5 \in Seq(Forward) /\ q6 \in Seq(Forward)
  BY <1>4, <1>5, <1>10 DEF error, session1
<1>13. q2 \in Seq(Forward)
  BY <1>6, <1>10 DEF delta
<1>14. q3 \in Seq(Forward) /\ q4 \in Seq(Forward) /\ q7 \in Seq(Forward)
  BY <1>10, <1>11
<1> HIDE DEF q1, q2, q3, q4, q5, q6, q7
<1> QED
  BY <1>1, <1>12, <1>13, <1>14

\* How many turns a queue asks for: what is appended to it, and what is taken.
LEMMA AskedFinite ==
  ASSUME NEW T, NEW q \in Seq(T)
  PROVE  IsFiniteSet(Asked(q)) /\ Cardinality(Asked(q)) \in Nat
<1>1. Asked(q) \in SUBSET (1 .. Len(q)) /\ Len(q) \in Nat
  BY DEF Asked
<1>2. IsFiniteSet(1 .. Len(q))
  BY <1>1, FS_Interval
<1>3. IsFiniteSet(Asked(q))
  BY <1>1, <1>2, FS_Subset
<1> QED
  BY <1>3, FS_CardinalityType

LEMMA AskedAppend ==
  ASSUME NEW T, NEW q \in Seq(T), NEW r \in T
  PROVE  Cardinality(Asked(Append(q, r)))
           = Cardinality(Asked(q)) + (IF r = "turn-start-requested" THEN 1 ELSE 0)
<1> DEFINE w == Append(q, r)
           n == Len(q) + 1
<1>1. /\ DOMAIN w = 1 .. n /\ DOMAIN q = 1 .. Len(q) /\ w[n] = r /\ Len(q) \in Nat
      /\ \A i \in 1 .. Len(q) : w[i] = q[i]
  OBVIOUS
<1>2. IsFiniteSet(Asked(q)) /\ Cardinality(Asked(q)) \in Nat
  BY AskedFinite
<1>3. n \notin Asked(q)
  BY <1>1 DEF Asked
<1> HIDE DEF w
<1>4. CASE r = "turn-start-requested"
  <2>1. Asked(w) = Asked(q) \cup {n}
    BY <1>1, <1>4 DEF Asked
  <2>2. Cardinality(Asked(q) \cup {n}) = Cardinality(Asked(q)) + 1
    BY <1>2, <1>3, FS_AddElement
  <2> QED
    BY <1>4, <2>1, <2>2 DEF w
<1>5. CASE r # "turn-start-requested"
  <2>1. Asked(w) = Asked(q)
    BY <1>1, <1>5 DEF Asked
  <2> QED
    BY <1>2, <1>5, <2>1 DEF w
<1> QED
  BY <1>4, <1>5

LEMMA AskedTail ==
  ASSUME NEW T, NEW q \in Seq(T), q # << >>
  PROVE  Cardinality(Asked(q))
           = Cardinality(Asked(Tail(q))) + (IF Head(q) = "turn-start-requested" THEN 1 ELSE 0)
<1> DEFINE w == Tail(q)
           m == Len(q)
           rest == Asked(q) \ {1}
           move == [i \in Asked(w) |-> i + 1]
<1>1. m \in Nat /\ m # 0 /\ DOMAIN q = 1 .. m
  BY EmptySeq
<1>2. w \in Seq(T) /\ DOMAIN w = 1 .. m - 1 /\ \A i \in 1 .. m - 1 : w[i] = q[i + 1]
  BY <1>1
<1>3. Head(q) = q[1]
  OBVIOUS
<1> HIDE DEF w, m
<1>4. /\ IsFiniteSet(Asked(q)) /\ Cardinality(Asked(q)) \in Nat
      /\ IsFiniteSet(Asked(w)) /\ Cardinality(Asked(w)) \in Nat
  BY <1>2, AskedFinite
<1>5. Cardinality(rest) = Cardinality(Asked(w))
  <2>1. \A i \in Asked(w) : i + 1 \in rest /\ i \in Int
    BY <1>1, <1>2 DEF Asked
  <2>2. \A j \in rest : j - 1 \in Asked(w) /\ j - 1 + 1 = j
    <3> SUFFICES ASSUME NEW j \in rest
                 PROVE  j - 1 \in Asked(w) /\ j - 1 + 1 = j
      OBVIOUS
    <3>1. j \in 1 .. m /\ j # 1 /\ q[j] = "turn-start-requested"
      BY <1>1 DEF Asked
    <3>2. j - 1 \in 1 .. m - 1 /\ j - 1 + 1 = j
      BY <1>1, <3>1
    <3> QED
      BY <1>2, <3>1, <3>2 DEF Asked
  <2> HIDE DEF rest
  <2>3. move \in [Asked(w) -> rest]
    BY <2>1
  <2>4. \A i, j \in Asked(w) : move[i] = move[j] => i = j
    BY <2>1
  <2>5. \A j \in rest : \E i \in Asked(w) : move[i] = j
    <3> SUFFICES ASSUME NEW j \in rest
                 PROVE  \E i \in Asked(w) : move[i] = j
      OBVIOUS
    <3>1. j - 1 \in Asked(w) /\ move[j - 1] = j
      BY <2>2
    <3> QED
      BY <3>1
  <2> HIDE DEF move
  <2>6. move \in Bijection(Asked(w), rest)
    BY <2>3, <2>4, <2>5 DEF Bijection, Injection, IsInjective, Surjection
  <2>7. ExistsBijection(Asked(w), rest)
    BY <2>6 DEF ExistsBijection
  <2> QED
    BY <1>4, <2>7, FS_Bijection
<1>6. Cardinality(rest) = IF 1 \in Asked(q) THEN Cardinality(Asked(q)) - 1 ELSE Cardinality(Asked(q))
  BY <1>4, FS_RemoveElement
<1>7. 1 \in Asked(q) <=> Head(q) = "turn-start-requested"
  BY <1>1, <1>3 DEF Asked
<1> HIDE DEF rest
<1>8. Cardinality(Asked(q))
        = Cardinality(Asked(w)) + (IF Head(q) = "turn-start-requested" THEN 1 ELSE 0)
  BY <1>4, <1>5, <1>6, <1>7
<1> QED
  BY <1>8 DEF w

\* What is done for a request sends a turn when one was asked for, and last.
LEMMA WorkTyped ==
  ASSUME NEW r \in Requests, NEW other \in BOOLEAN
  PROVE  LET w == Work(r, other)
         IN /\ w \in Seq(CommandSteps)
            /\ \A i \in DOMAIN w : w[i] = "send" => i = Len(w)
            /\ r # "turn-start-requested" => ~Has(w, "send")
<1> DEFINE w == Work(r, other)
           OK(x) == /\ x \in Seq(CommandSteps)
                    /\ \A i \in DOMAIN x : x[i] = "send" => i = Len(x)
<1>1. /\ OK(<<"send">>) /\ OK(<<"start", "bind", "send">>)
      /\ OK(<<"start", "bind">>) /\ ~Has(<<"start", "bind">>, "send")
      /\ OK(<<"stop", "unbind">>) /\ ~Has(<<"stop", "unbind">>, "send")
      /\ OK(<<"unbind">>) /\ ~Has(<<"unbind">>, "send")
      /\ OK(<< >>) /\ ~Has(<< >>, "send")
  BY DEF CommandSteps, Has
<1>2. <<"start", "bind">> \o <<"send">> = <<"start", "bind", "send">>
  BY ShortSequences
<1> HIDE DEF OK
<1>3. CASE r = "session-stop-requested"
  <2>1. w = <<"stop", "unbind">> \/ w = <<"unbind">>
    BY <1>3 DEF Work
  <2>2. OK(w) /\ ~Has(w, "send")
    BY <1>1, <2>1
  <2> QED
    BY <2>2 DEF OK
<1>4. CASE r = "runtime-mode-set"
  <2>1. w = <<"start", "bind">> \/ w = << >>
    BY <1>4 DEF Work, Restarted
  <2>2. OK(w) /\ ~Has(w, "send")
    BY <1>1, <2>1
  <2> QED
    BY <2>2 DEF OK
<1>5. CASE r = "turn-start-requested"
  <2>1. w = <<"send">> \/ w = <<"start", "bind", "send">>
    BY <1>2, <1>5 DEF Work, Restarted
  <2>2. OK(w)
    BY <1>1, <2>1
  <2> QED
    BY <1>5, <2>2 DEF OK
<1> QED
  BY <1>3, <1>4, <1>5 DEF Requests

\* Every step that is done leaves fewer to do, and no turn to send once it is sent.
LEMMA StepDone ==
  ASSUME command \in Seq(CommandSteps), \A i \in DOMAIN command : command[i] = "send" => i = Len(command),
         NEW step, NextStep(step)
  PROVE  LET w == Tail(command)
         IN /\ w \in Seq(CommandSteps)
            /\ \A i \in DOMAIN w : w[i] = "send" => i = Len(w)
            /\ Has(w, "send") => Has(command, "send")
            /\ step = "send" => Has(command, "send") /\ ~Has(w, "send")
<1> DEFINE w == Tail(command)
           m == Len(command)
<1>1. m \in Nat /\ m # 0 /\ DOMAIN command = 1 .. m /\ command # << >> /\ command[1] = step
  BY EmptySeq DEF NextStep
<1>2. /\ w \in Seq(CommandSteps) /\ DOMAIN w = 1 .. m - 1 /\ Len(w) = m - 1
      /\ \A i \in 1 .. m - 1 : w[i] = command[i + 1]
  BY <1>1
<1> HIDE DEF w
<1>3. ASSUME NEW i \in DOMAIN w, w[i] = "send"
      PROVE  i = Len(w) /\ Has(command, "send") /\ step # "send"
  <2>1. i + 1 \in 1 .. m /\ command[i + 1] = "send" /\ i \in Int
    BY <1>1, <1>2, <1>3
  <2>2. i + 1 = m
    BY <1>1, <2>1
  <2>3. 1 # m /\ 1 \in DOMAIN command
    BY <1>1, <1>2, <1>3
  <2>4. step # "send"
    BY <1>1, <2>3
  <2> QED
    BY <1>1, <1>2, <2>1, <2>2, <2>4 DEF Has
<1>4. step = "send" => Has(command, "send")
  BY <1>1 DEF Has
<1>5. Has(w, "send") => Has(command, "send") /\ step # "send"
  BY <1>3 DEF Has
<1> QED
  BY <1>2, <1>3, <1>4, <1>5 DEF w

\* What a step does with the budget: it never grows, and pays for a turn that is
\* asked for.
LEMMA SpendTyped ==
  ASSUME left \in [BudgetKinds -> Nat], NEW kind \in BudgetKinds, Spend(kind)
  PROVE  /\ left' \in [BudgetKinds -> Nat] /\ left'["request"] <= left["request"]
         /\ left["request"] \in Nat /\ left'["request"] \in Nat
         /\ kind = "request" => left'["request"] + 1 = left["request"]
<1>1. "request" \in BudgetKinds
  BY DEF BudgetKinds
<1>2. left[kind] \in Nat /\ left[kind] > 0 /\ left' = [left EXCEPT ![kind] = left[kind] - 1]
  BY DEF Spend
<1>3. left' \in [BudgetKinds -> Nat]
  BY <1>2
<1>4. left'["request"] = IF kind = "request" THEN left["request"] - 1 ELSE left["request"]
  BY <1>1, <1>2
<1> QED
  BY <1>1, <1>2, <1>3, <1>4

\* The next turn is one of those that were asked for.
LEMMA NextTurn ==
  ASSUME CommandsOK, NextStep("send")
  PROVE  begun + 1 \in Turns
<1>1. command \in Seq(CommandSteps) /\ begun \in Nat /\ left \in [BudgetKinds -> Nat]
      /\ commandQueue \in Seq(Requests)
  BY DEF CommandsOK
<1>2. ToSend(command) = 1
  <2>1. Has(command, "send")
    BY <1>1, StepDone DEF CommandsOK
  <2> QED
    BY <2>1 DEF ToSend
<1>3. PICK budget \in Budgets :
        begun + ToSend(command) + Cardinality(Asked(commandQueue)) + left["request"]
          <= budget["request"]
  BY DEF CommandsOK, Numbered
<1>4. "request" \in BudgetKinds
  BY DEF BudgetKinds
<1>5. left["request"] \in Nat /\ budget["request"] \in Nat
  BY <1>1, <1>4, BudgetAssumption
<1>6. Cardinality(Asked(commandQueue)) \in Nat
  BY <1>1, AskedFinite
<1>7. begun + 1 <= budget["request"]
  BY <1>1, <1>2, <1>3, <1>5, <1>6
<1>8. begun + 1 \in 1 .. budget["request"]
  BY <1>1, <1>5, <1>7
<1> QED
  BY <1>8, BudgetAssumption

LEMMA FourAdded ==
  /\ \A a, b, c, d \in Nat : a + b + c + d \in Nat
  /\ \A a, b, c, d, b2, c2, d2 \in Nat :
       /\ c2 + d2 <= c + d => a + b + c2 + d2 <= a + b + c + d
       /\ b2 + c2 <= b + c /\ d2 <= d => a + b2 + c2 + d2 <= a + b + c + d
       /\ b2 <= b /\ c2 <= c /\ d2 <= d => a + b2 + c2 + d2 <= a + b + c + d
  /\ \A a, b, c, d, a2, b2 \in Nat :
       a2 + b2 <= a + b => a2 + b2 + c + d <= a + b + c + d
OBVIOUS

\* Turns are numbered when no more are begun, to be sent and asked for than before.
LEMMA NumberedStays ==
  ASSUME CommandsOK, command' \in Seq(CommandSteps), commandQueue' \in Seq(Requests),
         begun' \in Nat, left' \in [BudgetKinds -> Nat],
         begun' + ToSend(command') + Cardinality(Asked(commandQueue')) + left'["request"]
           <= begun + ToSend(command) + Cardinality(Asked(commandQueue)) + left["request"]
  PROVE  Numbered'
<1>1. PICK budget \in Budgets :
        begun + ToSend(command) + Cardinality(Asked(commandQueue)) + left["request"]
          <= budget["request"]
  BY DEF CommandsOK, Numbered
<1>2. "request" \in BudgetKinds
  BY DEF BudgetKinds
<1>3. left["request"] \in Nat /\ left'["request"] \in Nat /\ budget["request"] \in Nat
      /\ begun \in Nat
  BY <1>2, BudgetAssumption DEF CommandsOK
<1>4. Cardinality(Asked(commandQueue)) \in Nat /\ Cardinality(Asked(commandQueue')) \in Nat
  BY AskedFinite DEF CommandsOK
<1>5. ToSend(command) \in Nat /\ ToSend(command') \in Nat
  BY DEF ToSend
<1> DEFINE old == begun + ToSend(command) + Cardinality(Asked(commandQueue)) + left["request"]
           new == begun' + ToSend(command') + Cardinality(Asked(commandQueue')) + left'["request"]
<1>6. old \in Nat /\ new \in Nat
  BY <1>3, <1>4, <1>5, FourAdded
<1>7. old <= budget["request"] /\ new <= old
  BY <1>1
<1> HIDE DEF old, new
<1>8. new <= budget["request"]
  BY <1>3, <1>6, <1>7
<1> QED
  BY <1>8 DEF Numbered, new

\* What the other steps do with the commands: they ask for nothing.
LEMMA OthersCommand ==
  ASSUME CommandsOK, UNCHANGED <<begun, commands>>,
         \/ UNCHANGED left
         \/ \E kind \in BudgetKinds : Spend(kind)
  PROVE  CommandsOK'
<1>1. left \in [BudgetKinds -> Nat] /\ "request" \in BudgetKinds
  BY DEF CommandsOK, BudgetKinds
<1>2. /\ left' \in [BudgetKinds -> Nat] /\ left'["request"] <= left["request"]
      /\ left["request"] \in Nat /\ left'["request"] \in Nat
  BY <1>1, SpendTyped
<1>3. /\ command' = command /\ commandQueue' = commandQueue /\ begun' = begun
      /\ command \in Seq(CommandSteps) /\ commandQueue \in Seq(Requests) /\ begun \in Nat
  BY DEF commands, CommandsOK
<1>4. Cardinality(Asked(commandQueue)) \in Nat /\ ToSend(command) \in Nat
  BY <1>3, AskedFinite DEF ToSend
<1>5. Numbered'
  BY <1>2, <1>3, <1>4, NumberedStays
<1> QED
  BY <1>2, <1>3, <1>5 DEF CommandsOK

\* A request is queued; a turn that is asked for is paid for.
LEMMA RequestCommands ==
  ASSUME CommandsOK, NEW r \in Requests, NEW kind \in BudgetKinds, Spend(kind),
         r = "turn-start-requested" => kind = "request",
         commandQueue' = Append(commandQueue, r), UNCHANGED <<begun, command>>
  PROVE  CommandsOK'
<1>1. left \in [BudgetKinds -> Nat]
  BY DEF CommandsOK
<1>2. /\ left' \in [BudgetKinds -> Nat] /\ left'["request"] <= left["request"]
      /\ left["request"] \in Nat /\ left'["request"] \in Nat
      /\ kind = "request" => left'["request"] + 1 = left["request"]
  BY <1>1, SpendTyped
<1>3. /\ command \in Seq(CommandSteps) /\ commandQueue \in Seq(Requests) /\ begun \in Nat
      /\ commandQueue' \in Seq(Requests)
  BY DEF CommandsOK
<1>4. Cardinality(Asked(commandQueue)) \in Nat /\ ToSend(command) \in Nat
  BY <1>3, AskedFinite DEF ToSend
<1>5. Cardinality(Asked(commandQueue'))
        = Cardinality(Asked(commandQueue)) + (IF r = "turn-start-requested" THEN 1 ELSE 0)
  BY <1>3, AskedAppend
<1>6. Numbered'
  <2>1. Cardinality(Asked(commandQueue')) + left'["request"]
          <= Cardinality(Asked(commandQueue)) + left["request"]
    BY <1>2, <1>4, <1>5
  <2>2. Cardinality(Asked(commandQueue')) \in Nat
    BY <1>4, <1>5
  <2>3. begun' = begun /\ ToSend(command') = ToSend(command)
    OBVIOUS
  <2>4. begun' + ToSend(command') + Cardinality(Asked(commandQueue')) + left'["request"]
          <= begun + ToSend(command) + Cardinality(Asked(commandQueue)) + left["request"]
    BY <1>2, <1>3, <1>4, <2>1, <2>2, <2>3, FourAdded
  <2> QED
    BY <1>2, <1>3, <2>4, NumberedStays
<1> QED
  BY <1>2, <1>3, <1>6 DEF CommandsOK

\* A request is taken: the turn it asks for is to be sent.
LEMMA TakeTyped ==
  ASSUME CommandsOK, TakeCommand
  PROVE  CommandsOK'
<1> DEFINE r == Head(commandQueue)
<1>1. command = << >> /\ commandQueue # << >> /\ commandQueue' = Tail(commandQueue)
      /\ begun' = begun
  BY DEF TakeCommand, provider
<1>2. PICK other \in BOOLEAN : command' = Work(r, other)
  BY DEF TakeCommand
<1>3. UNCHANGED left \/ \E kind \in BudgetKinds : Spend(kind)
  BY DEF TakeCommand, BudgetKinds
<1>4. left \in [BudgetKinds -> Nat] /\ "request" \in BudgetKinds /\ begun \in Nat
      /\ commandQueue \in Seq(Requests)
  BY DEF CommandsOK, BudgetKinds
<1>5. /\ left' \in [BudgetKinds -> Nat] /\ left'["request"] <= left["request"]
      /\ left["request"] \in Nat /\ left'["request"] \in Nat
  BY <1>3, <1>4, SpendTyped
<1>6. commandQueue' \in Seq(Requests) /\ r \in Requests
  BY <1>1, <1>4
<1>7. Cardinality(Asked(commandQueue))
        = Cardinality(Asked(commandQueue')) + (IF r = "turn-start-requested" THEN 1 ELSE 0)
  BY <1>1, <1>4, AskedTail
<1>8. Cardinality(Asked(commandQueue')) \in Nat
  BY <1>6, AskedFinite
<1> HIDE DEF r
<1>9. /\ command' \in Seq(CommandSteps)
      /\ \A i \in DOMAIN command' : command'[i] = "send" => i = Len(command')
      /\ r # "turn-start-requested" => ~Has(command', "send")
  BY <1>2, <1>6, WorkTyped
<1>10. ToSend(command) = 0
  BY <1>1 DEF ToSend, Has
<1>11. ToSend(command') <= (IF r = "turn-start-requested" THEN 1 ELSE 0) /\ ToSend(command') \in Nat
  BY <1>9 DEF ToSend
<1>12. Numbered'
  <2>1. ToSend(command') + Cardinality(Asked(commandQueue'))
          <= ToSend(command) + Cardinality(Asked(commandQueue))
    BY <1>7, <1>8, <1>10, <1>11
  <2>2. ToSend(command) \in Nat /\ Cardinality(Asked(commandQueue)) \in Nat
    BY <1>4, <1>10, AskedFinite
  <2>3. begun' + ToSend(command') + Cardinality(Asked(commandQueue')) + left'["request"]
          <= begun + ToSend(command) + Cardinality(Asked(commandQueue)) + left["request"]
    BY <1>1, <1>4, <1>5, <1>8, <1>10, <1>11, <2>1, <2>2, FourAdded
  <2> QED
    BY <1>1, <1>4, <1>5, <1>6, <1>9, <2>3, NumberedStays
<1> QED
  BY <1>1, <1>4, <1>5, <1>6, <1>9, <1>12 DEF CommandsOK

\* A step is done: a turn is begun when it was to be sent.
LEMMA DoneTyped ==
  ASSUME CommandsOK, NEW step, NextStep(step), Done,
         begun' = IF step = "send" /\ live = NoTurn THEN begun + 1 ELSE begun
  PROVE  CommandsOK'
<1>1. /\ command \in Seq(CommandSteps) /\ left \in [BudgetKinds -> Nat] /\ begun \in Nat
      /\ commandQueue \in Seq(Requests)
      /\ \A i \in DOMAIN command : command[i] = "send" => i = Len(command)
  BY DEF CommandsOK
<1>2. command' = Tail(command) /\ commandQueue' = commandQueue /\ left' = left
  BY DEF Done
<1>3. /\ command' \in Seq(CommandSteps)
      /\ \A i \in DOMAIN command' : command'[i] = "send" => i = Len(command')
      /\ Has(command', "send") => Has(command, "send")
      /\ step = "send" => Has(command, "send") /\ ~Has(command', "send")
  BY <1>1, <1>2, StepDone
<1>4. begun' + ToSend(command') <= begun + ToSend(command) /\ begun' \in Nat
  BY <1>1, <1>3 DEF ToSend
<1>5. ToSend(command') \in Nat /\ ToSend(command) \in Nat
  BY DEF ToSend
<1>6. left["request"] \in Nat /\ Cardinality(Asked(commandQueue)) \in Nat
  BY <1>1, AskedFinite DEF BudgetKinds
<1>7. Numbered'
  <2>1. Cardinality(Asked(commandQueue')) = Cardinality(Asked(commandQueue))
        /\ left'["request"] = left["request"]
    BY <1>2
  <2>2. begun' + ToSend(command') + Cardinality(Asked(commandQueue')) + left'["request"]
          <= begun + ToSend(command) + Cardinality(Asked(commandQueue)) + left["request"]
    BY <1>1, <1>4, <1>5, <1>6, <2>1, FourAdded
  <2> QED
    BY <1>1, <1>2, <1>3, <1>4, <2>2, NumberedStays
<1> QED
  BY <1>1, <1>2, <1>3, <1>4, <1>7 DEF CommandsOK

\* The turns stay numbered, whatever is done.
LEMMA CommandsNext ==
  ASSUME CommandsOK, [Next]_vars
  PROVE  CommandsOK'
<1>0. "restart" \in BudgetKinds /\ "failure" \in BudgetKinds /\ "request" \in BudgetKinds
  BY DEF BudgetKinds
<1>1. CASE Users
  <2>1. CASE RequestTurn
    BY <1>0, <2>1, RequestCommands DEF RequestTurn, Requests, provider
  <2>2. CASE RequestStop
    BY <2>2, RequestCommands DEF RequestStop, Requests, provider, BudgetKinds
  <2>3. CASE SetRuntimeMode
    BY <2>3, RequestCommands DEF SetRuntimeMode, Requests, provider, BudgetKinds
  <2>4. CASE Interrupt \/ \E n \in Turns \cup {0} : RequestRevert(n)
    <3>1. UNCHANGED <<begun, commands>> /\ \E kind \in BudgetKinds : Spend(kind)
      BY <2>4 DEF Interrupt, RequestRevert, provider, BudgetKinds
    <3> QED
      BY <3>1, OthersCommand
  <2> QED
    BY <1>1, <2>1, <2>2, <2>3, <2>4 DEF Users
<1>2. CASE Provider
  <2>1. UNCHANGED <<begun, commands>>
    BY <1>2 DEF Provider, TurnEnds, TurnAborts, Reports, SessionStateChanges, SessionExits,
                ReplacedSessionExits, RuntimeError, Ends, provider
  <2>2. UNCHANGED left \/ \E kind \in BudgetKinds : Spend(kind)
    BY <1>2 DEF Provider, TurnEnds, TurnAborts, Reports, SessionStateChanges, SessionExits,
                ReplacedSessionExits, RuntimeError, Ends, BudgetKinds
  <2> QED
    BY <2>1, <2>2, OthersCommand
<1>3. CASE Ingestion \/ Checkpointing
  <2>1. UNCHANGED <<begun, commands>>
    BY <1>3 DEF Ingestion, IngestBegin, IngestDispatch, Checkpointing, CaptureCompletedTurn,
                HandleDomainEvent, FinishCapture, provider
  <2>2. UNCHANGED left \/ \E kind \in BudgetKinds : Spend(kind)
    BY <1>3 DEF Ingestion, IngestBegin, IngestDispatch, Checkpointing, CaptureCompletedTurn,
                HandleDomainEvent, FinishCapture, BudgetKinds
  <2> QED
    BY <2>1, <2>2, OthersCommand
<1>4. CASE Commanding
  <2>1. CASE TakeCommand
    BY <2>1, TakeTyped
  <2>2. CASE StartSession
    BY <2>2, DoneTyped DEF StartSession
  <2>3. CASE BindSession
    BY <2>3, DoneTyped DEF BindSession, provider
  <2>4. CASE SendTurn
    BY <2>4, DoneTyped DEF SendTurn
  <2>5. CASE SendRefused
    BY <2>5, DoneTyped DEF SendRefused, provider
  <2>6. CASE StopSession
    BY <2>6, DoneTyped DEF StopSession
  <2>7. CASE UnbindSession
    BY <2>7, DoneTyped DEF UnbindSession, provider
  <2> QED
    BY <1>4, <2>1, <2>2, <2>3, <2>4, <2>5, <2>6, <2>7 DEF Commanding
<1>5. CASE IngestFails \/ CaptureFails
  <2>1. UNCHANGED <<begun, commands>> /\ Spend("failure")
    BY <1>5 DEF IngestFails, CaptureFails, provider
  <2> QED
    BY <1>0, <2>1, OthersCommand
<1>6. ASSUME command' = << >>, commandQueue' = commandQueue \/ commandQueue' = << >>,
             begun' = begun, NEW kind \in BudgetKinds, Spend(kind)
      PROVE  CommandsOK'
  <2>0. << >> \in Seq(Requests) /\ << >> \in Seq(CommandSteps)
    OBVIOUS
  <2>1. /\ left \in [BudgetKinds -> Nat] /\ begun \in Nat
        /\ commandQueue \in Seq(Requests) /\ commandQueue' \in Seq(Requests)
        /\ command' \in Seq(CommandSteps)
    BY <1>6, <2>0 DEF CommandsOK
  <2>2. /\ left' \in [BudgetKinds -> Nat] /\ left'["request"] <= left["request"]
        /\ left["request"] \in Nat /\ left'["request"] \in Nat
    BY <1>6, <2>1, SpendTyped
  <2>3. ToSend(command') = 0 /\ ToSend(command) \in Nat
    BY <1>6 DEF ToSend, Has
  <2>4. /\ Cardinality(Asked(commandQueue')) <= Cardinality(Asked(commandQueue))
        /\ Cardinality(Asked(commandQueue)) \in Nat /\ Cardinality(Asked(commandQueue')) \in Nat
    <3>1. Cardinality(Asked(commandQueue)) \in Nat /\ Cardinality(Asked(commandQueue')) \in Nat
      BY <2>1, AskedFinite
    <3>2. Asked(<< >>) = {}
      BY DEF Asked
    <3> QED
      BY <1>6, <3>1, <3>2, FS_EmptySet
  <2>5. Numbered'
    <3>1. begun' = begun /\ ToSend(command') <= ToSend(command) /\ ToSend(command') \in Nat
      BY <1>6, <2>3
    <3>2. begun' + ToSend(command') + Cardinality(Asked(commandQueue')) + left'["request"]
            <= begun + ToSend(command) + Cardinality(Asked(commandQueue)) + left["request"]
      BY <2>1, <2>2, <2>3, <2>4, <3>1, FourAdded
    <3> QED
      BY <2>1, <2>2, <3>1, <3>2, NumberedStays
  <2> QED
    BY <1>6, <2>1, <2>2, <2>5 DEF CommandsOK
<1>7. CASE CommandFails
  BY <1>0, <1>6, <1>7 DEF CommandFails, provider
<1>8. CASE Restart
  BY <1>0, <1>6, <1>8 DEF Restart
<1>9. CASE UNCHANGED vars
  BY <1>9, OthersCommand DEF vars, system, provider
<1> QED
  BY <1>1, <1>2, <1>3, <1>4, <1>5, <1>7, <1>8, <1>9 DEF Next, Failures

-----------------------------------------------------------------------------
(* Types of what is told of the thread and of what the workers keep        *)

QueuesOK == ingestQueue \in Seq(Told) /\ runtimeQueue \in Seq(Ended)

\* What the provider reports.
LEMMA ToldOf ==
  /\ \A t \in Turns : \A state \in {"completed", "failed", "interrupted"} :
       Runtime("turn.completed", t, state) \in Told
  /\ \A t \in Turns : \A type \in {"turn.aborted", "turn.started", "content.delta",
                                   "item.completed", "turn.diff.updated"} :
       Runtime(type, t, "none") \in Told
  /\ \A state \in {"starting", "ready", "error", "waiting"} :
       Runtime("session.state.changed", NoTurn, state) \in Told
  /\ \A type \in {"session.started", "session.exited"} : Runtime(type, NoTurn, "none") \in Told
  /\ \A t \in Turns \cup {NoTurn} : Runtime("runtime.error", t, "none") \in Told
BY DEF Runtime, Told, RuntimeEvents, ForLifecycle, TurnEndings

\* What is emitted is queued, and the ends of turns for the checkpoint reactor, too.
LEMMA EmitTyped ==
  ASSUME QueuesOK, NEW events \in Seq(Told), Emit(events)
  PROVE  QueuesOK'
<1> DEFINE S == {e \in ToSet(events) : e.type = "turn.completed"}
           w == Filter(events, S)
<1>1. \A e \in S : e \in Ended
  <2>1. \A e \in ToSet(events) : e \in Told
    BY DEF ToSet
  <2> QED
    BY <2>1 DEF Ended
<1>2. ingestQueue' = ingestQueue \o events /\ runtimeQueue' = runtimeQueue \o w
  BY DEF Emit
<1> HIDE DEF S
<1>3. w \in Seq(Told) /\ \A i \in DOMAIN w : w[i] \in S
  BY FilterFacts
<1> HIDE DEF w
<1>4. w \in Seq(Ended)
  <2>1. Len(w) \in Nat /\ DOMAIN w = 1 .. Len(w) /\ w = [i \in 1 .. Len(w) |-> w[i]]
    BY <1>3
  <2>2. w \in [1 .. Len(w) -> Ended]
    BY <1>1, <1>3, <2>1
  <2> QED
    BY <2>1, <2>2, SeqDef
<1> QED
  BY <1>2, <1>4 DEF QueuesOK

\* One, two or three events.
LEMMA EmitShort ==
  /\ << >> \in Seq(Told)
  /\ \A c \in Told : <<c>> \in Seq(Told)
  /\ \A c, d \in Told : <<c, d>> \in Seq(Told)
  /\ \A c, d, e \in Told : <<c, d, e>> \in Seq(Told)
<1> DEFINE T == Told
<1> HIDE DEF T
<1>1. /\ << >> \in Seq(T)
      /\ \A c \in T : <<c>> \in Seq(T)
      /\ \A c, d \in T : <<c, d>> \in Seq(T)
      /\ \A c, d, e \in T : <<c, d, e>> \in Seq(T)
  OBVIOUS
<1> QED
  BY <1>1 DEF T

\* What a provider does keeps its turns apart, and those it works on begun.
LEMMA ProviderTyped ==
  ASSUME QueuesOK, ProviderOK, begun \in Nat, Provider
  PROVE  QueuesOK' /\ ProviderOK'
<1>0. /\ NoTurn \notin Turns /\ NoTurn \in Nat /\ NoTurn <= begun /\ Working \subseteq Turns
      /\ \A t \in Turns : t \in Nat
  BY TurnsAssumption DEF NoTurn, Working, ProviderOK
<1>1. ASSUME NEW e \in Told, Emit(<<e>>)
      PROVE  QueuesOK'
  BY <1>1, EmitTyped, EmitShort
<1>2. ASSUME NEW t \in Working, Ends(t)
      PROVE  ProviderOK'
  BY <1>0, <1>2 DEF Ends, ProviderOK
<1>3. ASSUME UNCHANGED provider
      PROVE  ProviderOK'
  BY <1>3 DEF provider, ProviderOK
<1>4. CASE TurnEnds
  <2>1. PICK t \in Working, state \in {"completed", "failed", "interrupted"} :
          Emit(<<Runtime("turn.completed", t, state)>>) /\ Ends(t)
    BY <1>4 DEF TurnEnds
  <2>2. Runtime("turn.completed", t, state) \in Told
    BY <1>0, ToldOf
  <2> QED
    BY <1>1, <1>2, <2>1, <2>2
<1>5. CASE TurnAborts
  <2>1. PICK t \in Working : Emit(<<Runtime("turn.aborted", t, "none")>>) /\ Ends(t)
    BY <1>5 DEF TurnAborts
  <2>2. Runtime("turn.aborted", t, "none") \in Told
    BY <1>0, ToldOf
  <2> QED
    BY <1>1, <1>2, <2>1, <2>2
<1>6. CASE Reports
  <2>1. PICK type \in {"turn.diff.updated", "content.delta", "item.completed"}, t \in Working :
          Emit(<<Runtime(type, t, "none")>>) /\ UNCHANGED provider
    BY <1>6 DEF Reports
  <2>2. Runtime(type, t, "none") \in Told
    BY <1>0, ToldOf
  <2> QED
    BY <1>1, <1>3, <2>1, <2>2
<1>7. CASE SessionStateChanges
  <2>1. PICK state \in {"starting", "ready", "error", "waiting"} :
          Emit(<<Runtime("session.state.changed", NoTurn, state)>>) /\ UNCHANGED provider
    BY <1>7 DEF SessionStateChanges
  <2>2. Runtime("session.state.changed", NoTurn, state) \in Told
    BY ToldOf
  <2> QED
    BY <1>1, <1>3, <2>1, <2>2
<1>8. SessionExited = <<Runtime("session.exited", NoTurn, "none")>>
      /\ Runtime("session.exited", NoTurn, "none") \in Told
  BY ToldOf DEF SessionExited
<1>9. CASE SessionExits
  <2>1. QueuesOK'
    BY <1>1, <1>8, <1>9 DEF SessionExits
  <2>2. ProviderOK'
    BY <1>0, <1>9 DEF SessionExits, ProviderOK
  <2> QED
    BY <2>1, <2>2
<1>10. CASE ReplacedSessionExits
  <2>1. QueuesOK'
    BY <1>1, <1>8, <1>10 DEF ReplacedSessionExits
  <2>2. ProviderOK'
    BY <1>0, <1>10 DEF ReplacedSessionExits, ProviderOK
  <2> QED
    BY <2>1, <2>2
<1>11. CASE RuntimeError
  <2>1. PICK t \in {NoTurn, live} :
          Emit(<<Runtime("runtime.error", t, "none")>>) /\ UNCHANGED provider
    BY <1>11 DEF RuntimeError
  <2>2. Runtime("runtime.error", t, "none") \in Told
    BY ToldOf DEF ProviderOK
  <2> QED
    BY <1>1, <1>3, <2>1, <2>2
<1> QED
  BY <1>4, <1>5, <1>6, <1>7, <1>9, <1>10, <1>11 DEF Provider

\* What the command reactor has the provider do: the next turn is not yet begun.
LEMMA CommandingTyped ==
  ASSUME QueuesOK, ProviderOK, CommandsOK, Commanding
  PROVE  QueuesOK' /\ ProviderOK'
<1>0. /\ NoTurn \notin Turns /\ NoTurn \in Nat /\ NoTurn <= begun /\ Working \subseteq Turns
      /\ \A t \in Turns : t \in Nat
      /\ begun \in Nat
  BY TurnsAssumption DEF NoTurn, Working, ProviderOK, CommandsOK
<1> DEFINE started == Runtime("session.started", NoTurn, "none")
           ready == Runtime("session.state.changed", NoTurn, "ready")
           exited == Runtime("session.exited", NoTurn, "none")
<1>1. /\ SessionReady = <<started, ready>> /\ SessionExited = <<exited>>
      /\ started \in Told /\ ready \in Told /\ exited \in Told
  BY ToldOf DEF SessionReady, SessionExited
<1> HIDE DEF started, ready, exited
<1>2. CASE TakeCommand \/ BindSession \/ SendRefused \/ UnbindSession
  <2>1. UNCHANGED <<ingestQueue, runtimeQueue, provider>>
    BY <1>2 DEF TakeCommand, BindSession, SendRefused, UnbindSession, ingestion, checkpoints
  <2> QED
    BY <2>1 DEF provider, QueuesOK, ProviderOK
<1>3. CASE StartSession
  <2>1. QueuesOK'
    <3>1. Emit(<<started, ready>>)
      BY <1>1, <1>3 DEF StartSession
    <3> QED
      BY <1>1, <3>1, EmitTyped, EmitShort
  <2>2. ProviderOK'
    BY <1>0, <1>3 DEF StartSession, ProviderOK, Working
  <2> QED
    BY <2>1, <2>2
<1>4. CASE SendTurn
  <2> DEFINE t == begun + 1
             begins == Runtime("turn.started", t, "none")
  <2>1. t \in Turns /\ begins \in Told
    BY <1>4, NextTurn, ToldOf DEF SendTurn
  <2>2. /\ Emit((IF session THEN << >> ELSE SessionReady) \o <<begins>>)
        /\ begun' = t /\ live' = t /\ session' = TRUE /\ orphaned' = orphaned
    BY <1>4 DEF SendTurn
  <2>3. ProviderOK'
    BY <1>0, <2>1, <2>2 DEF ProviderOK
  <2> HIDE DEF t, begins
  <2>4. (IF session THEN << >> ELSE SessionReady) \o <<begins>> \in Seq(Told)
    <3>1. CASE session
      BY <2>1, <3>1, ShortSequences, EmitShort
    <3>2. CASE ~session
      <4>1. <<started, ready>> \o <<begins>> = <<started, ready, begins>>
        BY ShortSequences
      <4> QED
        BY <1>1, <2>1, <3>2, <4>1, EmitShort
    <3> QED
      BY <3>1, <3>2
  <2> QED
    BY <2>2, <2>3, <2>4, EmitTyped
<1>5. CASE StopSession
  <2>1. PICK last \in {<< >>} \cup {<<Runtime("turn.completed", t, "interrupted")>> :
                                      t \in {live} \ {NoTurn}} :
          Emit(IF session THEN last \o SessionExited ELSE << >>)
    BY <1>5 DEF StopSession
  <2>2. ProviderOK'
    BY <1>0, <1>5 DEF StopSession, ProviderOK
  <2>3. (IF session THEN last \o SessionExited ELSE << >>) \in Seq(Told)
    <3>1. CASE ~session
      BY <3>1, EmitShort
    <3>2. CASE last = << >>
      <4>1. << >> \o <<exited>> = <<exited>>
        BY ShortSequences
      <4> QED
        BY <1>1, <3>2, <4>1, EmitShort
    <3>3. CASE last # << >>
      <4>1. PICK t \in {live} \ {NoTurn} : last = <<Runtime("turn.completed", t, "interrupted")>>
        BY <2>1, <3>3
      <4> DEFINE ends == Runtime("turn.completed", t, "interrupted")
      <4>2. ends \in Told /\ last = <<ends>>
        BY <4>1, ToldOf DEF ProviderOK
      <4> HIDE DEF ends
      <4>3. <<ends>> \o <<exited>> = <<ends, exited>>
        BY ShortSequences
      <4> QED
        BY <1>1, <4>2, <4>3, EmitShort
    <3> QED
      BY <3>1, <3>2, <3>3
  <2> QED
    BY <2>1, <2>2, <2>3, EmitTyped
<1> QED
  BY <1>2, <1>3, <1>4, <1>5 DEF Commanding

\* The queues of runtime events and the provider, whatever is done.
LEMMA ProviderNext ==
  ASSUME QueuesOK, ProviderOK, CommandsOK, [Next]_vars
  PROVE  QueuesOK' /\ ProviderOK'
<1>0. begun \in Nat
  BY DEF CommandsOK
<1>1. ASSUME UNCHANGED provider
      PROVE  ProviderOK'
  BY <1>1 DEF provider, ProviderOK
<1>2. CASE Provider
  BY <1>0, <1>2, ProviderTyped
<1>3. CASE Commanding
  BY <1>3, CommandingTyped
<1>4. CASE Users
  <2>1. UNCHANGED <<provider, ingestQueue, runtimeQueue>>
    BY <1>4 DEF Users, RequestTurn, Interrupt, RequestStop, SetRuntimeMode, RequestRevert,
                ingestion, checkpoints
  <2> QED
    BY <1>1, <2>1 DEF QueuesOK
<1>5. CASE IngestBegin
  <2>1. ingestQueue # << >> /\ ingestQueue' = Tail(ingestQueue) /\ runtimeQueue' = runtimeQueue
        /\ UNCHANGED provider
    BY <1>5 DEF IngestBegin, checkpoints
  <2> QED
    BY <1>1, <2>1 DEF QueuesOK
<1>6. CASE CaptureCompletedTurn
  <2>1. runtimeQueue # << >> /\ runtimeQueue' = Tail(runtimeQueue) /\ ingestQueue' = ingestQueue
        /\ UNCHANGED provider
    BY <1>6 DEF CaptureCompletedTurn, ingestion
  <2> QED
    BY <1>1, <2>1 DEF QueuesOK
<1>7. CASE IngestDispatch \/ HandleDomainEvent \/ FinishCapture \/ Failures
  <2>1. UNCHANGED <<provider, ingestQueue, runtimeQueue>>
    BY <1>7 DEF IngestDispatch, HandleDomainEvent, FinishCapture, Failures, IngestFails,
                CaptureFails, CommandFails, ingestion, checkpoints
  <2> QED
    BY <1>1, <2>1 DEF QueuesOK
<1>8. CASE Restart
  <2>1. /\ ingestQueue' = << >> /\ runtimeQueue' = << >>
        /\ session' = FALSE /\ live' = NoTurn /\ orphaned' = {} /\ begun' = begun
    BY <1>8 DEF Restart
  <2>2. << >> \in Seq(Told) /\ << >> \in Seq(Ended)
    OBVIOUS
  <2>3. NoTurn <= begun
    BY <1>0 DEF NoTurn
  <2> QED
    BY <2>1, <2>2, <2>3 DEF QueuesOK, ProviderOK
<1>9. CASE UNCHANGED vars
  BY <1>1, <1>9 DEF vars, system, ingestion, checkpoints, QueuesOK
<1> QED
  BY <1>2, <1>3, <1>4, <1>5, <1>6, <1>7, <1>8, <1>9 DEF Next, Ingestion, Checkpointing

\* The event the ingestion worker dispatches next, and what is left then.
LEMMA TodoTyped ==
  ASSUME IngestOK, ingest.todo \in Seq(Forward), ingest # NoIngest
  PROVE  Head(ingest.todo) \in Forward /\ Remaining.todo \in Seq(Forward)
<1>1. ingest.todo # << >> /\ ingest \in [event : {ingest.event}, todo : {ingest.todo}]
  BY DEF IngestOK, IsIngest
<1> DEFINE rest == Tail(ingest.todo)
<1>2. Head(ingest.todo) \in Forward /\ rest \in Seq(Forward)
  BY <1>1
<1> HIDE DEF rest
<1>3. CASE Len(ingest.todo) = 1
  <2>1. Remaining.todo = << >>
    BY <1>3 DEF Remaining, NoIngest
  <2> QED
    BY <1>2, <2>1
<1>4. CASE Len(ingest.todo) # 1
  <2>1. Remaining = [ingest EXCEPT !.todo = rest]
    BY <1>4 DEF Remaining, rest
  <2>2. Remaining.todo = rest
    BY <1>1, <2>1
  <2> QED
    BY <1>2, <2>2
<1> QED
  BY <1>3, <1>4

\* What the checkpoint reactor is at work on.
LEMMA CaptureTyped ==
  ASSUME ThreadOK(thread), runtimeQueue \in Seq(Ended), domainQueue \in Seq(WellFormed),
         CaptureCompletedTurn \/ HandleDomainEvent
  PROVE  CaptureOK(capture')
<1>1. CASE CaptureCompletedTurn
  <2> DEFINE e == Head(runtimeQueue)
             status == CASE e.state = "failed" -> "error"
                         [] e.state = "interrupted" -> "missing"
                         [] e.state = "completed" -> "ready"
             n == CompletionCount(e.turn)
  <2>1. e \in Ended
    BY <1>1 DEF CaptureCompletedTurn
  <2>2. e.turn \in Turns /\ e.state \in {"completed", "failed", "interrupted"}
    BY <2>1 DEF Ended, Told, TurnEndings
  <2>3. status \in CheckpointStatuses
    BY <2>2 DEF CheckpointStatuses
  <2>4. n \in Nat \ {0}
    BY CountTyped DEF CompletionCount
  <2>5. capture' = CaptureJob(e.turn, n, status) \/ capture' = NoCapture
    BY <1>1 DEF CaptureCompletedTurn
  <2> HIDE DEF e, status, n
  <2> QED
    BY <2>2, <2>3, <2>4, <2>5 DEF CaptureOK
<1>2. CASE HandleDomainEvent
  <2> DEFINE e == Head(domainQueue)
  <2>1. e \in WellFormed
    BY <1>2 DEF HandleDomainEvent
  <2>2. /\ e.count \in Nat
        /\ e.type = "turn-diff-completed" => e.turn \in Turns /\ e.count \in Nat \ {0}
    BY <2>1 DEF WellFormed, EventOK, Events
  <2>3. \/ e.type = "turn-diff-completed" /\ capture' = CaptureJob(e.turn, e.count, "ready")
        \/ capture' = [NoCapture EXCEPT !.step = "revert", !.count = e.count]
        \/ capture' = NoCapture
    BY <1>2 DEF HandleDomainEvent
  <2> HIDE DEF e
  <2>4. "ready" \in CheckpointStatuses
    BY DEF CheckpointStatuses
  <2> QED
    BY <2>2, <2>3, <2>4 DEF CaptureOK
<1> QED
  BY <1>1, <1>2

\* What a capture or revert ends with.
LEMMA FinishTyped ==
  ASSUME CaptureOK(capture), FinishCapture
  PROVE  \E e \in WellFormed :
           Dispatch(e) /\ (e.type = "reverted" => capture.step = "revert")
<1>1. CASE \E t \in Turns, n \in Nat \ {0}, s \in CheckpointStatuses : capture = CaptureJob(t, n, s)
  <2>1. PICK t \in Turns, n \in Nat \ {0}, s \in CheckpointStatuses : capture = CaptureJob(t, n, s)
    BY <1>1
  <2>2. Dispatch(DiffCompleted(t, n, s))
    BY <2>1 DEF FinishCapture, CaptureJob
  <2>3. DiffCompleted(t, n, s) \in Forward
    BY MadeOf
  <2> QED
    BY <2>2, <2>3 DEF Forward
<1>2. CASE \E n \in Nat : capture = [NoCapture EXCEPT !.step = "revert", !.count = n]
  <2>1. PICK n \in Nat : capture = [NoCapture EXCEPT !.step = "revert", !.count = n]
    BY <1>2
  <2>2. capture.step = "revert" /\ capture.count = n
    BY <2>1 DEF NoCapture
  <2>3. Dispatch(Reverted(n))
    BY <2>2 DEF FinishCapture
  <2>4. Reverted(n) \in WellFormed
    BY MadeOf
  <2> QED
    BY <2>2, <2>3, <2>4
<1>3. capture # NoCapture
  BY DEF FinishCapture
<1> QED
  BY <1>1, <1>2, <1>3 DEF CaptureOK

\* Which event a step dispatches: only the checkpoint reactor reverts.
LEMMA StepDispatches ==
  ASSUME TInv, IngestOK, [Next]_vars
  PROVE  \/ /\ UNCHANGED projections
            /\ \/ UNCHANGED domainQueue
               \/ domainQueue # << >> /\ domainQueue' = Tail(domainQueue)
         \/ \E e \in WellFormed :
              Dispatch(e) /\ (e.type = "reverted" => FinishCapture /\ capture.step = "revert")
         \/ Restart
<1> DEFINE Silent == UNCHANGED projections /\ UNCHANGED domainQueue
           Says == \E e \in WellFormed :
                     Dispatch(e) /\ (e.type = "reverted" => FinishCapture /\ capture.step = "revert")
<1>0. ASSUME NEW e \in Forward, Dispatch(e)
      PROVE  Says
  BY <1>0 DEF Forward
<1>1. CASE Users
  <2>1. CASE RequestTurn
    <3>1. TurnStartRequested \in Forward
      BY MadeOf
    <3> QED
      BY <1>0, <2>1, <3>1 DEF RequestTurn
  <2>2. CASE Interrupt
    <3>1. PICK t \in {NoTurn, thread.turn} : Dispatch(TurnInterruptRequested(t))
      BY <2>2 DEF Interrupt
    <3>2. TurnInterruptRequested(t) \in Forward
      BY MadeOf DEF TInv, ThreadOK
    <3> QED
      BY <1>0, <3>1, <3>2
  <2>3. CASE RequestStop \/ SetRuntimeMode
    BY <2>3 DEF RequestStop, SetRuntimeMode, checkpoints
  <2>4. CASE \E n \in Turns \cup {0} : RequestRevert(n)
    <3>1. PICK n \in Turns \cup {0} : Dispatch(RevertRequested(n))
      BY <2>4 DEF RequestRevert
    <3>2. n \in Nat
      BY TurnsAssumption
    <3>3. RevertRequested(n) \in Forward
      BY <3>2, MadeOf
    <3> QED
      BY <1>0, <3>1, <3>3
  <2> QED
    BY <1>1, <2>1, <2>2, <2>3, <2>4 DEF Users
<1>2. CASE Provider
  BY <1>2 DEF Provider, TurnEnds, TurnAborts, Reports, SessionStateChanges, SessionExits,
              ReplacedSessionExits, RuntimeError, Emit, projections
<1>3. CASE IngestBegin
  BY <1>3 DEF IngestBegin, checkpoints
<1>4. CASE IngestDispatch
  <2>1. ingest # NoIngest /\ Dispatch(Head(ingest.todo))
    BY <1>4 DEF IngestDispatch
  <2>2. Head(ingest.todo) \in Forward
    BY <2>1, TodoTyped DEF TInv, WorkersOK
  <2> QED
    BY <1>0, <2>1, <2>2
<1>5. CASE CaptureCompletedTurn \/ HandleDomainEvent
  BY <1>5 DEF CaptureCompletedTurn, HandleDomainEvent
<1>6. CASE FinishCapture
  BY <1>6, FinishTyped DEF TInv, WorkersOK
<1>7. CASE Commanding
  <2>1. Silent \/ \E s \in {"ready", "stopped"} : Dispatch(SessionSet(s, NoTurn))
    BY <1>7 DEF Commanding, TakeCommand, StartSession, BindSession, SendTurn, SendRefused,
                StopSession, UnbindSession, Emit, checkpoints
  <2>2. \A s \in {"ready", "stopped"} : SessionSet(s, NoTurn) \in Forward
    BY MadeOf DEF Statuses, SettledStatuses
  <2> QED
    BY <1>0, <2>1, <2>2
<1>8. CASE Failures
  BY <1>8 DEF Failures, IngestFails, CaptureFails, CommandFails, checkpoints
<1>9. CASE UNCHANGED vars
  BY <1>9 DEF vars, system, checkpoints
<1> QED
  BY <1>1, <1>2, <1>3, <1>4, <1>5, <1>6, <1>7, <1>8, <1>9 DEF Next, Ingestion, Checkpointing

\* The events yet to be dispatched, and the turns something is kept for.
LEMMA IngestTyped ==
  ASSUME TInv, IngestOK, [Next]_vars
  PROVE  ingest'.todo \in Seq(Forward) /\ open' \subseteq Turns /\ changed' \subseteq Turns
<1>0. /\ ThreadOK(thread) /\ ingestQueue \in Seq(Told) /\ ingest.todo \in Seq(Forward)
      /\ open \subseteq Turns /\ changed \subseteq Turns
  BY DEF TInv, WorkersOK
<1>1. NoIngest.todo \in Seq(Forward)
  BY DEF NoIngest
<1>2. CASE IngestBegin
  <2> DEFINE e == Head(ingestQueue)
  <2>1. e \in Told
    BY <1>0, <1>2 DEF IngestBegin
  <2>2. e.type \in {"content.delta", "item.completed", "turn.diff.updated"} => e.turn \in Turns
    BY <2>1 DEF Told
  <2>3. open' = OpenOn(e) /\ changed' = ChangedOn(e)
    BY <1>2 DEF IngestBegin
  <2>4. PICK spills, gateFails :
          LET todo == Outcome(e, spills, gateFails)
          IN ingest' = IF todo = << >> THEN NoIngest ELSE [event |-> e, todo |-> todo]
    BY <1>2 DEF IngestBegin
  <2> DEFINE todo == Outcome(e, spills, gateFails)
  <2>5. todo \in Seq(Forward)
    BY <1>0, <2>1, OutcomeTyped
  <2> HIDE DEF todo
  <2>6. ingest'.todo \in Seq(Forward)
    BY <1>1, <2>4, <2>5 DEF todo
  <2> HIDE DEF e
  <2>7. open' \subseteq Turns
    BY <1>0, <2>2, <2>3 DEF OpenOn
  <2>8. changed' \subseteq Turns
    BY <1>0, <2>2, <2>3 DEF ChangedOn
  <2> QED
    BY <2>6, <2>7, <2>8
<1>3. CASE IngestDispatch
  <2>1. ingest # NoIngest /\ ingest' = Remaining /\ open' \subseteq open /\ changed' \subseteq changed
    BY <1>3 DEF IngestDispatch
  <2> QED
    BY <1>0, <2>1, TodoTyped
<1>4. CASE Restart
  BY <1>1, <1>4 DEF Restart
<1>5. CASE ~IngestBegin /\ ~IngestDispatch /\ ~Restart
  <2>1. UNCHANGED <<open, changed>>
    BY <1>5 DEF Next, Ingestion, Users, RequestTurn, Interrupt, RequestStop, SetRuntimeMode,
                RequestRevert, Provider, TurnEnds, TurnAborts, Reports, SessionStateChanges,
                SessionExits, ReplacedSessionExits, RuntimeError, Emit, Checkpointing,
                CaptureCompletedTurn, HandleDomainEvent, FinishCapture, Commanding, TakeCommand,
                StartSession, BindSession, SendTurn, SendRefused, StopSession, UnbindSession,
                Failures, IngestFails, CaptureFails, CommandFails, ingestion, vars, system
  <2> QED
    BY <1>0, <1>1, <1>5, <2>1, IngestSteps
<1> QED
  BY <1>2, <1>3, <1>4, <1>5

\* What the checkpoint reactor is at work on, whatever is done.
LEMMA CaptureNext ==
  ASSUME TInv, [Next]_vars
  PROVE  CaptureOK(capture)'
<1>0. /\ ThreadOK(thread) /\ runtimeQueue \in Seq(Ended) /\ domainQueue \in Seq(WellFormed)
      /\ CaptureOK(capture)
  BY DEF TInv, WorkersOK
<1>1. CaptureOK(capture)' <=> CaptureOK(capture')
  BY DEF CaptureOK
<1>2. CaptureOK(NoCapture)
  BY DEF CaptureOK
<1>3. \/ UNCHANGED capture \/ capture' = NoCapture
      \/ CaptureCompletedTurn \/ HandleDomainEvent
  <2>1. CASE Users
    BY <2>1 DEF Users, RequestTurn, Interrupt, RequestStop, SetRuntimeMode, RequestRevert, checkpoints
  <2>2. CASE Provider
    BY <2>2 DEF Provider, TurnEnds, TurnAborts, Reports, SessionStateChanges, SessionExits,
                ReplacedSessionExits, RuntimeError, Emit
  <2>3. CASE Ingestion
    BY <2>3 DEF Ingestion, IngestBegin, IngestDispatch, checkpoints
  <2>4. CASE Checkpointing
    BY <2>4 DEF Checkpointing, FinishCapture
  <2>5. CASE Commanding
    BY <2>5 DEF Commanding, TakeCommand, StartSession, BindSession, SendTurn, SendRefused,
                StopSession, UnbindSession, Emit, checkpoints
  <2>6. CASE Failures
    BY <2>6 DEF Failures, IngestFails, CaptureFails, CommandFails, checkpoints
  <2>7. CASE Restart
    BY <2>7 DEF Restart
  <2>8. CASE UNCHANGED vars
    BY <2>8 DEF vars, system, checkpoints
  <2> QED
    BY <2>1, <2>2, <2>3, <2>4, <2>5, <2>6, <2>7, <2>8 DEF Next
<1>4. CASE UNCHANGED capture \/ capture' = NoCapture
  BY <1>0, <1>1, <1>2, <1>4
<1>5. CASE CaptureCompletedTurn \/ HandleDomainEvent
  BY <1>0, <1>1, <1>5, CaptureTyped
<1> QED
  BY <1>3, <1>4, <1>5

LEMMA TInvInit == Init => TInv
<1> SUFFICES ASSUME Init PROVE TInv
  OBVIOUS
<1>1. ThreadOK(thread)
  <2>1. << >> \in Seq(Checkpoints) /\ Ordered(<< >>)
    BY DEF Ordered
  <2>2. thread = EmptyThread
    BY DEF Init
  <2> QED
    BY <2>1, <2>2 DEF EmptyThread, ThreadOK, Statuses
<1>2. TablesOK(tables)
  <2>1. << >> \in Seq(Turns) /\ IsInjective(<< >>) /\ Len(<< >>) = 0 /\ \A u : ~Has(<< >>, u)
    BY DEF IsInjective, Has
  <2>2. NoRow \in Rows /\ NoRow.state = "none" /\ NoRow.count = 0
    BY DEF NoRow, Rows
  <2> DEFINE rows == [t \in Turns |-> NoRow]
  <2>3. rows \in [Turns -> Rows] /\ \A t \in Turns : rows[t] = NoRow
    BY <2>2
  <2>4. tables = [status |-> "none", turn |-> NoTurn, order |-> << >>, pending |-> 0, row |-> rows]
    BY DEF Init, EmptyTables
  <2> HIDE DEF rows
  <2> QED
    BY <2>1, <2>2, <2>3, <2>4 DEF TablesOK, HasRow, Statuses
<1>3. CommandsOK
  <2>1. PICK budget \in Budgets : left = budget
    BY DEF Init
  <2>2. budget \in [BudgetKinds -> Nat] /\ "request" \in BudgetKinds
    BY <2>1, BudgetAssumption DEF BudgetKinds
  <2>3. commandQueue = << >> /\ command = << >> /\ begun = 0
    BY DEF Init
  <2>4. Asked(<< >>) = {} /\ ~Has(<< >>, "send")
    BY DEF Asked, Has
  <2>5. Cardinality(Asked(commandQueue)) = 0 /\ ToSend(command) = 0
    BY <2>3, <2>4, FS_EmptySet DEF ToSend
  <2>6. Numbered
    BY <2>1, <2>2, <2>3, <2>5 DEF Numbered
  <2>7. << >> \in Seq(Requests) /\ << >> \in Seq(CommandSteps)
    OBVIOUS
  <2> QED
    BY <2>1, <2>2, <2>3, <2>6, <2>7 DEF CommandsOK
<1>4. ProviderOK
  <2>1. session = FALSE /\ live = NoTurn /\ orphaned = {} /\ begun = 0
    BY DEF Init
  <2>2. NoTurn <= 0
    BY DEF NoTurn
  <2> QED
    BY <2>1, <2>2 DEF ProviderOK
<1>5. WorkersOK
  <2>1. << >> \in Seq(Told) /\ << >> \in Seq(Ended) /\ << >> \in Seq(WellFormed)
        /\ << >> \in Seq(Forward)
    OBVIOUS
  <2> QED
    BY <2>1 DEF Init, WorkersOK, CaptureOK, NoIngest
<1> QED
  BY <1>1, <1>2, <1>3, <1>4, <1>5 DEF TInv, Init

\* Every step keeps the types, also the restart: the tables are read back in order.
LEMMA TInvNext == DInv /\ TInv /\ [Next]_vars => TInv'
<1> SUFFICES ASSUME DInv, TInv, [Next]_vars PROVE TInv'
  OBVIOUS
<1>0. /\ IngestOK /\ Distinct(tables.row) /\ ThreadOK(thread) /\ TablesOK(tables)
      /\ domainQueue \in Seq(WellFormed)
  BY DEF DInv, SInv, TInv, WorkersOK
<1>1. CommandsOK'
  BY CommandsNext DEF TInv
<1>2. ProviderOK' /\ ingestQueue' \in Seq(Told) /\ runtimeQueue' \in Seq(Ended)
  BY ProviderNext DEF TInv, WorkersOK, QueuesOK
<1>3. ThreadOK(thread') /\ TablesOK(tables') /\ domainQueue' \in Seq(WellFormed)
  <2>1. CASE /\ UNCHANGED projections
             /\ \/ UNCHANGED domainQueue
                \/ domainQueue # << >> /\ domainQueue' = Tail(domainQueue)
    BY <1>0, <2>1 DEF projections
  <2>2. CASE \E e \in WellFormed : Dispatch(e)
    <3>1. PICK e \in WellFormed : Dispatch(e)
      BY <2>2
    <3>2. EventOK(e)
      BY DEF WellFormed
    <3>3. thread' = ProjectThread(thread, e) /\ tables' = ProjectTables(tables, e)
          /\ (domainQueue' = domainQueue \/ domainQueue' = Append(domainQueue, e))
      BY <3>1 DEF Dispatch, Project
    <3>4. ThreadOK(ProjectThread(thread, e)) /\ TablesOK(ProjectTables(tables, e))
      BY <1>0, <3>2, ThreadTyped, TablesTyped
    <3>5. domainQueue' \in Seq(WellFormed)
      BY <1>0, <3>3
    <3> QED
      BY <3>3, <3>4, <3>5
  <2>3. CASE Restart
    <3>1. thread' = Snapshot(tables) /\ tables' = tables /\ domainQueue' = << >>
      BY <2>3 DEF Restart
    <3>2. ThreadOK(Snapshot(tables))
      BY <1>0, SnapshotTyped DEF Distinct
    <3>3. << >> \in Seq(WellFormed)
      OBVIOUS
    <3> QED
      BY <1>0, <3>1, <3>2, <3>3
  <2> QED
    BY <1>0, <2>1, <2>2, <2>3, StepDispatches
<1>4. ThreadOK(thread)' /\ TablesOK(tables)'
  <2>1. ThreadOK(thread)' <=> ThreadOK(thread')
    BY DEF ThreadOK
  <2>2. TablesOK(tables)' <=> TablesOK(tables')
    BY DEF TablesOK
  <2> QED
    BY <1>3, <2>1, <2>2
<1>5. WorkersOK'
  <2>1. ingest'.todo \in Seq(Forward) /\ open' \subseteq Turns /\ changed' \subseteq Turns
    BY <1>0, IngestTyped
  <2>2. CaptureOK(capture)'
    BY CaptureNext
  <2> QED
    BY <1>2, <1>3, <2>1, <2>2 DEF WorkersOK
<1>6. faults' \subseteq {"gave up", "restarted"}
  BY DEF TInv, Next, vars
<1> QED
  BY <1>1, <1>2, <1>4, <1>5, <1>6 DEF TInv

\* The variables keep their types; the read model has at most one checkpoint of a
\* turn and keeps them in the order of their turn counts, also after a restart.
THEOREM TypeCorrect == Spec => []TypeOK
<1>1. ASSUME DInv, TInv
      PROVE  TypeOK
  <2>1. /\ thread \in [status : Statuses, turn : Turns \cup {NoTurn}, latest : Latests \cup {NoLatest},
                       checkpoints : Seq(Checkpoints)]
        /\ Ordered(thread.checkpoints)
    BY <1>1 DEF TInv, ThreadOK
  <2>2. /\ tables.status \in Statuses /\ tables.turn \in Turns \cup {NoTurn}
        /\ IsInjective(tables.order)
        /\ \A t \in Turns : HasRow(tables, t) <=> Has(tables.order, t)
    BY <1>1 DEF TInv, TablesOK
  <2>3. ingestQueue \in Seq(RuntimeEvents) /\ runtimeQueue \in Seq(RuntimeEvents)
    <3>1. Told \subseteq RuntimeEvents /\ Ended \subseteq RuntimeEvents
      BY DEF Told, Ended
    <3>2. ingestQueue \in Seq(Told) /\ runtimeQueue \in Seq(Ended)
      BY <1>1 DEF TInv, WorkersOK
    <3> QED
      BY <3>1, <3>2
  <2>4. ingest.todo \in Seq(Events) /\ domainQueue \in Seq(Events)
    <3>1. Forward \subseteq Events /\ WellFormed \subseteq Events
      BY DEF Forward, WellFormed
    <3>2. ingest.todo \in Seq(Forward) /\ domainQueue \in Seq(WellFormed)
      BY <1>1 DEF TInv, WorkersOK
    <3> QED
      BY <3>1, <3>2
  <2>5. ingest # NoIngest => ingest.todo # << >>
    BY <1>1 DEF DInv, IngestOK
  <2>6. capture.step \in {"idle", "capture", "revert"}
    <3>1. NoCapture.step = "idle" /\ \A n : [NoCapture EXCEPT !.step = "revert", !.count = n].step = "revert"
      BY DEF NoCapture
    <3>2. \A t, n, s : CaptureJob(t, n, s).step = "capture"
      BY DEF CaptureJob
    <3>3. CaptureOK(capture)
      BY <1>1 DEF TInv, WorkersOK
    <3>4. CASE capture = NoCapture
      BY <3>1, <3>4
    <3>5. CASE \E t \in Turns, n \in Nat \ {0}, s \in CheckpointStatuses : capture = CaptureJob(t, n, s)
      BY <3>2, <3>5
    <3>6. CASE \E n \in Nat : capture = [NoCapture EXCEPT !.step = "revert", !.count = n]
      <4>1. capture.step = "revert"
        BY <3>1, <3>6
      <4> QED
        BY <4>1
    <3> QED
      BY <3>3, <3>4, <3>5, <3>6 DEF CaptureOK
  <2>7. session \in BOOLEAN /\ live \in Turns \cup {NoTurn} /\ orphaned \subseteq Turns \ {live}
        /\ open \subseteq Turns /\ changed \subseteq Turns /\ faults \subseteq {"gave up", "restarted"}
    BY <1>1 DEF TInv, ProviderOK, WorkersOK
  <2> QED
    BY <2>1, <2>2, <2>3, <2>4, <2>5, <2>6, <2>7 DEF TypeOK, Ordered, Has
<1> QED
  BY DInvInit, DInvNext, TInvInit, TInvNext, <1>1, PTL DEF Spec

\* In the read model a captured checkpoint is only undone by a revert, until the
\* server restarts and reads the tables: no placeholder, however late it comes,
\* takes its place.
THEOREM RealCheckpointCorrect == Spec => RealCheckpointStays
<1> DEFINE Kept == \A t \in Turns :
                     HasRealCheckpoint(thread, t) /\ ~HasRealCheckpoint(thread', t)
                       => (FinishCapture /\ capture.step = "revert") \/ Restart
<1>1. ASSUME DInv, TInv, [Next]_vars
      PROVE  Kept
  <2>1. CASE UNCHANGED projections
    BY <2>1 DEF projections
  <2>2. CASE \E e \in WellFormed :
               Dispatch(e) /\ (e.type = "reverted" => FinishCapture /\ capture.step = "revert")
    <3>1. PICK e \in WellFormed :
            Dispatch(e) /\ (e.type = "reverted" => FinishCapture /\ capture.step = "revert")
      BY <2>2
    <3>2. thread' = ProjectThread(thread, e) /\ EventOK(e) /\ ThreadOK(thread)
      BY <1>1, <3>1 DEF Dispatch, Project, WellFormed, TInv
    <3> QED
      BY <3>1, <3>2, RealStays
  <2> QED
    BY <1>1, <2>1, <2>2, StepDispatches DEF DInv
<1>2. DInv /\ TInv /\ [Next]_vars => [Kept]_vars
  BY <1>1
<1> QED
  BY DInvInit, DInvNext, TInvInit, TInvNext, <1>2, PTL DEF Spec, RealCheckpointStays
=============================================================================
