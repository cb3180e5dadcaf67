---------------------------- MODULE TurnLifecycle ----------------------------
(***************************************************************************)
(* A thread's turns between the provider and the projections: the runtime  *)
(* events of the provider, the ingestion worker that turns them into       *)
(* commands (ProviderRuntimeIngestion.ts), the checkpoint reactor that     *)
(* captures what a turn left behind (CheckpointReactor.ts), and the        *)
(* command reactor that starts and stops sessions and turns                *)
(* (ProviderCommandReactor.ts).  Each of the three is one worker with its  *)
(* queues; it reads the read model once, when it takes an item, and may    *)
(* wait before each command it dispatches.                                 *)
(*                                                                         *)
(* A dispatch is one step: the engine commits and projects one command at  *)
(* a time and answers when both projections show it (OrchestrationEngine). *)
(* The provider is the environment.                                        *)
(***************************************************************************)
EXTENDS ThreadProjection

CONSTANTS
  Budgets     \* bounds: how often each of BudgetKinds may happen in a behaviour

BudgetKinds ==
  {"request", "mode", "model", "interrupt", "stop", "revert", "restart", "failure",
   "diff", "delta", "message", "state", "exit", "error", "gate"}

\* Turns are numbered as they begin, and each is asked for once.
ASSUME BudgetAssumption ==
  /\ Budgets \subseteq [BudgetKinds -> Nat]
  /\ \A budget \in Budgets : 1 .. budget["request"] \subseteq Turns

VARIABLES
  thread,         \* the thread in the engine's read model
  tables,         \* the thread in the projection tables
  session,        \* is there a provider session for the thread?
  live, orphaned, \* the turn it works on; those of sessions that were replaced
  begun,          \* how many turns were begun
  ingestQueue,    \* runtime events for the ingestion worker
  ingest,         \* the event it handles and the events it has yet to dispatch
  open, changed,  \* turns with an unfinished message, and with file changes
  runtimeQueue, domainQueue,    \* what the checkpoint reactor is to handle
  capture,        \* the capture or revert it is at work on
  commandQueue,   \* what the command reactor is to handle
  command,        \* what it has yet to do
  left,           \* what is left of the budget
  \* history
  faults          \* what went wrong: a handler gave up, the server was restarted

projections == <<thread, tables>>
provider == <<session, live, orphaned, begun>>
ingestion == <<ingestQueue, ingest, open, changed>>
checkpoints == <<runtimeQueue, domainQueue, capture>>
commands == <<commandQueue, command>>
system == <<projections, provider, ingestion, checkpoints, commands, left>>
vars == <<system, faults>>

Runtime(type, t, state) == [type |-> type, turn |-> t, state |-> state]
NoIngest == [event |-> Runtime("none", NoTurn, "none"), todo |-> << >>]
NoCapture == [step |-> "idle", turn |-> NoTurn, count |-> 0, status |-> "none"]

Init ==
  /\ thread = EmptyThread /\ tables = EmptyTables
  /\ session = FALSE /\ live = NoTurn /\ orphaned = {} /\ begun = 0
  /\ ingestQueue = << >> /\ ingest = NoIngest /\ open = {} /\ changed = {}
  /\ runtimeQueue = << >> /\ domainQueue = << >> /\ capture = NoCapture
  /\ commandQueue = << >> /\ command = << >>
  /\ left \in Budgets /\ faults = {}

Spend(kind) == left[kind] > 0 /\ left' = [left EXCEPT ![kind] = @ - 1]

\* The engine commits an event, projects it twice and publishes it.
Project(e) ==
  /\ thread' = ProjectThread(thread, e)
  /\ tables' = ProjectTables(tables, e)

ForCheckpoints == {"turn-diff-completed", "checkpoint-revert-requested"}

Dispatch(e) ==
  /\ Project(e)
  /\ domainQueue' = IF e.type \in ForCheckpoints THEN Append(domainQueue, e) ELSE domainQueue

-----------------------------------------------------------------------------
(* Users                                                                   *)

\* thread.turn.start: refused while the session is running.
RequestTurn ==
  /\ Spend("request")
  /\ thread.status # "running"
  /\ Dispatch(TurnStartRequested)
  /\ commandQueue' = Append(commandQueue, "turn-start-requested")
  /\ UNCHANGED <<provider, ingestion, runtimeQueue, capture, command>>

\* The provider is told to interrupt, and may: its turns abort at any time.  A
\* client need not name the turn.
Interrupt ==
  /\ Spend("interrupt")
  /\ \E t \in {NoTurn, thread.turn} : Dispatch(TurnInterruptRequested(t))
  /\ UNCHANGED <<provider, ingestion, runtimeQueue, capture, commands>>

\* thread.session.stop and thread.runtime-mode.set leave what is kept of the thread.
RequestStop ==
  /\ Spend("stop")
  /\ commandQueue' = Append(commandQueue, "session-stop-requested")
  /\ UNCHANGED <<projections, provider, ingestion, checkpoints, command>>

SetRuntimeMode ==
  /\ Spend("mode")
  /\ commandQueue' = Append(commandQueue, "runtime-mode-set")
  /\ UNCHANGED <<projections, provider, ingestion, checkpoints, command>>

RequestRevert(n) ==
  /\ Spend("revert")
  /\ Dispatch(RevertRequested(n))
  /\ UNCHANGED <<provider, ingestion, runtimeQueue, capture, commands>>

-----------------------------------------------------------------------------
(* The provider (external).  A session is a process of its own: one that is  *)
(* replaced goes on with its turn, and its events are still the thread's.    *)

Working == orphaned \cup ({live} \ {NoTurn})

\* Every subscriber of the provider's events gets all of them.
Emit(events) ==
  /\ ingestQueue' = ingestQueue \o events
  /\ runtimeQueue' = runtimeQueue \o Filter(events, {e \in ToSet(events) : e.type = "turn.completed"})
  /\ UNCHANGED <<projections, ingest, open, changed, domainQueue, capture>>

SessionReady ==
  <<Runtime("session.started", NoTurn, "none"), Runtime("session.state.changed", NoTurn, "ready")>>
SessionExited == <<Runtime("session.exited", NoTurn, "none")>>

Ends(t) ==
  /\ t \in Working
  /\ live' = IF t = live THEN NoTurn ELSE live
  /\ orphaned' = orphaned \ {t}
  /\ UNCHANGED <<session, begun, commands, left>>

TurnEnds ==
  \E t \in Working, state \in {"completed", "failed", "interrupted"} :
    /\ Emit(<<Runtime("turn.completed", t, state)>>)
    /\ Ends(t)

TurnAborts ==
  \E t \in Working :
    /\ Emit(<<Runtime("turn.aborted", t, "none")>>)
    /\ Ends(t)

\* What a provider reports of a turn it works on.
Reports ==
  \E kind \in {"diff", "delta", "message"}, t \in Working :
    /\ Spend(kind)
    /\ Emit(<<Runtime(CASE kind = "diff" -> "turn.diff.updated"
                        [] kind = "delta" -> "content.delta"
                        [] kind = "message" -> "item.completed", t, "none")>>)
    /\ UNCHANGED <<provider, commands>>

\* A session only waits while it works on a turn.
SessionStateChanges ==
  /\ Spend("state")
  /\ session
  /\ \E state \in {"starting", "ready", "error"} \cup IF live = NoTurn THEN {} ELSE {"waiting"} :
       Emit(<<Runtime("session.state.changed", NoTurn, state)>>)
  /\ UNCHANGED <<provider, commands>>

\* The process ends, and its turn is never heard of again.
SessionExits ==
  /\ Spend("exit")
  /\ session
  /\ Emit(SessionExited)
  /\ session' = FALSE /\ live' = NoTurn
  /\ UNCHANGED <<orphaned, begun, commands>>

\* A replaced process that ends takes the thread's entry with it, whose session
\* it is not.
ReplacedSessionExits ==
  /\ Spend("exit")
  /\ \E t \in orphaned : orphaned' = (orphaned \ {t}) \cup ({live} \ {NoTurn})
  /\ Emit(SessionExited)
  /\ session' = FALSE /\ live' = NoTurn
  /\ UNCHANGED <<begun, commands>>

RuntimeError ==
  /\ Spend("error")
  /\ session
  /\ \E t \in {NoTurn, live} : Emit(<<Runtime("runtime.error", t, "none")>>)
  /\ UNCHANGED <<provider, commands>>

Provider ==
  \/ TurnEnds \/ TurnAborts \/ Reports
  \/ SessionStateChanges \/ SessionExits \/ ReplacedSessionExits \/ RuntimeError

-----------------------------------------------------------------------------
(* ProviderRuntimeIngestion                                                *)

\* Mutation: the end of any turn ends the active one.
OfActiveTurn_Any(e) == TRUE

OfActiveTurn(e) == thread.turn = NoTurn \/ thread.turn = e.turn

TurnEndings == {"turn.completed", "turn.aborted"}
ForLifecycle ==
  TurnEndings \cup {"session.started", "session.state.changed", "session.exited", "turn.started"}

\* Mutation: what names no turn is judged as the end of a turn is.
AppliesLifecycle_Strict(e) == e.type \in ForLifecycle /\ OfActiveTurn(e)

AppliesLifecycle(e) ==
  /\ e.type \in ForLifecycle
  /\ e.type \in TurnEndings \cup {"turn.started"} => OfActiveTurn(e)

LifecycleSession(e) ==
  CASE e.type = "turn.started" -> SessionSet("running", e.turn)
    [] e.type = "turn.completed" ->
         SessionSet(IF e.state = "failed" THEN "error" ELSE "ready", NoTurn)
    [] e.type = "turn.aborted" -> SessionSet("interrupted", NoTurn)
    [] e.type = "session.exited" -> SessionSet("stopped", NoTurn)
    [] e.type = "session.started" ->
         SessionSet(IF thread.turn # NoTurn THEN "running" ELSE "ready", thread.turn)
    [] e.type = "session.state.changed" ->
         SessionSet(IF e.state = "waiting" THEN "running" ELSE e.state,
                    IF e.state \in {"waiting", "starting"} THEN thread.turn ELSE NoTurn)

Finalized(t) == <<MessageDelta(t), MessageComplete(t)>>

\* A placeholder for the checkpoint of a turn that has none.
Placeholder(t) ==
  IF HasCheckpoint(thread, t) THEN << >>
  ELSE <<DiffCompleted(t, CurrentTurnCount(thread) + 1, "missing")>>

\* What is dispatched for an event, in this order.  Buffered text is flushed when
\* its turn ends; the quality gate runs after a turn with file changes.
Outcome(e, spills, gateFails) ==
  (IF AppliesLifecycle(e) THEN <<LifecycleSession(e)>> ELSE << >>)
    \o (IF e.type = "content.delta" /\ spills THEN <<MessageDelta(e.turn)>> ELSE << >>)
    \o (IF e.type = "item.completed" THEN Finalized(e.turn) ELSE << >>)
    \o (IF e.type \in TurnEndings /\ e.turn \in open THEN Finalized(e.turn) ELSE << >>)
    \o (IF gateFails THEN <<SessionSet("error", NoTurn)>> ELSE << >>)
    \o (IF e.type = "runtime.error" /\ (thread.turn = NoTurn \/ e.turn \in {NoTurn, thread.turn})
        THEN <<SessionSet("error", NoTurn)>> ELSE << >>)
    \o (IF e.type = "turn.diff.updated" THEN Placeholder(e.turn) ELSE << >>)

OpenOn(e) == IF e.type \in {"content.delta", "item.completed"} THEN open \cup {e.turn} ELSE open

ChangedOn(e) ==
  CASE e.type = "turn.diff.updated" -> changed \cup {e.turn}
    [] e.type = "turn.completed" -> changed \ {e.turn}
    [] OTHER -> changed

IngestBegin ==
  /\ ingest = NoIngest
  /\ ingestQueue # << >>
  /\ LET e == Head(ingestQueue)
         gate == e.type = "turn.completed" /\ e.turn \in changed
     IN /\ \E spills \in {FALSE, e.type = "content.delta"}, gateFails \in {FALSE, gate} :
             LET todo == Outcome(e, spills, gateFails)
             IN /\ ingest' = IF todo = << >> THEN NoIngest ELSE [event |-> e, todo |-> todo]
                /\ IF gateFails THEN Spend("gate") ELSE UNCHANGED left
        /\ open' = OpenOn(e)
        /\ changed' = ChangedOn(e)
  /\ ingestQueue' = Tail(ingestQueue)
  /\ UNCHANGED <<projections, provider, checkpoints, commands>>

Remaining == IF Len(ingest.todo) = 1 THEN NoIngest ELSE [ingest EXCEPT !.todo = Tail(@)]

\* What was kept for a turn is forgotten once its message is complete, and for
\* all turns after the session's end is recorded.
IngestDispatch ==
  /\ ingest # NoIngest
  /\ LET e == Head(ingest.todo)
         exited == ingest.event.type = "session.exited"
     IN /\ Dispatch(e)
        /\ open' = IF exited THEN {}
                   ELSE IF e.type = "message-complete" THEN open \ {e.turn} ELSE open
        /\ changed' = IF exited THEN {} ELSE changed
  /\ ingest' = Remaining
  /\ UNCHANGED <<provider, ingestQueue, runtimeQueue, capture, commands, left>>

\* A dispatch that fails ends the handler.
IngestFails ==
  /\ Spend("failure")
  /\ ingest # NoIngest
  /\ ingest' = NoIngest
  /\ UNCHANGED <<projections, provider, ingestQueue, open, changed, checkpoints, commands>>

-----------------------------------------------------------------------------
(* CheckpointReactor                                                       *)

\* Mutation: a turn that has a placeholder is taken to be captured.
Captured_PlaceholderToo(t) == HasCheckpoint(thread, t)

Captured(t) == HasRealCheckpoint(thread, t)

CaptureJob(t, n, status) == [step |-> "capture", turn |-> t, count |-> n, status |-> status]

\* The placeholder's turn count is used again.
CompletionCount(t) ==
  IF HasCheckpoint(thread, t) THEN CheckpointOf(thread, t)[1].count
  ELSE CurrentTurnCount(thread) + 1

CaptureCompletedTurn ==
  /\ capture = NoCapture
  /\ runtimeQueue # << >>
  /\ LET e == Head(runtimeQueue)
         status == CASE e.state = "failed" -> "error"
                     [] e.state = "interrupted" -> "missing"
                     [] e.state = "completed" -> "ready"
     IN capture' = IF OfActiveTurn(e) /\ ~Captured(e.turn)
                   THEN CaptureJob(e.turn, CompletionCount(e.turn), status)
                   ELSE NoCapture
  /\ runtimeQueue' = Tail(runtimeQueue)
  /\ UNCHANGED <<projections, provider, ingestion, domainQueue, commands, left>>

\* A revert is refused without a session, or when its checkpoint does not exist.
MayRevert(n) ==
  /\ session
  /\ n = 0 \/ \E i \in DOMAIN thread.checkpoints : thread.checkpoints[i].count = n

HandleDomainEvent ==
  /\ capture = NoCapture
  /\ domainQueue # << >>
  /\ LET e == Head(domainQueue)
     IN capture' =
          IF e.type = "turn-diff-completed" /\ e.status = "missing" /\ ~Captured(e.turn)
          THEN CaptureJob(e.turn, e.count, "ready")
          ELSE IF e.type = "checkpoint-revert-requested" /\ MayRevert(e.count)
          THEN [NoCapture EXCEPT !.step = "revert", !.count = e.count]
          ELSE NoCapture
  /\ domainQueue' = Tail(domainQueue)
  /\ UNCHANGED <<projections, provider, ingestion, runtimeQueue, commands, left>>

\* The ref is written, or the files are restored and the conversation rolled
\* back; then the command is dispatched.
FinishCapture ==
  /\ capture # NoCapture
  /\ Dispatch(IF capture.step = "capture"
              THEN DiffCompleted(capture.turn, capture.count, capture.status)
              ELSE Reverted(capture.count))
  /\ capture' = NoCapture
  /\ UNCHANGED <<provider, ingestion, runtimeQueue, commands, left>>

CaptureFails ==
  /\ Spend("failure")
  /\ capture # NoCapture
  /\ capture' = NoCapture
  /\ UNCHANGED <<projections, provider, ingestion, runtimeQueue, domainQueue, commands>>

-----------------------------------------------------------------------------
(* ProviderCommandReactor                                                  *)

HasSession == thread.status \notin {"none", "stopped"}

Restarted == <<"start", "bind">>

\* A session is replaced when its runtime mode or, for one provider, its model changed.
Work(request, otherModel) ==
  CASE request = "session-stop-requested" ->
         IF HasSession THEN <<"stop", "unbind">> ELSE <<"unbind">>
    [] request = "runtime-mode-set" -> IF HasSession THEN Restarted ELSE << >>
    [] request = "turn-start-requested" ->
         IF HasSession /\ ~otherModel THEN <<"send">> ELSE Restarted \o <<"send">>

TakeCommand ==
  /\ command = << >>
  /\ commandQueue # << >>
  /\ \/ command' = Work(Head(commandQueue), FALSE) /\ UNCHANGED left
     \/ command' = Work(Head(commandQueue), TRUE) /\ command' # Work(Head(commandQueue), FALSE)
        /\ Spend("model")
  /\ commandQueue' = Tail(commandQueue)
  /\ UNCHANGED <<projections, provider, ingestion, checkpoints>>

NextStep(step) == command # << >> /\ Head(command) = step
Done == command' = Tail(command) /\ UNCHANGED <<commandQueue, left>>

\* The new session takes the place of the old one, whose process is left alone.
StartSession ==
  /\ NextStep("start")
  /\ Emit(SessionReady)
  /\ session' = TRUE
  /\ live' = NoTurn /\ orphaned' = Working
  /\ UNCHANGED begun
  /\ Done

BindSession ==
  /\ NextStep("bind")
  /\ Dispatch(SessionSet("ready", NoTurn))
  /\ UNCHANGED <<provider, ingestion, runtimeQueue, capture>>
  /\ Done

\* A session that is gone is recovered first.
SendTurn ==
  /\ NextStep("send")
  /\ live = NoTurn
  /\ live' = begun + 1 /\ begun' = begun + 1 /\ session' = TRUE
  /\ Emit((IF session THEN << >> ELSE SessionReady)
            \o <<Runtime("turn.started", begun + 1, "none")>>)
  /\ UNCHANGED orphaned
  /\ Done

\* A provider takes no turn while it works on one.
SendRefused ==
  /\ NextStep("send")
  /\ live # NoTurn
  /\ UNCHANGED <<projections, provider, ingestion, checkpoints>>
  /\ Done

\* Some providers report the end of the turn they stop.
StopSession ==
  /\ NextStep("stop")
  /\ \E last \in {<< >>} \cup {<<Runtime("turn.completed", t, "interrupted")>> : t \in {live} \ {NoTurn}} :
       Emit(IF session THEN last \o SessionExited ELSE << >>)
  /\ session' = FALSE /\ live' = NoTurn
  /\ UNCHANGED <<orphaned, begun>>
  /\ Done

UnbindSession ==
  /\ NextStep("unbind")
  /\ Dispatch(SessionSet("stopped", NoTurn))
  /\ UNCHANGED <<provider, ingestion, runtimeQueue, capture>>
  /\ Done

\* A failure ends the handler.
CommandFails ==
  /\ Spend("failure")
  /\ command # << >>
  /\ command' = << >>
  /\ UNCHANGED <<projections, provider, ingestion, checkpoints, commandQueue>>

-----------------------------------------------------------------------------
(* Restart                                                                 *)

\* Everything but the tables is lost; the read model is read from a snapshot.
Restart ==
  /\ Spend("restart")
  /\ thread' = Snapshot(tables)
  /\ session' = FALSE /\ live' = NoTurn /\ orphaned' = {}
  /\ ingestQueue' = << >> /\ ingest' = NoIngest /\ open' = {} /\ changed' = {}
  /\ runtimeQueue' = << >> /\ domainQueue' = << >> /\ capture' = NoCapture
  /\ commandQueue' = << >> /\ command' = << >>
  /\ UNCHANGED <<tables, begun>>

-----------------------------------------------------------------------------

Users ==
  RequestTurn \/ Interrupt \/ RequestStop \/ SetRuntimeMode \/ \E n \in Turns \cup {0} : RequestRevert(n)

Ingestion == IngestBegin \/ IngestDispatch
Checkpointing == CaptureCompletedTurn \/ HandleDomainEvent \/ FinishCapture
Commanding ==
  \/ TakeCommand \/ StartSession \/ BindSession \/ SendTurn \/ SendRefused
  \/ StopSession \/ UnbindSession
Failures == IngestFails \/ CaptureFails \/ CommandFails

Next ==
  \/ Users /\ UNCHANGED faults
  \/ Provider /\ UNCHANGED faults
  \/ Ingestion /\ UNCHANGED faults
  \/ Checkpointing /\ UNCHANGED faults
  \/ Commanding /\ UNCHANGED faults
  \/ Failures /\ faults' = faults \cup {"gave up"}
  \/ Restart /\ faults' = faults \cup {"restarted"}

\* Each worker is a forever loop over its queue.
Fairness == WF_system(Ingestion) /\ WF_system(Checkpointing) /\ WF_system(Commanding)

Spec == Init /\ [][Next]_vars

FairSpec == Spec /\ Fairness

-----------------------------------------------------------------------------
(* Properties                                                              *)

EventTypes ==
  ForCheckpoints \cup {"turn-start-requested", "turn-interrupt-requested", "session-set",
                       "message-delta", "message-complete", "reverted"}
Events ==
  [type : EventTypes, turn : Turns \cup {NoTurn}, count : Nat,
   status : Statuses \cup CheckpointStatuses]
RuntimeEvents ==
  [type : ForLifecycle \cup {"content.delta", "item.completed", "turn.diff.updated", "runtime.error"},
   turn : Turns \cup {NoTurn},
   state : {"none", "completed", "failed", "interrupted", "starting", "ready", "error",
            "waiting"}]

Checkpoints == [turn : Turns, count : Nat \ {0}, status : CheckpointStatuses]
Latests == [turn : Turns, state : TurnStates, done : BOOLEAN]

\* The variables keep their types, and the read model has at most one checkpoint
\* of a turn and keeps them in the order of their turn counts.
TypeOK ==
  /\ thread.status \in Statuses /\ thread.turn \in Turns \cup {NoTurn}
  /\ thread.latest \in Latests \cup {NoLatest}
  /\ thread.checkpoints \in Seq(Checkpoints)
  /\ \A i, j \in DOMAIN thread.checkpoints :
       i < j => /\ thread.checkpoints[i].turn # thread.checkpoints[j].turn
                /\ thread.checkpoints[i].count <= thread.checkpoints[j].count
  /\ tables.status \in Statuses /\ tables.turn \in Turns \cup {NoTurn}
  /\ IsInjective(tables.order)
  /\ \A t \in Turns : HasRow(tables, t) <=> \E i \in DOMAIN tables.order : tables.order[i] = t
  /\ session \in BOOLEAN /\ live \in Turns \cup {NoTurn} /\ orphaned \subseteq Turns \ {live}
  /\ ingestQueue \in Seq(RuntimeEvents)
  /\ ingest.todo \in Seq(Events) /\ (ingest # NoIngest => ingest.todo # << >>)
  /\ open \subseteq Turns /\ changed \subseteq Turns
  /\ runtimeQueue \in Seq(RuntimeEvents) /\ domainQueue \in Seq(Events)
  /\ capture.step \in {"idle", "capture", "revert"}
  /\ faults \subseteq {"gave up", "restarted"}

\* Both projections tell the same of the thread's session: the read model, which
\* every guard and every worker reads, only leaves out the active turn that the
\* table keeps for a session that is not running.  A restart reads it back: then
\* a session that is starting has an active turn in the read model, too.
SessionsAgree ==
  /\ thread.status = tables.status
  /\ thread.turn # NoTurn =>
       /\ thread.turn = tables.turn
       /\ thread.status = "running" \/ "restarted" \in faults
  /\ tables.status = "running" => thread.turn = tables.turn

\* A thread whose session has settled has no latest turn that goes on, in
\* whichever order the ends of turns and sessions, errors and failed quality
\* gates are recorded, and also if handlers give up.  A restart takes the latest
\* turn from the tables, which ShownTurnSettles is about.
SettledSessionSettlesTurn ==
  "restarted" \notin faults /\ thread.status \in SettledStatuses => thread.latest.done

Quiescent ==
  /\ ingestQueue = << >> /\ ingest = NoIngest
  /\ runtimeQueue = << >> /\ domainQueue = << >> /\ capture = NoCapture
  /\ commandQueue = << >> /\ command = << >>

\* When everything is handled and no process works on a turn, the thread is not
\* shown as running: no end of a turn is dropped that another does not make up
\* for, though each is judged by a read model that may have moved on.
\* That is as long as no handler gave up and no restart emptied the queues: the
\* source then asks nobody again.
IdleIsNotRunning == faults = {} /\ Quiescent /\ Working = {} => thread.status # "running"

\* Only the end of the active turn takes it from the session: not the end of a
\* turn of a session that was replaced, and nothing else that is done at its end.
OnlyItsOwnEndSettles ==
  [][IngestDispatch /\ ingest.event.type \in TurnEndings /\ thread'.turn # thread.turn
       => ingest.event.turn = thread.turn]_vars

\* In the read model a captured checkpoint is only undone by a revert: no
\* placeholder, however late it comes, takes its place.  That is until a restart,
\* which reads the table, where it may have been overwritten.
RealCheckpointStays ==
  [][\A t \in Turns :
       HasRealCheckpoint(thread, t) /\ ~HasRealCheckpoint(thread', t)
         => (FinishCapture /\ capture.step = "revert") \/ Restart]_vars

\* No two turns of a thread have the same turn count in the table, where it is
\* unique, though the capture of one may be under way when the other's
\* placeholder takes the next count: the write never fails.
CountsDistinct ==
  \A t, u \in Turns : tables.row[t].count = tables.row[u].count /\ t # u => tables.row[t].count = 0

HasPlaceholder(t) == HasCheckpoint(thread, t) /\ ~HasRealCheckpoint(thread, t)

\* Every placeholder, also that of an interrupted turn, is replaced by a captured
\* checkpoint or gone with a revert: again and again no turn has one.
PlaceholderReplaced == []<>(\A t \in Turns : ~HasPlaceholder(t))

\* projector.ts:583 of a checkpoint that was captured, here of the table: a
\* placeholder does not overwrite it.
TableCheckpointStays ==
  [][\A t \in Turns :
       tables.row[t].checkpoint = "ready" => tables'.row[t].checkpoint # "missing"]_vars

\* README.md:156 of a thread as it is shown after a refresh: when everything is
\* handled and the session has settled, so has the latest turn.
ShownTurnSettles ==
  Quiescent /\ tables.status \in SettledStatuses => Snapshot(tables).latest.done

=============================================================================
