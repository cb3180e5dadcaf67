------------------------- MODULE OrchestrationEngine -------------------------
(***************************************************************************)
(* The orchestration engine (OrchestrationEngine.ts) over its SQLite       *)
(* store.  Fibers put commands into a bounded queue; one worker takes them *)
(* in turn, looks up the command's receipt, decides, writes events,        *)
(* projections and receipt in one transaction, replaces the in-memory read *)
(* model, publishes the events to the subscribers and answers the caller.  *)
(*                                                                         *)
(* Two kinds of subscribers share the bounded PubSub.  A reactor has a     *)
(* fiber that only hands events to an unbounded worker queue, and a worker *)
(* that may dispatch commands of its own while it handles one.  A client   *)
(* is a WebSocket stream, that comes, goes and reads at the pace of its    *)
(* peer's acknowledgements.                                                *)
(*                                                                         *)
(* Everything in memory is lost by a crash; the log, the receipts and the  *)
(* SQL projections are durable.  Each step of the worker is one action, so *)
(* fibers, subscribers and crashes interleave between any two of them.     *)
(***************************************************************************)
EXTENDS ProjectionTables

CONSTANTS
  Commands,         \* command identifiers
  CommandOf,        \* the command an identifier always stands for
  Callers,          \* fibers calling dispatch, each one call at a time
  Reactors,         \* ProviderCommandReactor, CheckpointReactor, ingestion
  Clients,          \* WebSocket streams of domain events
  PubSubCapacity,   \* 4096 in the source
  ReadLimit,        \* default limit of readFromSequence, 1000 in the source
  Nobody

\* The fibers that dispatch: a reactor's worker handles one event at a time.
Fibers == Callers \cup Reactors

ASSUME CapacitiesPositive ==
  /\ PubSubCapacity \in Nat \ {0}
  /\ ReadLimit \in Nat \ {0, 1}   \* no command has more than two events

\* An identifier stands for one command whoever dispatches it.
ASSUME CommandsTyped ==
  /\ CommandOf \in [Commands -> Command]
  /\ Nobody \notin Commands \cup Callers \cup Reactors

ASSUME ParticipantsDistinct ==
  Callers \cap Reactors = {} /\ Reactors \cap Clients = {}

VARIABLES
  log,          \* orchestration_events, a sequence number being an index
  receipts,     \* orchestration_command_receipts
  projection,   \* the SQL projections
  readModel,    \* the in-memory read model
  queue,        \* commandQueue and the offers suspended on it: [caller, cmd]
  pc,           \* where the worker is in processEnvelope; "down" after a crash
  envelope,     \* the envelope being processed
  start,        \* dispatchStartSequence
  toPublish,    \* sequences still to be published for this envelope
  outcome,      \* the exit of processEnvelope
  clients,      \* the clients whose stream is open
  inbox,        \* inbox[s]: published and not yet consumed by subscriber s
  backlog,      \* backlog[r]: events reactor r's worker has still to handle
  call,         \* call[k]: the command fiber k is waiting for
  \* history
  replies,      \* every answer given that settles its command for good
  booted,       \* the log's length when the engine last started
  published,    \* everything published since then
  missed        \* a reconcile after an unacknowledged commit has failed

durable == <<log, receipts, projection>>
worker == <<pc, envelope, start, toPublish, outcome>>
history == <<booted, published, missed>>
delivery == <<clients, inbox, backlog>>
vars == <<durable, readModel, queue, worker, delivery, call, replies, history>>

NoReceipt == [status |-> "none", sequence |-> 0]
NoEnvelope == [caller |-> Nobody, cmd |-> Nobody]
NoOutcome == [kind |-> "none", sequence |-> 0]
Success(n) == [kind |-> "success", sequence |-> n]
Failure(kind) == [kind |-> kind, sequence |-> 0]

Block == [c \in Commands |-> EventsOf(c, CommandOf[c])]

Subscribers == Reactors \cup Clients

\* A read model is a snapshotSequence and the state it stands for.
EmptyModel == [sequence |-> 0, state |-> EmptyState]

\* projectEvent on log[from + 1 .. from + n] in turn: each event also advances
\* snapshotSequence to its own sequence.
Fold(model, events, from) ==
  [sequence |-> IF events = << >> THEN model.sequence ELSE from + Len(events),
   state    |-> ProjectEvents(model.state, events)]

Init ==
  /\ log = << >>
  /\ receipts = [c \in Commands |-> NoReceipt]
  /\ projection = EmptyTables
  /\ readModel = EmptyModel
  /\ queue = << >>
  /\ pc = "idle"
  /\ envelope = NoEnvelope
  /\ start = 0
  /\ toPublish = << >>
  /\ outcome = NoOutcome
  /\ clients = {}
  /\ inbox = [s \in Subscribers |-> << >>]
  /\ backlog = [r \in Reactors |-> 0]
  /\ call = [k \in Fibers |-> Nobody]
  /\ replies = {}
  /\ booted = 0
  /\ published = << >>
  /\ missed = FALSE

-----------------------------------------------------------------------------
(* The fibers that dispatch, and the subscribers                           *)

\* dispatch: offer an envelope and wait for its Deferred.  An offer to a full
\* queue is suspended, and admitted in its turn: the offers that wait are the
\* end of the queue here.
Offer(k, c) ==
  /\ pc # "down"
  /\ call[k] = Nobody
  /\ queue' = Append(queue, [caller |-> k, cmd |-> c])
  /\ call' = [call EXCEPT ![k] = c]
  /\ UNCHANGED <<durable, readModel, worker, delivery, replies, history>>

\* A caller may dispatch an identifier it, or another caller, has dispatched
\* before.
Dispatch(k, c) == k \in Callers /\ Offer(k, c)

\* A reactor's worker dispatches while it handles an event.
React(r, c) == r \in Reactors /\ backlog[r] > 0 /\ Offer(r, c)

\* It is through with the event.
Handled(r) ==
  /\ call[r] = Nobody
  /\ backlog[r] > 0
  /\ backlog' = [backlog EXCEPT ![r] = @ - 1]
  /\ UNCHANGED <<durable, readModel, queue, worker, clients, inbox, call,
                 replies, history>>

\* Mutation: the fiber that takes the events also handles them, and takes none
\* while a dispatch of its own is under way.
Consume_Inline(r) ==
  /\ inbox[r] # << >>
  /\ call[r] = Nobody
  /\ inbox' = [inbox EXCEPT ![r] = Tail(@)]
  /\ backlog' = [backlog EXCEPT ![r] = @ + 1]
  /\ UNCHANGED <<durable, readModel, queue, worker, clients, call, replies,
                 history>>

\* A reactor's fiber enqueues its next event for the worker, whatever that is
\* doing.  (An event it filters out is one the worker does nothing about.)
Consume(r) ==
  /\ inbox[r] # << >>
  /\ inbox' = [inbox EXCEPT ![r] = Tail(@)]
  /\ backlog' = [backlog EXCEPT ![r] = @ + 1]
  /\ UNCHANGED <<durable, readModel, queue, worker, clients, call, replies,
                 history>>

\* A client opens its stream: a subscription that sees what is published from
\* now on.
Connect(s) ==
  /\ pc # "down"
  /\ s \notin clients
  /\ clients' = clients \cup {s}
  /\ UNCHANGED <<durable, readModel, queue, worker, inbox, backlog, call,
                 replies, history>>

\* The peer acknowledges, and the stream takes its next event.
Acknowledge(s) ==
  /\ s \in clients
  /\ inbox[s] # << >>
  /\ inbox' = [inbox EXCEPT ![s] = Tail(@)]
  /\ UNCHANGED <<durable, readModel, queue, worker, clients, backlog, call,
                 replies, history>>

\* The connection ends, and with it the subscription and what it held back.
Disconnect(s) ==
  /\ s \in clients
  /\ clients' = clients \ {s}
  /\ inbox' = [inbox EXCEPT ![s] = << >>]
  /\ UNCHANGED <<durable, readModel, queue, worker, backlog, call, replies,
                 history>>

-----------------------------------------------------------------------------
(* The worker                                                              *)

\* Queue.take, and the read of readModel.snapshotSequence.
Take ==
  /\ pc = "idle"
  /\ queue # << >>
  /\ envelope' = Head(queue)
  /\ queue' = Tail(queue)
  /\ start' = readModel.sequence
  /\ pc' = "lookup"
  /\ UNCHANGED <<durable, readModel, toPublish, outcome, delivery, call, replies,
                 history>>

\* Mutation: the receipt lookup is skipped.
Undecided_LookupSkipped(c) == TRUE

\* getByCommandId finds nothing.
Undecided(c) == receipts[c] = NoReceipt

\* A receipt is found: the stored verdict is the answer.
AnswerFromReceipt ==
  /\ pc = "lookup"
  /\ ~Undecided(envelope.cmd)
  /\ LET receipt == receipts[envelope.cmd] IN
     outcome' = IF receipt.status = "accepted" THEN Success(receipt.sequence)
                ELSE Failure("previouslyRejected")
  /\ pc' = "reply"
  /\ UNCHANGED <<durable, readModel, queue, envelope, start, toPublish, delivery,
                 call, replies, history>>

\* No receipt: decideOrchestrationCommand on the in-memory read model.
Decide ==
  /\ pc = "lookup"
  /\ Undecided(envelope.cmd)
  /\ IF Allowed(readModel.state, CommandOf[envelope.cmd])
     THEN pc' = "transaction" /\ UNCHANGED outcome
     ELSE pc' = "reconcile" /\ outcome' = Failure("invariant")
  /\ UNCHANGED <<durable, readModel, queue, envelope, start, toPublish, delivery,
                 call, replies, history>>

\* The receipt lookup, or anything inside the transaction, fails; a failure in
\* the transaction rolls back events, projections and receipt together.
StorageFails ==
  /\ pc \in {"lookup", "transaction"}
  /\ outcome' = Failure("storage")
  /\ pc' = "reconcile"
  /\ UNCHANGED <<durable, readModel, queue, envelope, start, toPublish, delivery,
                 call, replies, history>>

\* Mutation: the receipt names the command's first event.
LastSequence_First(events) == Len(log) + 1

\* lastSavedEvent.sequence
LastSequence(events) == Len(log) + Len(events)

\* The transaction's durable effect.
Committed ==
  LET events == Block[envelope.cmd] IN
  /\ log' = log \o events
  /\ projection' = RunPipeline(projection, events, Len(log))
  /\ receipts' = [receipts EXCEPT
       ![envelope.cmd] = [status |-> "accepted",
                          sequence |-> LastSequence(events)]]

Commit ==
  /\ pc = "transaction"
  /\ Committed
  /\ pc' = "apply"
  /\ UNCHANGED <<readModel, queue, envelope, start, toPublish, outcome, delivery,
                 call, replies, history>>

\* The commit is durable but reported as failed: the case
\* reconcileReadModelAfterDispatchFailure is there for.
CommitUnacknowledged ==
  /\ pc = "transaction"
  /\ Committed
  /\ outcome' = Failure("storage")
  /\ pc' = "reconcile"
  /\ UNCHANGED <<readModel, queue, envelope, start, toPublish, delivery, call,
                 replies, history>>

Sequences(from, to) == [i \in 1 .. to - from |-> from + i]

\* Mutation: only the first event of a command is projected in memory.
NextReadModel_FirstEventOnly(events) ==
  Fold(readModel, SubSeq(events, 1, 1), Len(log) - Len(events))

\* committedCommand.nextReadModel
NextReadModel(events) == Fold(readModel, events, Len(log) - Len(events))

\* readModel = committedCommand.nextReadModel, computed from the read model
\* the worker has had since it took the envelope.
ApplyCommitted ==
  /\ pc = "apply"
  /\ LET events == Block[envelope.cmd] IN
     /\ readModel' = NextReadModel(events)
     /\ toPublish' = Sequences(Len(log) - Len(events), Len(log))
  /\ outcome' = Success(Len(log))
  /\ pc' = "publish"
  /\ UNCHANGED <<durable, queue, envelope, start, delivery, call, replies,
                 history>>

Listening == Reactors \cup clients

\* PubSub.publish suspends while a subscriber is PubSubCapacity events behind.
Publish ==
  /\ pc = "publish"
  /\ toPublish # << >>
  /\ \A s \in Listening : Len(inbox[s]) < PubSubCapacity
  /\ inbox' = [s \in Subscribers |-> IF s \in Listening
                                     THEN Append(inbox[s], Head(toPublish))
                                     ELSE inbox[s]]
  /\ published' = Append(published, Head(toPublish))
  /\ toPublish' = Tail(toPublish)
  /\ UNCHANGED <<durable, readModel, queue, pc, envelope, start, outcome,
                 clients, backlog, call, replies, booted, missed>>

AfterPublish == IF outcome.kind = "invariant" THEN "reject" ELSE "reply"

\* Everything is published: a refused command is recorded before the reply.
PublishDone ==
  /\ pc = "publish"
  /\ toPublish = << >>
  /\ pc' = AfterPublish
  /\ UNCHANGED <<durable, readModel, queue, envelope, start, toPublish,
                 outcome, delivery, call, replies, history>>

\* The events read back: those past dispatchStartSequence, up to a limit.
ReconcileTo ==
  IF Len(log) - start <= ReadLimit THEN Len(log) ELSE start + ReadLimit

\* Mutation: the read model is left as it was.
ReconciledModel_Stale == readModel

ReconciledModel == Fold(readModel, SubSeq(log, start + 1, ReconcileTo), start)

\* Mutation: the events read back are not published.
ReconciledEvents_Silent == << >>

ReconciledEvents == Sequences(start, ReconcileTo)

\* Read the events persisted since the envelope was taken, project them onto
\* the read model and publish them.
Reconcile ==
  /\ pc = "reconcile"
  /\ readModel' = ReconciledModel
  /\ toPublish' = ReconciledEvents
  /\ pc' = "publish"
  /\ UNCHANGED <<durable, queue, envelope, start, outcome, delivery, call,
                 replies, history>>

\* The read fails: a warning is logged and the read model stays as it is.
ReconcileFails ==
  /\ pc = "reconcile"
  /\ pc' = "publish"
  /\ missed' = (missed \/ start < Len(log))
  /\ UNCHANGED <<durable, readModel, queue, envelope, start, toPublish,
                 outcome, delivery, call, replies, booted, published>>

\* The rejected receipt; a failure to write it is swallowed.
RecordRejection ==
  /\ pc = "reject"
  /\ \/ receipts' = [receipts EXCEPT ![envelope.cmd] =
            [status |-> "rejected", sequence |-> readModel.sequence]]
     \/ UNCHANGED receipts
  /\ pc' = "reply"
  /\ UNCHANGED <<log, projection, readModel, queue, envelope, start, toPublish,
                 outcome, delivery, call, replies, history>>

\* Deferred.succeed or Deferred.fail: either way dispatch returns.
Released(k) == [call EXCEPT ![k] = Nobody]

Reply ==
  /\ pc = "reply"
  /\ replies' = IF outcome.kind \in {"success", "previouslyRejected"}
                THEN replies \cup {[cmd |-> envelope.cmd, kind |-> outcome.kind,
                                    sequence |-> outcome.sequence]}
                ELSE replies
  /\ call' = Released(envelope.caller)
  /\ pc' = "idle"
  /\ envelope' = NoEnvelope
  /\ outcome' = NoOutcome
  /\ UNCHANGED <<durable, readModel, queue, start, toPublish, delivery, history>>

-----------------------------------------------------------------------------
(* The process dies, and starts again.                                     *)

\* An uncommitted transaction leaves nothing behind; the callers' connections
\* break, so they may dispatch the same identifier again after the restart.
Crash ==
  /\ pc # "down"
  /\ pc' = "down"
  /\ queue' = << >>
  /\ envelope' = NoEnvelope
  /\ toPublish' = << >>
  /\ outcome' = NoOutcome
  /\ start' = 0
  /\ readModel' = EmptyModel
  /\ clients' = {}
  /\ inbox' = [s \in Subscribers |-> << >>]
  /\ backlog' = [r \in Reactors |-> 0]
  /\ call' = [k \in Fibers |-> Nobody]
  /\ published' = << >>
  /\ UNCHANGED <<durable, replies, booted, missed>>

\* projectionPipeline.bootstrap finds the projections at the end of the log
\* (they are written by the transaction that appends), then getSnapshot.
Boot ==
  /\ pc = "down"
  /\ readModel' = Snapshot(projection)
  /\ booted' = Len(log)
  /\ pc' = "idle"
  /\ UNCHANGED <<durable, queue, envelope, start, toPublish, outcome, delivery,
                 call, replies, published, missed>>

-----------------------------------------------------------------------------

WorkerStep ==
  \/ Take \/ AnswerFromReceipt \/ Decide \/ StorageFails \/ Commit
  \/ CommitUnacknowledged \/ ApplyCommitted \/ Publish \/ PublishDone
  \/ Reconcile \/ ReconcileFails \/ RecordRejection \/ Reply

\* Fibers that dispatch, reactors and clients, around the worker.
OthersStep ==
  \/ \E k \in Callers, c \in Commands : Dispatch(k, c)
  \/ \E r \in Reactors, c \in Commands : React(r, c)
  \/ \E r \in Reactors : Consume(r) \/ Handled(r)
  \/ \E s \in Clients : Connect(s) \/ Acknowledge(s) \/ Disconnect(s)

Next == OthersStep \/ WorkerStep \/ Crash \/ Boot

\* The worker is a forever loop of a fiber nothing else interrupts; a reactor's
\* fiber only enqueues to an unbounded queue.  Nothing is required of what
\* depends on others: of the clients, of what a reactor's worker does with an
\* event, of callers, crashes and restarts.
Fairness == WF_vars(WorkerStep) /\ \A r \in Reactors : WF_vars(Consume(r))

Spec == Init /\ [][Next]_vars

FairSpec == Spec /\ Fairness

-----------------------------------------------------------------------------
(* Properties                                                              *)

Receipt == {NoReceipt} \cup [status : {"accepted", "rejected"}, sequence : Nat]

OutcomeKinds == {"success", "previouslyRejected", "invariant", "storage"}

Outcome == {NoOutcome} \cup [kind : OutcomeKinds, sequence : Nat]

Steps == {"down", "idle", "lookup", "transaction", "apply", "publish",
          "reconcile", "reject", "reply"}

Event == [type : EventKinds, cmd : Commands, project : Projects \cup {NoProject},
          thread : Threads \cup {NoThread}, arg : STRING]

Envelope == [caller : Fibers, cmd : Commands]

\* Type invariant; between commands the worker holds no envelope.
TypeOK ==
  /\ log \in Seq(Event)
  /\ receipts \in [Commands -> Receipt]
  /\ projection.sequence \in 0 .. Len(log)
  /\ readModel.sequence \in 0 .. Len(log)
  /\ queue \in Seq(Envelope)
  /\ pc \in Steps
  /\ envelope \in {NoEnvelope} \cup Envelope
  /\ envelope = NoEnvelope <=> pc \in {"idle", "down"}
  /\ start \in 0 .. Len(log)
  /\ pc = "apply" => Len(Block[envelope.cmd]) <= Len(log)
  /\ toPublish \in Seq(Nat)
  /\ outcome \in Outcome
  /\ clients \subseteq Clients
  /\ inbox \in [Subscribers -> Seq(Nat)]
  /\ backlog \in [Reactors -> Nat]
  /\ call \in [Fibers -> Commands \cup {Nobody}]
  /\ booted \in 0 .. Len(log)
  /\ published \in Seq(Nat)
  /\ missed \in BOOLEAN

\* What the worker is about to do or to answer agrees with the receipts: it
\* writes events or a rejection only for a command nobody has decided, and the
\* verdict it reports is the recorded one.
VerdictFollowsReceipt ==
  LET receipt == receipts[envelope.cmd] IN
  /\ pc = "transaction" => Undecided(envelope.cmd)
  /\ pc = "apply" => receipt = [status |-> "accepted", sequence |-> Len(log)]
  /\ pc \in {"down", "idle", "lookup", "transaction", "apply"} =>
       outcome = NoOutcome
  /\ pc = "reject" => outcome.kind = "invariant"
  /\ outcome.kind = "invariant" /\ pc # "reply" => Undecided(envelope.cmd)
  /\ outcome.kind = "success" =>
       receipt = [status |-> "accepted", sequence |-> outcome.sequence]
  /\ outcome.kind = "previouslyRejected" =>
       receipt.status = "rejected" /\ outcome.sequence = 0

\* Position i of the log lies in the block the receipt of its command names.
Owned(i) ==
  LET receipt == receipts[log[i].cmd] IN
  /\ receipt.status = "accepted"
  /\ receipt.sequence - Len(Block[log[i].cmd]) < i
  /\ i <= receipt.sequence

\* The events of an accepted command are in the log, all of them, once, in a
\* row ending at the receipt's sequence, and the log holds nothing else: not
\* after retries of the same identifier, rolled back transactions, commits
\* nobody acknowledged, or restarts.
ExactlyOnce ==
  /\ \A c \in Commands : receipts[c].status = "accepted" =>
       LET last == receipts[c].sequence
           len  == Len(Block[c])
       IN /\ last \in len .. Len(log)
          /\ \A i \in 1 .. len : log[last - len + i] = Block[c][i]
  /\ \A i \in DOMAIN log : Owned(i)

\* What getSnapshot would join from the tables is what projecting the whole log
\* in memory gives: the projectors of the tables, that keep sessions and plans
\* by thread whether there is a thread or not, agree with the in-memory
\* projector on every log the decider lets through.
SnapshotAgrees == ~missed => Snapshot(projection) = Fold(EmptyModel, log, 0)

\* The in-memory read model is the projection of a prefix of the log: of all
\* of it, except between a commit and the assignment or reconciliation that
\* follows it.  After a restart, when it was read from the tables, too.
ReadModelConsistent ==
  (pc # "down" /\ ~missed) =>
    /\ readModel = Fold(EmptyModel, SubSeq(log, 1, readModel.sequence), 0)
    /\ readModel.sequence = Len(log) \/ pc \in {"apply", "reconcile"}

\* Every command in the log was allowed by the state its predecessors left
\* behind: no command is ever decided on a stale read model.
HistoryIsLegal ==
  ~missed => \A c \in Commands : receipts[c].status = "accepted" =>
    Allowed(ProjectEvents(EmptyState,
                          SubSeq(log, 1, receipts[c].sequence - Len(Block[c]))),
            CommandOf[c])

\* What has been or is about to be published since the engine started is
\* exactly the log from there up to the read model, in order: no gap and no
\* repetition, whichever mix of successes and reconciliations it came from.
PublishedExactly ==
  (pc # "down" /\ ~missed) =>
    published \o toPublish = Sequences(booted, readModel.sequence)

\* The engine implements the ledger of verdicts: steps of the worker are
\* verdicts, answers or invisible.
Ledger == INSTANCE CommandLedger
ImplementsLedger == Ledger!Spec

\* No client stays away from its stream, with its share of the PubSub full,
\* for good: it acknowledges, or its connection ends.
ClientsKeepUp == \A s \in Clients : []<>(Len(inbox[s]) < PubSubCapacity)

\* Whoever is waiting for an answer gets one, or the engine crashes, as long
\* as the clients keep up: a full queue, a full PubSub, a failing store and
\* reactors that dispatch while there is more to be published only delay it.
EveryCallAnswered ==
  ClientsKeepUp => \A k \in Fibers : (call[k] # Nobody) ~> (call[k] = Nobody)

\* Whatever is committed while the engine is up reaches the subscribers,
\* unless the engine crashes or a reconciliation fails, again as long as the
\* clients keep up.
EveryCommitPublished ==
  ClientsKeepUp =>
    ((pc # "down" /\ Len(log) > booted + Len(published))
       ~> (pc = "down" \/ missed \/ Len(log) = booted + Len(published)))

=============================================================================
