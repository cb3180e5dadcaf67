---------------------- MODULE OrchestrationEngineProofs ----------------------
(***************************************************************************)
(* Theorems about the orchestration engine, for every set of commands,     *)
(* fibers, reactors and clients and every capacity the assumptions allow.  *)
(***************************************************************************)
EXTENDS OrchestrationEngine, WellFoundedInduction, TLAPS

-----------------------------------------------------------------------------
(* The events of a command                                                 *)

\* Every command stands for one or two events, and each of them carries the
\* command's identifier (decider.ts, withEventBase).
LEMMA BlockOfCommand ==
  ASSUME NEW c \in Commands
  PROVE  /\ Block[c] \in Seq(Event)
         /\ Len(Block[c]) \in {1, 2} /\ Block[c] # << >>
         /\ \A i \in 1 .. Len(Block[c]) : Block[c][i].cmd = c
<1> DEFINE types == EventTypes(CommandOf[c])
<1>1. CommandOf[c] \in Command
  BY CommandsTyped
<1>2. EventType(CommandOf[c].type) \in EventKinds
  BY DEF EventType, EventKinds
<1>3. types \in Seq(EventKinds) /\ Len(types) \in {1, 2}
  <2>1. CASE CommandOf[c].type = "thread.turn.start"
    BY <2>1 DEF EventTypes, EventKinds
  <2>2. CASE CommandOf[c].type # "thread.turn.start"
    BY <2>2, <1>2 DEF EventTypes, EventKinds
  <2> QED  BY <2>1, <2>2
<1> HIDE DEF types
<1>4. DOMAIN types = 1 .. Len(types) /\ \A i \in DOMAIN types : types[i] \in EventKinds
  BY <1>3
<1>5. Block[c] = [i \in 1 .. Len(types) |->
         [type |-> types[i], cmd |-> c, project |-> CommandOf[c].project,
          thread |-> CommandOf[c].thread, arg |-> CommandOf[c].arg]]
  BY <1>4 DEF Block, EventsOf, types
<1>6. \A i \in 1 .. Len(types) :
         [type |-> types[i], cmd |-> c, project |-> CommandOf[c].project,
          thread |-> CommandOf[c].thread, arg |-> CommandOf[c].arg] \in Event
  BY <1>1, <1>4 DEF Event, Command
<1>7. Block[c] \in Seq(Event) /\ Len(Block[c]) = Len(types)
  BY <1>3, <1>5, <1>6
<1>8. Block[c] # << >>
  <2> DEFINE block == Block[c]
  <2>1. Len(block) # 0
    BY <1>3, <1>7
  <2> HIDE DEF block
  <2>2. block # << >>
    BY <2>1
  <2> QED  BY <2>2 DEF block
<1> QED
  BY <1>3, <1>5, <1>7, <1>8

\* The sequence of a folded read model (the state it stands for is left to
\* the model checker).
LEMMA FoldSequence ==
  ASSUME NEW model, NEW events, NEW from
  PROVE  Fold(model, events, from).sequence =
           IF events = << >> THEN model.sequence ELSE from + Len(events)
BY DEF Fold

\* The tables after one event, or two.
LEMMA PipelineOfBlock ==
  ASSUME NEW tables, NEW events, NEW from \in Nat, Len(events) \in {1, 2}
  PROVE  /\ RunPipeline(tables, events, from).sequence = from + Len(events)
         /\ Len(events) = 1 =>
              RunPipeline(tables, events, from)
                = RunProjectors(tables, events[1], from + 1)
         /\ Len(events) = 2 =>
              RunPipeline(tables, events, from)
                = RunProjectors(RunProjectors(tables, events[1], from + 1),
                                events[2], from + 2)
<1> DEFINE Running(f) ==
             f = [n \in 0 .. Len(events) |->
                    IF n = 0 THEN tables
                    ELSE RunProjectors(f[n - 1], events[n], from + n)]
           first == RunProjectors(tables, events[1], from + 1)
           second == RunProjectors(first, events[2], from + 2)
           f == [n \in 0 .. Len(events) |->
                   IF n = 0 THEN tables ELSE IF n = 1 THEN first ELSE second]
           g == CHOOSE h : Running(h)
<1>1. RunPipeline(tables, events, from) = g[Len(events)]
  BY DEF RunPipeline
<1>2. Running(f)
  <2>1. \A n \in 0 .. Len(events) : n = 0 \/ n = 1 \/ n = 2
    <3>1. CASE Len(events) = 1
      BY <3>1
    <3>2. CASE Len(events) = 2
      BY <3>2
    <3> QED
      BY <3>1, <3>2
  <2>2. ASSUME NEW n \in 0 .. Len(events)
        PROVE  f[n] = IF n = 0 THEN tables
                      ELSE RunProjectors(f[n - 1], events[n], from + n)
    <3>1. CASE n = 0
      BY <3>1
    <3>2. CASE n = 1
      <4>1. 0 \in 0 .. Len(events) /\ n - 1 = 0 /\ from + n = from + 1
        BY <3>2
      <4> QED
        BY <3>2, <4>1
    <3>3. CASE n = 2
      <4>1. 1 \in 0 .. Len(events) /\ n - 1 = 1 /\ from + n = from + 2
        BY <3>3
      <4> QED
        BY <3>3, <4>1
    <3> QED
      BY <2>1, <3>1, <3>2, <3>3
  <2>3. f = [n \in 0 .. Len(events) |-> f[n]]
    OBVIOUS
  <2> HIDE DEF f
  <2> QED
    BY <2>2, <2>3
<1> HIDE DEF f
<1>3. Running(g)
  BY <1>2
<1> HIDE DEF g
<1>4. g[0] = tables
  BY <1>3
<1>5. g[1] = first
  <2>1. 1 \in 0 .. Len(events) /\ 1 # 0 /\ 1 - 1 = 0
    OBVIOUS
  <2> QED
    BY <1>3, <1>4, <2>1
<1>6. Len(events) = 2 => g[2] = second
  <2> SUFFICES ASSUME Len(events) = 2
               PROVE  g[2] = second
    OBVIOUS
  <2>1. 2 \in 0 .. Len(events) /\ 2 # 0 /\ 2 - 1 = 1
    OBVIOUS
  <2> QED
    BY <1>3, <1>5, <2>1
<1>7. first.sequence = from + 1 /\ second.sequence = from + 2
  BY DEF RunProjectors
<1> HIDE DEF first, second
<1>8. CASE Len(events) = 1
  BY <1>1, <1>5, <1>7, <1>8 DEF first
<1>9. CASE Len(events) = 2
  BY <1>1, <1>6, <1>7, <1>9 DEF first, second
<1> QED
  BY <1>8, <1>9

-----------------------------------------------------------------------------
(* Type correctness                                                        *)

LEMMA NoEnvelopeIsNone == NoEnvelope \notin Envelope
BY CommandsTyped DEF NoEnvelope, Envelope

LEMMA TypeInit == Init => TypeOK
<1> SUFFICES ASSUME Init
             PROVE  TypeOK
  OBVIOUS
<1>1. /\ log \in Seq(Event) /\ Len(log) = 0
      /\ queue \in Seq(Envelope)
      /\ toPublish \in Seq(Nat) /\ published \in Seq(Nat)
      /\ clients \subseteq Clients
      /\ inbox \in [Subscribers -> Seq(Nat)]
      /\ backlog \in [Reactors -> Nat]
  BY DEF Init
<1>2. receipts \in [Commands -> Receipt]
  BY DEF Init, Receipt
<1>3. projection.sequence = 0 /\ readModel.sequence = 0
  BY DEF Init, EmptyModel, EmptyTables
<1>4. /\ pc \in Steps /\ envelope = NoEnvelope /\ pc = "idle"
      /\ outcome \in Outcome /\ call \in [Fibers -> Commands \cup {Nobody}]
      /\ start = 0 /\ booted = 0 /\ missed \in BOOLEAN
  BY DEF Init, Steps, Outcome
<1> QED
  BY <1>1, <1>2, <1>3, <1>4 DEF TypeOK

\* The worker is busy with an envelope exactly when it is neither idle nor
\* down.
LEMMA Busy ==
  ASSUME TypeOK, pc \notin {"idle", "down"}
  PROVE  envelope \in Envelope /\ envelope.cmd \in Commands
BY DEF TypeOK, Envelope

\* What the transaction adds to the durable state.
LEMMA CommittedType ==
  ASSUME TypeOK, pc = "transaction", Committed
  PROVE  /\ log' \in Seq(Event)
         /\ Len(log') = Len(log) + Len(Block[envelope.cmd])
         /\ receipts' \in [Commands -> Receipt]
         /\ projection'.sequence = Len(log')
<1> DEFINE events == Block[envelope.cmd]
<1>1. envelope.cmd \in Commands
  BY Busy
<1>2. events \in Seq(Event) /\ Len(events) \in {1, 2}
  BY <1>1, BlockOfCommand
<1>3. log' = log \o events /\ log \in Seq(Event)
  BY DEF Committed, TypeOK
<1>4. log' \in Seq(Event) /\ Len(log') = Len(log) + Len(events)
  BY <1>2, <1>3
<1>5. Len(log) \in Nat /\ LastSequence(events) \in Nat
  BY <1>2, <1>3 DEF LastSequence
<1>6. receipts' \in [Commands -> Receipt]
  BY <1>1, <1>5 DEF Committed, TypeOK, Receipt
<1>7. projection'.sequence = Len(log) + Len(events)
  <2>1. Len(log) \in Nat /\ projection' = RunPipeline(projection, events, Len(log))
    BY <1>3 DEF Committed
  <2> HIDE DEF events
  <2> QED
    BY <1>2, <2>1, PipelineOfBlock
<1> QED
  BY <1>2, <1>4, <1>5, <1>6, <1>7

\* A list of consecutive sequence numbers.
LEMMA SequencesType ==
  ASSUME NEW from \in Nat, NEW to \in Nat, from <= to
  PROVE  /\ Sequences(from, to) \in Seq(Nat)
         /\ Len(Sequences(from, to)) = to - from
         /\ \A i \in 1 .. to - from : Sequences(from, to)[i] = from + i
<1>1. \A i \in 1 .. to - from : from + i \in Nat
  OBVIOUS
<1>2. to - from \in Nat
  OBVIOUS
<1> QED
  BY <1>1, <1>2 DEF Sequences

\* How far a reconciliation gets, and the sequence it leaves.
LEMMA ReconciledType ==
  ASSUME TypeOK
  PROVE  /\ ReconcileTo \in start .. Len(log)
         /\ ReconciledModel.sequence =
              IF ReconcileTo = start THEN readModel.sequence ELSE ReconcileTo
<1>1. log \in Seq(Event) /\ start \in 0 .. Len(log) /\ Len(log) \in Nat
  BY DEF TypeOK
<1>2. ReconcileTo \in start .. Len(log)
  BY <1>1, CapacitiesPositive DEF ReconcileTo
<1> DEFINE read == SubSeq(log, start + 1, ReconcileTo)
<1>3. Len(read) = ReconcileTo - start /\ read \in Seq(Event)
  BY <1>1, <1>2
<1>4. ReconciledModel.sequence =
        IF read = << >> THEN readModel.sequence ELSE start + Len(read)
  BY FoldSequence DEF ReconciledModel
<1>5. read = << >> <=> ReconcileTo = start
  BY <1>1, <1>2, <1>3
<1> HIDE DEF read
<1> QED
  BY <1>1, <1>2, <1>3, <1>4, <1>5

\* Applying a committed command brings the read model to the end of the log.
LEMMA AppliedSequence ==
  ASSUME TypeOK, pc = "apply"
  PROVE  NextReadModel(Block[envelope.cmd]).sequence = Len(log)
<1> DEFINE events == Block[envelope.cmd]
<1>1. Len(events) \in {1, 2} /\ Len(log) \in Nat
  BY Busy, BlockOfCommand DEF TypeOK
<1>2. events # << >>
  BY Busy, BlockOfCommand
<1> HIDE DEF events
<1>3. Len(log) - Len(events) + Len(events) = Len(log)
  BY <1>1
<1>4. NextReadModel(events).sequence = Len(log)
  BY <1>2, <1>3, FoldSequence DEF NextReadModel
<1> QED
  BY <1>4 DEF events

\* What the fibers and the subscribers do around the worker leaves everything
\* but queue, deliveries and calls alone.
LEMMA OthersUnchanged ==
  ASSUME OthersStep
  PROVE  UNCHANGED <<durable, readModel, worker, replies, history,
                     log, receipts, projection, pc, envelope, start, toPublish,
                     outcome, booted, published, missed>>
BY DEF OthersStep, Dispatch, React, Offer, Consume, Handled, Connect,
       Acknowledge, Disconnect, durable, worker, history, delivery

LEMMA TypeOthers == TypeOK /\ OthersStep => TypeOK'
<1> SUFFICES ASSUME TypeOK, OthersStep
             PROVE  TypeOK'
  OBVIOUS
<1> USE DEF durable, worker, history, delivery
<1>1. ASSUME NEW k \in Fibers, NEW c \in Commands, Offer(k, c)
      PROVE  TypeOK'
  BY <1>1 DEF TypeOK, Offer, Envelope
<1>2. ASSUME NEW r \in Reactors, Consume(r)
      PROVE  TypeOK'
  BY <1>2 DEF TypeOK, Consume, Subscribers
<1>3. ASSUME NEW r \in Reactors, Handled(r)
      PROVE  TypeOK'
  <2>1. backlog' \in [Reactors -> Nat]
    BY <1>3 DEF TypeOK, Handled
  <2> QED
    BY <1>3, <2>1 DEF TypeOK, Handled
<1>4. ASSUME NEW s \in Clients, Connect(s)
      PROVE  TypeOK'
  BY <1>4 DEF TypeOK, Connect
<1>5. ASSUME NEW s \in Clients, Acknowledge(s)
      PROVE  TypeOK'
  BY <1>5 DEF TypeOK, Acknowledge, Subscribers
<1>6. ASSUME NEW s \in Clients, Disconnect(s)
      PROVE  TypeOK'
  BY <1>6 DEF TypeOK, Disconnect, Subscribers
<1> QED
  BY <1>1, <1>2, <1>3, <1>4, <1>5, <1>6 DEF OthersStep, Dispatch, React, Fibers

LEMMA TypeNext == TypeOK /\ [Next]_vars => TypeOK'
<1> SUFFICES ASSUME TypeOK, [Next]_vars
             PROVE  TypeOK'
  OBVIOUS
<1> USE DEF durable, worker, history, delivery
<1>1. CASE OthersStep
  BY <1>1, TypeOthers
<1>3. CASE Take
  <2>1. envelope' \in Envelope /\ queue' \in Seq(Envelope)
    BY <1>3 DEF TypeOK, Take
  <2> QED
    BY <1>3, <2>1, NoEnvelopeIsNone DEF TypeOK, Take, Steps
<1>4. CASE AnswerFromReceipt
  <2>1. receipts[envelope.cmd] \in Receipt
    BY <1>4, Busy DEF TypeOK, AnswerFromReceipt
  <2>2. outcome' \in Outcome
    BY <1>4, <2>1
       DEF AnswerFromReceipt, Outcome, OutcomeKinds, Success, Failure, Receipt,
           NoReceipt
  <2> QED
    BY <1>4, <2>2 DEF TypeOK, AnswerFromReceipt, Steps
<1>5. CASE Decide
  BY <1>5 DEF TypeOK, Decide, Outcome, OutcomeKinds, Failure, Steps
<1>6. CASE StorageFails
  BY <1>6 DEF TypeOK, StorageFails, Outcome, OutcomeKinds, Failure, Steps
<1>7. CASE Commit
  <2>1. /\ log' \in Seq(Event) /\ Len(log') \in Nat /\ Len(log) \in Nat
        /\ Len(log) <= Len(log') /\ Len(Block[envelope.cmd]) <= Len(log')
        /\ receipts' \in [Commands -> Receipt]
        /\ projection'.sequence = Len(log')
    <3>1. pc = "transaction" /\ Committed /\ envelope.cmd \in Commands
      BY <1>7, Busy DEF Commit
    <3>2. Len(Block[envelope.cmd]) \in {1, 2} /\ Len(log) \in Nat
      BY <3>1, BlockOfCommand DEF TypeOK
    <3> QED
      BY <3>1, <3>2, CommittedType
  <2> QED
    BY <1>7, <2>1 DEF TypeOK, Commit, Steps
<1>8. CASE CommitUnacknowledged
  <2>1. /\ log' \in Seq(Event) /\ Len(log') \in Nat /\ Len(log) \in Nat
        /\ Len(log) <= Len(log')
        /\ receipts' \in [Commands -> Receipt]
        /\ projection'.sequence = Len(log')
    BY <1>8, CommittedType, Busy, BlockOfCommand
       DEF TypeOK, CommitUnacknowledged
  <2> QED
    BY <1>8, <2>1
       DEF TypeOK, CommitUnacknowledged, Outcome, OutcomeKinds, Failure, Steps
<1>9. CASE ApplyCommitted
  <2> DEFINE events == Block[envelope.cmd]
             before == Len(log) - Len(events)
  <2>1. events \in Seq(Event) /\ Len(events) \in {1, 2}
    BY <1>9, Busy, BlockOfCommand DEF ApplyCommitted
  <2>2. before \in Nat /\ Len(log) \in Nat
    BY <1>9, <2>1 DEF TypeOK, ApplyCommitted
  <2>3. toPublish' \in Seq(Nat)
    <3>1. toPublish' = Sequences(before, Len(log))
      BY <1>9 DEF ApplyCommitted
    <3>2. before <= Len(log)
      BY <2>1, <2>2
    <3> HIDE DEF before
    <3> QED
      BY <2>2, <3>1, <3>2, SequencesType
  <2>4. readModel'.sequence = Len(log)
    BY <1>9, AppliedSequence DEF ApplyCommitted
  <2> HIDE DEF events, before
  <2>5. outcome' \in Outcome
    BY <1>9, <2>2 DEF ApplyCommitted, Outcome, OutcomeKinds, Success
  <2> QED
    BY <1>9, <2>2, <2>3, <2>4, <2>5 DEF TypeOK, ApplyCommitted, Steps
<1>10. CASE Publish
  BY <1>10 DEF TypeOK, Publish, Subscribers
<1>11. CASE PublishDone
  BY <1>11 DEF TypeOK, PublishDone, AfterPublish, Steps
<1>12. CASE Reconcile
  <2>1. start \in Nat /\ ReconcileTo \in start .. Len(log) /\ Len(log) \in Nat
    BY ReconciledType DEF TypeOK
  <2>2. toPublish' \in Seq(Nat)
    BY <1>12, <2>1, SequencesType DEF Reconcile, ReconciledEvents
  <2>3. readModel'.sequence \in 0 .. Len(log)
    BY <1>12, <2>1, ReconciledType DEF Reconcile, TypeOK
  <2> QED
    BY <1>12, <2>2, <2>3 DEF TypeOK, Reconcile, Steps
<1>13. CASE ReconcileFails
  BY <1>13 DEF TypeOK, ReconcileFails, Steps
<1>14. CASE RecordRejection
  <2>1. readModel.sequence \in Nat /\ envelope.cmd \in Commands
    BY <1>14, Busy DEF TypeOK, RecordRejection
  <2>2. [status |-> "rejected", sequence |-> readModel.sequence] \in Receipt
    BY <2>1 DEF Receipt
  <2>3. receipts' \in [Commands -> Receipt]
    BY <1>14, <2>2 DEF TypeOK, RecordRejection
  <2> QED
    BY <1>14, <2>3 DEF TypeOK, RecordRejection, Steps
<1>15. CASE Reply
  BY <1>15, CommandsTyped
     DEF TypeOK, Reply, Released, NoEnvelope, NoOutcome, Outcome, Steps
<1>16. CASE Crash
  BY <1>16, CommandsTyped
     DEF TypeOK, Crash, NoEnvelope, NoOutcome, Outcome, EmptyModel, Steps
<1>17. CASE Boot
  BY <1>17 DEF TypeOK, Boot, Steps, Snapshot
<1>18. CASE UNCHANGED vars
  BY <1>18 DEF TypeOK, vars
<1> QED
  BY <1>1, <1>3, <1>4, <1>5, <1>6, <1>7, <1>8, <1>9, <1>10, <1>11,
     <1>12, <1>13, <1>14, <1>15, <1>16, <1>17, <1>18 DEF Next, WorkerStep

\* Every variable keeps its type, and the read model and its history never
\* get ahead of the log.
THEOREM TypeCorrect == Spec => []TypeOK
BY TypeInit, TypeNext, PTL DEF Spec

-----------------------------------------------------------------------------
(* Verdicts                                                                *)

\* The verdict invariant is inductive relative to the types: only the worker
\* writes receipts, and it writes one only for the envelope it holds.
LEMMA VerdictNext ==
  TypeOK /\ VerdictFollowsReceipt /\ [Next]_vars => VerdictFollowsReceipt'
<1> SUFFICES ASSUME TypeOK, VerdictFollowsReceipt, [Next]_vars
             PROVE  VerdictFollowsReceipt'
  OBVIOUS
<1> USE DEF durable, worker, history, VerdictFollowsReceipt, Undecided
<1>1. CASE OthersStep
  BY <1>1, OthersUnchanged
<1>3. CASE Take
  BY <1>3 DEF Take, NoOutcome
<1>4. CASE AnswerFromReceipt
  <2>1. receipts[envelope.cmd] \in Receipt
    BY <1>4, Busy DEF TypeOK, AnswerFromReceipt
  <2> QED
    BY <1>4, <2>1
       DEF AnswerFromReceipt, Success, Failure, Receipt, NoReceipt
<1>5. CASE Decide
  BY <1>5 DEF Decide, Failure, NoOutcome
<1>6. CASE StorageFails
  BY <1>6 DEF StorageFails, Failure
<1>7. CASE Commit
  <2>1. Len(log') = Len(log) + Len(Block[envelope.cmd])
    BY <1>7, CommittedType DEF Commit
  <2>2. receipts'[envelope.cmd] = [status |-> "accepted", sequence |-> Len(log')]
    BY <1>7, <2>1, Busy DEF Commit, Committed, LastSequence, TypeOK
  <2> QED
    BY <1>7, <2>2 DEF Commit, NoOutcome
<1>8. CASE CommitUnacknowledged
  BY <1>8 DEF CommitUnacknowledged, Failure
<1>9. CASE ApplyCommitted
  BY <1>9 DEF ApplyCommitted, Success
<1>10. CASE Publish
  BY <1>10 DEF Publish
<1>11. CASE PublishDone
  BY <1>11 DEF PublishDone, AfterPublish
<1>12. CASE Reconcile
  BY <1>12 DEF Reconcile
<1>13. CASE ReconcileFails
  BY <1>13 DEF ReconcileFails
<1>14. CASE RecordRejection
  BY <1>14 DEF RecordRejection
<1>15. CASE Reply
  BY <1>15 DEF Reply, NoOutcome
<1>16. CASE Crash
  BY <1>16 DEF Crash, NoOutcome
<1>17. CASE Boot
  BY <1>17 DEF Boot, NoOutcome
<1>18. CASE UNCHANGED vars
  BY <1>18 DEF vars
<1> QED
  BY <1>1, <1>3, <1>4, <1>5, <1>6, <1>7, <1>8, <1>9, <1>10, <1>11,
     <1>12, <1>13, <1>14, <1>15, <1>16, <1>17, <1>18 DEF Next, WorkerStep

\* The worker writes events or a rejection only for a command nobody has
\* decided, and the verdict it answers with is the recorded one.
THEOREM VerdictCorrect == Spec => []VerdictFollowsReceipt
<1>1. Init => VerdictFollowsReceipt
  BY DEF Init, VerdictFollowsReceipt, NoOutcome
<1> QED
  BY <1>1, TypeCorrect, VerdictNext, PTL DEF Spec

-----------------------------------------------------------------------------
(* The event log                                                           *)

\* Everything but a commit leaves the log alone, and the only receipts it may
\* write are rejections of undecided commands.
LEMMA LogUnchanged ==
  ASSUME TypeOK, VerdictFollowsReceipt, [Next]_vars
  PROVE  \/ pc = "transaction" /\ Committed
         \/ UNCHANGED <<log, receipts>>
         \/ pc = "reject" /\ RecordRejection
BY OthersUnchanged
   DEF Next, WorkerStep, Take, AnswerFromReceipt, Decide,
       StorageFails, Commit, CommitUnacknowledged, ApplyCommitted, Publish,
       PublishDone, Reconcile, ReconcileFails, RecordRejection, Reply, Crash,
       Boot, durable, vars

LEMMA ExactlyOnceNext ==
  TypeOK /\ VerdictFollowsReceipt /\ ExactlyOnce /\ [Next]_vars => ExactlyOnce'
<1> SUFFICES ASSUME TypeOK, VerdictFollowsReceipt, ExactlyOnce, [Next]_vars
             PROVE  ExactlyOnce'
  OBVIOUS
<1>0. /\ log \in Seq(Event) /\ Len(log) \in Nat
      /\ receipts \in [Commands -> Receipt]
      /\ \A i \in 1 .. Len(log) : log[i].cmd \in Commands
  <2>1. log \in Seq(Event) /\ receipts \in [Commands -> Receipt]
    BY DEF TypeOK
  <2>2. \A i \in 1 .. Len(log) : log[i] \in Event
    BY <2>1
  <2> QED
    BY <2>1, <2>2 DEF Event
<1>1. CASE UNCHANGED <<log, receipts>>
  BY <1>1 DEF ExactlyOnce, Owned
<1>2. CASE pc = "reject" /\ RecordRejection
  <2>1. envelope.cmd \in Commands /\ receipts[envelope.cmd] = NoReceipt
    BY <1>2, Busy DEF VerdictFollowsReceipt, Undecided
  <2>2. log' = log
    BY <1>2 DEF RecordRejection
  <2>3. \A c \in Commands :
          \/ receipts'[c] = receipts[c]
          \/ c = envelope.cmd /\ receipts'[c].status = "rejected"
    BY <1>0, <1>2, <2>1 DEF RecordRejection
  <2>4. \A c \in Commands :
          receipts[c].status = "accepted" \/ receipts'[c].status = "accepted"
            => receipts'[c] = receipts[c]
    BY <2>1, <2>3 DEF NoReceipt
  <2> QED
    BY <1>0, <2>2, <2>4 DEF ExactlyOnce, Owned
<1>3. CASE pc = "transaction" /\ Committed
  <2> DEFINE d == envelope.cmd
             events == Block[d]
             n == Len(log)
  <2>1. d \in Commands /\ receipts[d] = NoReceipt
    BY <1>3, Busy DEF VerdictFollowsReceipt, Undecided
  <2>2. /\ events \in Seq(Event) /\ Len(events) \in {1, 2}
        /\ \A i \in 1 .. Len(events) : events[i].cmd = d
    BY <2>1, BlockOfCommand
  <2>3. log' = log \o events
    BY <1>3 DEF Committed
  <2>4. receipts' = [receipts EXCEPT
                       ![d] = [status |-> "accepted", sequence |-> n + Len(events)]]
    BY <1>3 DEF Committed, LastSequence
  <2> HIDE DEF d, events
  <2>5. /\ Len(log') = n + Len(events)
        /\ \A i \in 1 .. n : log'[i] = log[i]
        /\ \A i \in 1 .. Len(events) : log'[n + i] = events[i]
        /\ DOMAIN log' = 1 .. n + Len(events)
    BY <1>0, <2>2, <2>3
  <2>6. \A c \in Commands : c # d => receipts'[c] = receipts[c]
    BY <1>0, <2>4
  <2>7. receipts'[d] = [status |-> "accepted", sequence |-> n + Len(events)]
    BY <1>0, <2>1, <2>4
  <2>8. ASSUME NEW c \in Commands, receipts'[c].status = "accepted"
        PROVE  /\ receipts'[c].sequence \in Len(Block[c]) .. Len(log')
               /\ \A i \in 1 .. Len(Block[c]) :
                    log'[receipts'[c].sequence - Len(Block[c]) + i] = Block[c][i]
    <3>1. CASE c = d
      <4>1. Block[c] = events /\ receipts'[c].sequence = n + Len(events)
        BY <2>7, <3>1 DEF events
      <4>2. n + Len(events) - Len(events) = n
        BY <1>0, <2>2
      <4>3. n + Len(events) \in Len(events) .. Len(log')
        BY <1>0, <2>2, <2>5
      <4> QED
        BY <2>5, <4>1, <4>2, <4>3
    <3>2. CASE c # d
      <4>1. /\ receipts[c].sequence \in Len(Block[c]) .. n
            /\ \A i \in 1 .. Len(Block[c]) :
                 log[receipts[c].sequence - Len(Block[c]) + i] = Block[c][i]
        BY <2>6, <2>8, <3>2 DEF ExactlyOnce
      <4>2. Len(Block[c]) \in Nat
        BY BlockOfCommand
      <4>3. receipts'[c] = receipts[c]
        BY <2>6, <3>2
      <4>4. \A i \in 1 .. Len(Block[c]) :
              receipts[c].sequence - Len(Block[c]) + i \in 1 .. n
        BY <1>0, <4>1, <4>2
      <4>5. receipts[c].sequence \in Len(Block[c]) .. Len(log')
        BY <1>0, <2>2, <2>5, <4>1, <4>2
      <4> QED
        BY <2>5, <4>1, <4>3, <4>4, <4>5
    <3> QED  BY <3>1, <3>2
  <2>9. ASSUME NEW i \in DOMAIN log'
        PROVE  Owned(i)'
    <3>1. CASE i \in 1 .. n
      <4>1. log'[i] = log[i] /\ Owned(i) /\ log[i].cmd \in Commands
        BY <1>0, <2>5, <3>1 DEF ExactlyOnce
      <4>2. log[i].cmd # d
        BY <2>1, <4>1 DEF Owned, NoReceipt
      <4> QED
        BY <2>6, <4>1, <4>2 DEF Owned
    <3>2. CASE i \in n + 1 .. n + Len(events)
      <4>1. log'[i] = events[i - n] /\ i - n \in 1 .. Len(events)
        BY <1>0, <2>2, <2>5, <3>2
      <4>2. log'[i].cmd = d
        BY <2>2, <4>1
      <4> QED
        BY <1>0, <2>2, <2>7, <3>2, <4>2 DEF Owned, events
    <3> QED
      BY <1>0, <2>2, <2>5, <3>1, <3>2
  <2> QED
    BY <2>8, <2>9 DEF ExactlyOnce
<1> QED
  BY <1>1, <1>2, <1>3, LogUnchanged

\* The log holds the events of the accepted commands, each command's once, in
\* a row and where its receipt says, and nothing else.
THEOREM ExactlyOnceCorrect == Spec => []ExactlyOnce
<1>1. Init => ExactlyOnce
  BY DEF Init, ExactlyOnce, NoReceipt
<1> QED
  BY <1>1, TypeCorrect, VerdictCorrect, ExactlyOnceNext, PTL DEF Spec

-----------------------------------------------------------------------------
(* Refinement of the command ledger                                        *)

\* Apart from the answers, what LogUnchanged says of the log and receipts.
LEMMA RepliesUnchanged ==
  ASSUME [Next]_vars
  PROVE  (pc = "reply" /\ Reply) \/ UNCHANGED replies
BY OthersUnchanged
   DEF Next, WorkerStep, Take, AnswerFromReceipt, Decide,
       StorageFails, Commit, CommitUnacknowledged, Committed, ApplyCommitted,
       Publish, PublishDone, Reconcile, ReconcileFails, RecordRejection, Reply,
       Crash, Boot, vars

LEMMA LedgerStep ==
  ASSUME TypeOK, VerdictFollowsReceipt, [Next]_vars
  PROVE  [Ledger!Next]_Ledger!vars
<1> DEFINE c == envelope.cmd
           receipt == receipts[c]
<1> USE DEF Ledger!NoReceipt, NoReceipt
<1>1. CASE pc = "transaction" /\ Committed
  <2>1. c \in Commands /\ receipt = NoReceipt
    BY <1>1, Busy DEF VerdictFollowsReceipt, Undecided
  <2>2. UNCHANGED replies
    BY <1>1, RepliesUnchanged DEF Reply
  <2>3. log' = log \o Block[c] /\ Len(log') = Len(log) + Len(Block[c])
    BY <1>1, CommittedType DEF Committed
  <2>4. receipts' = [receipts EXCEPT
                       ![c] = [status |-> "accepted", sequence |-> Len(log')]]
    BY <1>1, <2>3 DEF Committed, LastSequence
  <2>5. Ledger!Accept(c)
    BY <2>1, <2>2, <2>3, <2>4 DEF Ledger!Accept
  <2> QED
    BY <2>1, <2>5 DEF Ledger!Next
<1>2. CASE pc = "reject" /\ RecordRejection
  <2>1. c \in Commands /\ receipt = NoReceipt
    BY <1>2, Busy DEF VerdictFollowsReceipt, Undecided
  <2>2. UNCHANGED <<log, replies>>
    BY <1>2 DEF RecordRejection
  <2>3. readModel.sequence \in 0 .. Len(log)
    BY DEF TypeOK
  <2>4. CASE receipts' = [receipts EXCEPT
                ![c] = [status |-> "rejected", sequence |-> readModel.sequence]]
    <3>1. Ledger!Reject(c)
      BY <2>1, <2>2, <2>3, <2>4 DEF Ledger!Reject
    <3> QED
      BY <2>1, <3>1 DEF Ledger!Next
  <2>5. CASE UNCHANGED receipts
    BY <2>2, <2>5 DEF Ledger!vars
  <2> QED
    BY <1>2, <2>4, <2>5 DEF RecordRejection
<1>3. CASE UNCHANGED <<log, receipts>>
  <2>1. CASE UNCHANGED replies
    BY <1>3, <2>1 DEF Ledger!vars
  <2>2. CASE pc = "reply" /\ Reply
    <3>1. c \in Commands
      BY <2>2, Busy
    <3>2. CASE outcome.kind \notin {"success", "previouslyRejected"}
      BY <1>3, <2>2, <3>2 DEF Reply, Ledger!vars
    <3>3. CASE outcome.kind = "success"
      <4>1. /\ receipt.status = "accepted"
            /\ replies' = replies \cup {[cmd |-> c, kind |-> "success",
                                         sequence |-> receipt.sequence]}
        BY <2>2, <3>3 DEF Reply, VerdictFollowsReceipt
      <4>2. Ledger!Answer(c)
        BY <1>3, <4>1 DEF Ledger!Answer
      <4> QED
        BY <3>1, <4>2 DEF Ledger!Next
    <3>4. CASE outcome.kind = "previouslyRejected"
      <4>1. /\ receipt.status = "rejected"
            /\ replies' = replies \cup {[cmd |-> c, kind |-> "previouslyRejected",
                                         sequence |-> 0]}
        BY <2>2, <3>4 DEF Reply, VerdictFollowsReceipt
      <4>2. Ledger!Answer(c)
        BY <1>3, <4>1 DEF Ledger!Answer
      <4> QED
        BY <3>1, <4>2 DEF Ledger!Next
    <3> QED
      BY <3>2, <3>3, <3>4
  <2> QED
    BY <2>1, <2>2, RepliesUnchanged
<1> QED
  BY <1>1, <1>2, <1>3, LogUnchanged

\* The engine implements the ledger: every command gets at most one final
\* verdict, its events appear in one piece together with it, and every
\* settling answer agrees with it, across retries, failures and restarts.
THEOREM Refinement == Spec => ImplementsLedger
<1>1. Init => Ledger!Init
  BY DEF Init, Ledger!Init, Ledger!NoReceipt, NoReceipt
<1>2. TypeOK /\ VerdictFollowsReceipt /\ [Next]_vars => [Ledger!Next]_Ledger!vars
  BY LedgerStep
<1> QED
  BY <1>1, <1>2, TypeCorrect, VerdictCorrect, PTL
     DEF Spec, ImplementsLedger, Ledger!Spec

-----------------------------------------------------------------------------
(* Publication                                                             *)

\* Everything that has been or is about to be published.
Announced == published \o toPublish

\* Where the read model and the publications stand at each step of the worker,
\* as long as no reconciliation has failed.
PublicationUnderWay ==
  /\ projection.sequence = Len(log)
  /\ pc = "down" => published = << >> /\ toPublish = << >>
  /\ pc # "down" /\ ~missed =>
       /\ booted <= readModel.sequence
       /\ Announced = Sequences(booted, readModel.sequence)
       /\ pc # "publish" => toPublish = << >>
       /\ pc \notin {"apply", "reconcile"} => readModel.sequence = Len(log)
       /\ pc \in {"lookup", "transaction", "apply", "reconcile"} =>
            start = readModel.sequence
       /\ pc = "apply" => start + Len(Block[envelope.cmd]) = Len(log)
       /\ pc = "reconcile" => Len(log) - start <= 2

LEMMA SequencesEmpty == ASSUME NEW n \in Nat PROVE Sequences(n, n) = << >>
BY DEF Sequences

LEMMA ConcatElements ==
  ASSUME NEW S, NEW s \in Seq(S), NEW t \in Seq(S)
  PROVE  /\ s \o t \in Seq(S) /\ Len(s \o t) = Len(s) + Len(t)
         /\ \A i \in 1 .. Len(s) : (s \o t)[i] = s[i]
         /\ \A i \in 1 .. Len(t) : (s \o t)[Len(s) + i] = t[i]
OBVIOUS

LEMMA SameElements ==
  ASSUME NEW S, NEW s \in Seq(S), NEW t \in Seq(S), Len(s) = Len(t),
         \A i \in 1 .. Len(s) : s[i] = t[i]
  PROVE  s = t
OBVIOUS

LEMMA SequencesConcat ==
  ASSUME NEW a \in Nat, NEW b \in Nat, NEW c \in Nat, a <= b, b <= c
  PROVE  Sequences(a, b) \o Sequences(b, c) = Sequences(a, c)
<1>1. /\ Sequences(a, b) \in Seq(Nat) /\ Len(Sequences(a, b)) = b - a
      /\ \A i \in 1 .. b - a : Sequences(a, b)[i] = a + i
  BY SequencesType
<1>2. /\ Sequences(b, c) \in Seq(Nat) /\ Len(Sequences(b, c)) = c - b
      /\ \A i \in 1 .. c - b : Sequences(b, c)[i] = b + i
  BY SequencesType
<1>3. a <= c
  OBVIOUS
<1>4. /\ Sequences(a, c) \in Seq(Nat) /\ Len(Sequences(a, c)) = c - a
      /\ \A i \in 1 .. c - a : Sequences(a, c)[i] = a + i
  BY <1>3, SequencesType
<1> DEFINE left == Sequences(a, b)
           right == Sequences(b, c)
           joined == left \o right
<1> HIDE DEF left, right
<1>5. /\ joined \in Seq(Nat) /\ Len(joined) = Len(left) + Len(right)
      /\ \A i \in 1 .. Len(left) : joined[i] = left[i]
      /\ \A i \in 1 .. Len(right) : joined[Len(left) + i] = right[i]
  <2>1. left \in Seq(Nat) /\ right \in Seq(Nat)
    BY <1>1, <1>2 DEF left, right
  <2> QED
    BY <2>1, ConcatElements
<1> HIDE DEF joined
<1>6. Len(left) = b - a /\ Len(right) = c - b
  BY <1>1, <1>2 DEF left, right
<1>7. Len(joined) = c - a
  BY <1>5, <1>6
<1>8. ASSUME NEW i \in 1 .. c - a
      PROVE  joined[i] = a + i
  <2>1. CASE i <= b - a
    BY <1>1, <1>5, <1>6, <2>1 DEF left
  <2>2. CASE i > b - a
    <3> DEFINE j == i - Len(left)
    <3>1. j \in 1 .. Len(right) /\ Len(left) + j = i /\ b + j = a + i
      BY <1>6, <2>2
    <3>2. joined[i] = right[j]
      BY <1>5, <3>1
    <3>3. right[j] = b + j
      BY <1>2, <1>6, <3>1 DEF right
    <3> QED
      BY <3>1, <3>2, <3>3
  <2> QED  BY <2>1, <2>2
<1>9. joined = Sequences(a, c)
  BY <1>4, <1>5, <1>7, <1>8
<1> QED
  BY <1>9 DEF joined, left, right

\* Publishing moves the head of one list to the end of the other.
LEMMA MoveHead ==
  ASSUME NEW s \in Seq(Nat), NEW t \in Seq(Nat), t # << >>
  PROVE  Append(s, Head(t)) \o Tail(t) = s \o t
<1> DEFINE moved == Append(s, Head(t)) \o Tail(t)
           whole == s \o t
<1>1. /\ Head(t) \in Nat /\ Tail(t) \in Seq(Nat) /\ Len(Tail(t)) = Len(t) - 1
      /\ \A i \in 1 .. Len(t) - 1 : Tail(t)[i] = t[i + 1]
      /\ Head(t) = t[1] /\ Len(t) \in Nat \ {0} /\ Len(s) \in Nat
  OBVIOUS
<1>2. moved \in Seq(Nat) /\ Len(moved) = Len(s) + Len(t)
  BY <1>1
<1>3. whole \in Seq(Nat) /\ Len(whole) = Len(s) + Len(t)
  OBVIOUS
<1>4. ASSUME NEW i \in 1 .. Len(s) + Len(t)
      PROVE  moved[i] = whole[i]
  <2>1. CASE i <= Len(s)
    BY <1>1, <2>1
  <2>2. CASE i = Len(s) + 1
    BY <1>1, <2>2
  <2>3. CASE i > Len(s) + 1
    BY <1>1, <2>3
  <2> HIDE DEF moved, whole
  <2> QED  BY <1>1, <2>1, <2>2, <2>3
<1> HIDE DEF moved, whole
<1>5. moved = whole
  BY <1>2, <1>3, <1>4
<1> QED
  BY <1>5 DEF moved, whole

LEMMA AtMostTwo ==
  ASSUME NEW a \in Nat, NEW m \in {1, 2}, NEW b, b = a + m
  PROVE  b - a <= 2
OBVIOUS

LEMMA AnnouncedType ==
  ASSUME TypeOK
  PROVE  /\ toPublish = << >> => Announced = published
         /\ toPublish' = toPublish /\ published' = published => Announced' = Announced
<1>1. ASSUME NEW s \in Seq(Nat)
      PROVE  s \o << >> = s
  BY <1>1
<1> QED
  BY <1>1 DEF TypeOK, Announced

LEMMA PublicationNext ==
  TypeOK /\ PublicationUnderWay /\ [Next]_vars => PublicationUnderWay'
<1> SUFFICES ASSUME TypeOK, PublicationUnderWay, [Next]_vars
             PROVE  PublicationUnderWay'
  OBVIOUS
<1> USE DEF durable, worker, history
<1>0. /\ Len(log) \in Nat /\ booted \in Nat /\ readModel.sequence \in Nat
      /\ start \in Nat /\ published \in Seq(Nat) /\ toPublish \in Seq(Nat)
      /\ missed \in BOOLEAN
  BY DEF TypeOK
<1>1. CASE OthersStep
  BY <1>1, OthersUnchanged, AnnouncedType DEF PublicationUnderWay
<1>3. CASE Take
  BY <1>3, AnnouncedType DEF Take, PublicationUnderWay
<1>4. CASE AnswerFromReceipt
  BY <1>4, AnnouncedType DEF AnswerFromReceipt, PublicationUnderWay
<1>5. CASE Decide
  BY <1>0, <1>5, AnnouncedType DEF Decide, PublicationUnderWay
<1>6. CASE StorageFails
  BY <1>0, <1>6, AnnouncedType DEF StorageFails, PublicationUnderWay
<1>7. CASE Commit
  <2>1. /\ Len(log') = Len(log) + Len(Block[envelope.cmd])
        /\ Len(Block[envelope.cmd]) \in {1, 2}
        /\ projection'.sequence = Len(log')
    BY <1>7, CommittedType, Busy, BlockOfCommand DEF Commit
  <2> QED
    <3>1. Announced' = Announced
      BY <1>7, AnnouncedType DEF Commit
    <3> QED
      BY <1>0, <1>7, <2>1, <3>1 DEF Commit, PublicationUnderWay
<1>8. CASE CommitUnacknowledged
  <2>1. /\ Len(log') = Len(log) + Len(Block[envelope.cmd])
        /\ Len(Block[envelope.cmd]) \in {1, 2}
        /\ projection'.sequence = Len(log')
    BY <1>8, CommittedType, Busy, BlockOfCommand
       DEF CommitUnacknowledged
  <2> QED
    <3>1. Announced' = Announced
      BY <1>8, AnnouncedType DEF CommitUnacknowledged
    <3>2. ASSUME ~missed
          PROVE  Len(log') - start <= 2
      <4>1. start = Len(log)
        BY <1>8, <3>2 DEF CommitUnacknowledged, PublicationUnderWay
      <4>2. Len(log) \in Nat /\ Len(Block[envelope.cmd]) \in {1, 2}
        BY <1>0, <2>1
      <4>3. Len(log') - Len(log) <= 2
        BY <2>1, <4>2, AtMostTwo
      <4> QED
        BY <4>1, <4>3
    <3> QED
      BY <1>0, <1>8, <2>1, <3>1, <3>2
         DEF CommitUnacknowledged, PublicationUnderWay
<1>9. CASE ApplyCommitted
  <2> DEFINE n == Len(Block[envelope.cmd])
  <2>1. n \in {1, 2} /\ n <= Len(log)
    BY <1>9, Busy, BlockOfCommand DEF ApplyCommitted, TypeOK
  <2>2. /\ toPublish' = Sequences(Len(log) - n, Len(log))
        /\ readModel'.sequence = Len(log)
    BY <1>9, AppliedSequence DEF ApplyCommitted
  <2> HIDE DEF n
  <2>3. ASSUME ~missed
        PROVE  /\ booted <= Len(log) - n
               /\ published = Sequences(booted, Len(log) - n)
    <3>1. /\ start = readModel.sequence /\ start + n = Len(log)
          /\ booted <= readModel.sequence /\ toPublish = << >>
          /\ Announced = Sequences(booted, readModel.sequence)
      BY <1>9, <2>3 DEF ApplyCommitted, PublicationUnderWay, n
    <3>2. Announced = published
      BY <3>1, AnnouncedType
    <3>3. readModel.sequence = Len(log) - n
      BY <1>0, <2>1, <3>1
    <3> QED
      BY <3>1, <3>2, <3>3
  <2>4. ASSUME ~missed
        PROVE  Announced' = Sequences(booted, Len(log))
    <3>1. Len(log) - n \in Nat /\ Len(log) - n <= Len(log)
      BY <1>0, <2>1
    <3>2. Announced' = published \o Sequences(Len(log) - n, Len(log))
      BY <1>9, <2>2 DEF ApplyCommitted, Announced
    <3>3. booted <= Len(log) - n /\ published = Sequences(booted, Len(log) - n)
      BY <2>3, <2>4
    <3>4. Sequences(booted, Len(log) - n) \o Sequences(Len(log) - n, Len(log))
            = Sequences(booted, Len(log))
      BY <1>0, <3>1, <3>3, SequencesConcat
    <3> QED
      BY <3>2, <3>3, <3>4
  <2> QED
    BY <1>0, <1>9, <2>1, <2>2, <2>3, <2>4
       DEF ApplyCommitted, PublicationUnderWay
<1>10. CASE Publish
  <2>1. Announced' = Announced
    BY <1>0, <1>10, MoveHead DEF Publish, Announced
  <2> QED
    BY <1>10, <2>1 DEF Publish, PublicationUnderWay
<1>11. CASE PublishDone
  BY <1>11, AnnouncedType DEF PublishDone, AfterPublish, PublicationUnderWay
<1>12. CASE Reconcile
  <2>1. ASSUME ~missed
        PROVE  /\ booted <= start /\ published = Sequences(booted, start)
               /\ ReconcileTo = Len(log) /\ start <= Len(log)
               /\ readModel'.sequence = Len(log)
    <3>1. /\ start = readModel.sequence /\ Len(log) - start <= 2
          /\ booted <= readModel.sequence /\ toPublish = << >>
          /\ Announced = Sequences(booted, readModel.sequence)
      BY <1>12, <2>1 DEF Reconcile, PublicationUnderWay
    <3>2. Announced = published
      BY <3>1, AnnouncedType
    <3>3. ReconcileTo = Len(log)
      BY <1>0, <3>1, CapacitiesPositive DEF ReconcileTo
    <3>4. readModel'.sequence = Len(log)
      BY <1>12, <3>1, <3>3, ReconciledType DEF Reconcile
    <3> QED
      BY <3>1, <3>2, <3>3, <3>4 DEF TypeOK
  <2>2. ASSUME ~missed
        PROVE  Announced' = Sequences(booted, Len(log))
    <3>1. Announced' = published \o Sequences(start, Len(log))
      BY <1>12, <2>1, <2>2 DEF Reconcile, ReconciledEvents, Announced
    <3>2. Sequences(booted, start) \o Sequences(start, Len(log))
            = Sequences(booted, Len(log))
      BY <1>0, <2>1, <2>2, SequencesConcat
    <3> QED
      BY <2>1, <2>2, <3>1, <3>2
  <2> QED
    BY <1>0, <1>12, <2>1, <2>2 DEF Reconcile, PublicationUnderWay
<1>13. CASE ReconcileFails
  <2>1. start <= Len(log)
    BY DEF TypeOK
  <2> QED
    <3>1. Announced' = Announced
      BY <1>13, AnnouncedType DEF ReconcileFails
    <3>2. ASSUME ~missed'
          PROVE  ~missed /\ start = Len(log)
      <4>1. ~missed /\ ~(start < Len(log))
        BY <1>13, <3>2 DEF ReconcileFails
      <4> QED
        BY <1>0, <2>1, <4>1
    <3> QED
      BY <1>0, <1>13, <2>1, <3>1, <3>2
         DEF ReconcileFails, PublicationUnderWay
<1>14. CASE RecordRejection
  BY <1>14, AnnouncedType DEF RecordRejection, PublicationUnderWay
<1>15. CASE Reply
  BY <1>15, AnnouncedType DEF Reply, PublicationUnderWay
<1>16. CASE Crash
  BY <1>16, AnnouncedType DEF Crash, PublicationUnderWay
<1>17. CASE Boot
  <2>1. Announced' = Sequences(Len(log), Len(log))
    BY <1>0, <1>17, SequencesEmpty, AnnouncedType DEF Boot, PublicationUnderWay
  <2> QED
    BY <1>0, <1>17, <2>1 DEF Boot, PublicationUnderWay, Snapshot
<1>18. CASE UNCHANGED vars
  BY <1>18, AnnouncedType DEF vars, PublicationUnderWay
<1> QED
  BY <1>1, <1>3, <1>4, <1>5, <1>6, <1>7, <1>8, <1>9, <1>10, <1>11,
     <1>12, <1>13, <1>14, <1>15, <1>16, <1>17, <1>18 DEF Next, WorkerStep

\* At each step of the worker, where the read model and the publications stand.
THEOREM PublicationCorrect == Spec => []PublicationUnderWay
<1>1. Init => PublicationUnderWay
  BY SequencesEmpty DEF Init, PublicationUnderWay, EmptyModel, EmptyTables, Announced
<1> QED
  BY <1>1, TypeCorrect, PublicationNext, PTL DEF Spec

\* Since the engine started, exactly the log up to the read model has been or
\* is about to be published, in order, unless a reconciliation has failed.
THEOREM PublishedCorrect == Spec => []PublishedExactly
<1>1. PublicationUnderWay => PublishedExactly
  BY DEF PublicationUnderWay, PublishedExactly, Announced
<1> QED
  BY <1>1, PublicationCorrect, PTL

-----------------------------------------------------------------------------
(* Projecting a sequence of events, by induction on its length             *)

\* A non-empty set of natural numbers has a least element.
LEMMA Least ==
  ASSUME NEW S, S \subseteq Nat, S # {}
  PROVE  \E n \in S : \A m \in S : n <= m
<1> DEFINE R == OpToRel(<, Nat)
<1>1. IsWellFoundedOn(R, Nat)
  BY NatLessThanWellFounded
<1> HIDE DEF R
<1>2. PICK n \in S : \A m \in S : <<m, n>> \notin R
  BY <1>1, WFMin
<1>3. \A m \in S : ~(m < n)
  BY <1>2 DEF OpToRel, R
<1> QED
  BY <1>2, <1>3

\* Induction over the natural numbers, of a set in place of a predicate.
LEMMA Induction ==
  ASSUME NEW S, 0 \in S, \A n \in Nat : n \in S => n + 1 \in S
  PROVE  \A n \in Nat : n \in S
<1> DEFINE T == Nat \ S
<1> SUFFICES ASSUME T # {}
             PROVE  FALSE
  OBVIOUS
<1>1. PICK n \in T : \A m \in T : n <= m
  BY Least
<1>2. n \in Nat \ {0} /\ n - 1 \in Nat
  BY <1>1
<1>3. n - 1 \notin T
  BY <1>1, <1>2
<1> QED
  BY <1>2, <1>3

\* f holds the states the first n events lead through.
Projecting(f, state, events, n) ==
  f = [k \in 0 .. n |-> IF k = 0 THEN state
                        ELSE ProjectEvent(f[k - 1], events[k])]

LEMMA ProjectingExists ==
  ASSUME NEW state, NEW events
  PROVE  \A n \in Nat : \E f : Projecting(f, state, events, n)
<1> DEFINE S == {n \in Nat : \E f : Projecting(f, state, events, n)}
<1>1. 0 \in S
  <2> DEFINE f == [k \in 0 .. 0 |-> state]
  <2>1. Projecting(f, state, events, 0)
    BY DEF Projecting
  <2> QED
    BY <2>1
<1>2. ASSUME NEW n \in Nat, n \in S
      PROVE  n + 1 \in S
  <2>1. PICK f : Projecting(f, state, events, n)
    BY <1>2
  <2> DEFINE g == [k \in 0 .. n + 1 |->
                     IF k = n + 1 THEN ProjectEvent(f[n], events[n + 1]) ELSE f[k]]
  <2>2. ASSUME NEW k \in 0 .. n + 1
        PROVE  g[k] = IF k = 0 THEN state ELSE ProjectEvent(g[k - 1], events[k])
    <3>1. CASE k = n + 1
      <4>1. k # 0 /\ k - 1 = n /\ n \in 0 .. n + 1 /\ n # n + 1
        BY <3>1
      <4> QED
        BY <3>1, <4>1
    <3>2. CASE k = 0
      <4>1. g[k] = f[0] /\ f[0] = state
        BY <2>1, <3>2 DEF Projecting
      <4> QED
        BY <3>2, <4>1
    <3>3. CASE k \in 1 .. n
      <4>1. k \in 0 .. n /\ k - 1 \in 0 .. n + 1 /\ k # n + 1 /\ k - 1 # n + 1 /\ k # 0
        BY <3>3
      <4>2. g[k] = f[k] /\ g[k - 1] = f[k - 1]
        BY <4>1
      <4>3. f[k] = ProjectEvent(f[k - 1], events[k])
        BY <2>1, <4>1 DEF Projecting
      <4> QED
        BY <4>1, <4>2, <4>3
    <3> QED
      BY <3>1, <3>2, <3>3
  <2>3. g = [k \in 0 .. n + 1 |-> g[k]]
    OBVIOUS
  <2> HIDE DEF g
  <2>4. Projecting(g, state, events, n + 1)
    BY <2>2, <2>3 DEF Projecting
  <2> QED
    BY <2>4
<1> HIDE DEF S
<1>3. \A n \in Nat : n \in S
  BY <1>1, <1>2, Induction
<1> QED
  BY <1>3 DEF S

\* The first n elements of a and b are the same.
Agree(a, b, n) == \A i \in 1 .. n : a[i] = b[i]

\* Two sequences with a common prefix lead through the same states there.
LEMMA ProjectingUnique ==
  ASSUME NEW state, NEW a, NEW b, NEW f, NEW g, NEW m \in Nat, NEW n \in Nat,
         NEW p \in Nat, p \in 0 .. m, p \in 0 .. n,
         Projecting(f, state, a, m), Projecting(g, state, b, n),
         Agree(a, b, p)
  PROVE  \A k \in 0 .. p : f[k] = g[k]
<1> DEFINE S == {k \in Nat : k <= p => f[k] = g[k]}
<1>1. 0 \in S
  BY DEF Projecting
<1>2. ASSUME NEW k \in Nat, k \in S
      PROVE  k + 1 \in S
  <2> SUFFICES ASSUME k + 1 <= p
               PROVE  f[k + 1] = g[k + 1]
    OBVIOUS
  <2>1. /\ k + 1 \in 0 .. m /\ k + 1 \in 0 .. n /\ k + 1 \in 1 .. p /\ k + 1 # 0
        /\ k + 1 - 1 = k /\ k <= p
    OBVIOUS
  <2>2. f[k + 1] = ProjectEvent(f[k], a[k + 1])
    BY <2>1 DEF Projecting
  <2>3. g[k + 1] = ProjectEvent(g[k], b[k + 1])
    BY <2>1 DEF Projecting
  <2>4. a[k + 1] = b[k + 1]
    BY <2>1 DEF Agree
  <2> QED
    BY <1>2, <2>1, <2>2, <2>3, <2>4
<1> HIDE DEF S
<1>3. \A k \in Nat : k \in S
  BY <1>1, <1>2, Induction
<1> QED
  BY <1>3 DEF S

\* ProjectEvents is the last of those states.
LEMMA ProjectEventsLast ==
  ASSUME NEW state, NEW events, Len(events) \in Nat,
         NEW f, Projecting(f, state, events, Len(events))
  PROVE  ProjectEvents(state, events) = f[Len(events)]
<1> DEFINE g == CHOOSE g : Projecting(g, state, events, Len(events))
<1>1. Projecting(g, state, events, Len(events))
  OBVIOUS
<1>2. ProjectEvents(state, events) = g[Len(events)]
  BY DEF ProjectEvents, Projecting
<1> HIDE DEF g
<1> DEFINE l == Len(events)
<1>3. l \in Nat /\ l \in 0 .. l /\ Agree(events, events, l)
  BY DEF Agree
<1>4. Projecting(f, state, events, l) /\ Projecting(g, state, events, l)
  BY <1>1
<1> HIDE DEF l
<1>5. \A k \in 0 .. l : g[k] = f[k]
  BY <1>3, <1>4, ProjectingUnique
<1> QED
  BY <1>2, <1>3, <1>5 DEF l

LEMMA ProjectNone ==
  ASSUME NEW state
  PROVE  ProjectEvents(state, << >>) = state
<1>1. PICK f : Projecting(f, state, << >>, Len(<< >>))
  BY ProjectingExists
<1>2. f[0] = state
  BY <1>1 DEF Projecting
<1> QED
  BY <1>1, <1>2, ProjectEventsLast

\* Projecting one sequence and then another is projecting their concatenation.
LEMMA ProjectSplit ==
  ASSUME NEW state, NEW S, NEW a \in Seq(S), NEW b \in Seq(S)
  PROVE  ProjectEvents(state, a \o b)
           = ProjectEvents(ProjectEvents(state, a), b)
<1> DEFINE ab == a \o b
           m == Len(a)
           n == Len(b)
           total == Len(ab)
           middle == ProjectEvents(state, a)
<1>1. /\ total = m + n /\ total \in Nat /\ m \in Nat /\ n \in Nat /\ m + n \in Nat
      /\ \A i \in 1 .. m : ab[i] = a[i]
      /\ \A i \in 1 .. n : ab[m + i] = b[i]
  OBVIOUS
<1> HIDE DEF ab, m, n, total, middle
<1>2. PICK f : Projecting(f, state, ab, total)
  BY <1>1, ProjectingExists
<1>3. PICK g : Projecting(g, state, a, m)
  BY <1>1, ProjectingExists
<1>4. PICK h : Projecting(h, middle, b, n)
  BY <1>1, ProjectingExists
<1>5. f[m] = middle
  <2>1. m \in 0 .. total /\ m \in 0 .. m
    BY <1>1
  <2>2. \A k \in 0 .. m : f[k] = g[k]
    <3>1. Agree(ab, a, m)
      BY <1>1 DEF Agree
    <3>2. m \in Nat /\ total \in Nat
      BY <1>1
    <3> QED
      BY <1>2, <1>3, <2>1, <3>1, <3>2, ProjectingUnique
  <2>3. ProjectEvents(state, a) = g[Len(a)]
    BY <1>1, <1>3, ProjectEventsLast DEF m
  <2> QED
    BY <2>1, <2>2, <2>3 DEF middle, m
<1>6. \A k \in 0 .. n : f[m + k] = h[k]
  <2> DEFINE T == {k \in Nat : k <= n => f[m + k] = h[k]}
  <2>1. 0 \in T
    <3>1. h[0] = middle /\ m + 0 = m
      BY <1>1, <1>4 DEF Projecting
    <3> QED
      BY <1>5, <3>1
  <2>2. ASSUME NEW k \in Nat, k \in T
        PROVE  k + 1 \in T
    <3> SUFFICES ASSUME k + 1 <= n
                 PROVE  f[m + (k + 1)] = h[k + 1]
      OBVIOUS
    <3>1. /\ m + (k + 1) \in 0 .. m + n /\ m + (k + 1) # 0
          /\ m + (k + 1) - 1 = m + k
          /\ k + 1 \in 0 .. n /\ k + 1 \in 1 .. n /\ k + 1 # 0 /\ k + 1 - 1 = k
          /\ k <= n
      BY <1>1
    <3> DEFINE j == m + (k + 1)
    <3>2. f[j] = ProjectEvent(f[j - 1], ab[j])
      <4>1. j \in 0 .. total /\ j # 0
        BY <1>1, <3>1
      <4> HIDE DEF j
      <4> QED
        BY <1>2, <4>1 DEF Projecting
    <3>3. h[k + 1] = ProjectEvent(h[k], b[k + 1])
      BY <1>4, <3>1 DEF Projecting
    <3> QED
      BY <1>1, <2>2, <3>1, <3>2, <3>3
  <2> HIDE DEF T
  <2>3. \A k \in Nat : k \in T
    BY <2>1, <2>2, Induction
  <2> QED
    BY <1>1, <2>3 DEF T
<1>7. f[total] = h[n]
  BY <1>1, <1>6
<1>8. ProjectEvents(state, ab) = f[total]
  BY <1>1, <1>2, ProjectEventsLast DEF total
<1>9. ProjectEvents(middle, b) = h[n]
  BY <1>1, <1>4, ProjectEventsLast DEF n
<1> QED
  BY <1>7, <1>8, <1>9 DEF ab, middle

\* So is folding them into a read model, its sequence included.
LEMMA FoldSplit ==
  ASSUME NEW S, NEW a \in Seq(S), NEW b \in Seq(S)
  PROVE  Fold(Fold(EmptyModel, a, 0), b, Len(a)) = Fold(EmptyModel, a \o b, 0)
<1> DEFINE ab == a \o b
           left == Fold(Fold(EmptyModel, a, 0), b, Len(a))
           right == Fold(EmptyModel, ab, 0)
<1>1. EmptyModel.sequence = 0 /\ EmptyModel.state = EmptyState
  BY DEF EmptyModel
<1>2. ProjectEvents(EmptyState, ab) = ProjectEvents(ProjectEvents(EmptyState, a), b)
  BY ProjectSplit
<1>3. /\ Len(ab) = Len(a) + Len(b) /\ Len(a) \in Nat /\ Len(b) \in Nat
      /\ a = << >> <=> Len(a) = 0
      /\ b = << >> <=> Len(b) = 0
      /\ ab = << >> <=> Len(ab) = 0
  OBVIOUS
<1> HIDE DEF ab
<1>4. left.state = right.state
  BY <1>1, <1>2 DEF Fold
<1>5. left.sequence = right.sequence
  <2>1. left.sequence = IF b = << >>
                        THEN IF a = << >> THEN 0 ELSE 0 + Len(a)
                        ELSE Len(a) + Len(b)
    BY <1>1 DEF Fold
  <2>2. right.sequence = IF ab = << >> THEN 0 ELSE 0 + Len(ab)
    BY <1>1 DEF Fold
  <2> QED
    BY <1>3, <2>1, <2>2
<1>6. left = [sequence |-> left.sequence, state |-> left.state]
  BY DEF Fold
<1>7. right = [sequence |-> right.sequence, state |-> right.state]
  BY DEF Fold
<1> HIDE DEF left, right
<1>8. left = right
  BY <1>4, <1>5, <1>6, <1>7
<1> QED
  BY <1>8 DEF left, right, ab

-----------------------------------------------------------------------------
(* The read model                                                          *)

\* The read model a prefix of the log stands for.
Replayed(n) == Fold(EmptyModel, SubSeq(log, 1, n), 0)

\* The whole log, and what is left of a prefix when the log has grown.
LEMMA PrefixesOfLog ==
  ASSUME TypeOK
  PROVE  /\ SubSeq(log, 1, Len(log)) = log
         /\ \A n \in 0 .. Len(log) :
              /\ SubSeq(log, 1, n) \in Seq(Event) /\ Len(SubSeq(log, 1, n)) = n
              /\ SubSeq(log, n + 1, Len(log)) \in Seq(Event)
              /\ SubSeq(log, 1, n) \o SubSeq(log, n + 1, Len(log)) = log
<1> DEFINE l == log
<1>1. l \in Seq(Event)
  BY DEF TypeOK
<1> HIDE DEF l
<1>2. SubSeq(l, 1, Len(l)) = l
  BY <1>1
<1>3. ASSUME NEW n \in 0 .. Len(l)
      PROVE  /\ SubSeq(l, 1, n) \in Seq(Event) /\ Len(SubSeq(l, 1, n)) = n
             /\ SubSeq(l, n + 1, Len(l)) \in Seq(Event)
             /\ Len(SubSeq(l, n + 1, Len(l))) = Len(l) - n
  BY <1>1
<1>4. ASSUME NEW n \in 0 .. Len(l)
      PROVE  SubSeq(l, 1, n) \o SubSeq(l, n + 1, Len(l)) = l
  <2> DEFINE a == SubSeq(l, 1, n)
             b == SubSeq(l, n + 1, Len(l))
             ab == a \o b
  <2>1. /\ a \in Seq(Event) /\ Len(a) = n /\ b \in Seq(Event) /\ Len(b) = Len(l) - n
        /\ \A i \in 1 .. n : a[i] = l[i]
        /\ \A i \in 1 .. Len(l) - n : b[i] = l[n + i]
    BY <1>1, <1>3
  <2> HIDE DEF a, b
  <2>2. /\ ab \in Seq(Event) /\ Len(ab) = Len(a) + Len(b)
        /\ \A i \in 1 .. Len(a) : ab[i] = a[i]
        /\ \A i \in 1 .. Len(b) : ab[Len(a) + i] = b[i]
    BY <2>1, ConcatElements
  <2> HIDE DEF ab
  <2>3. Len(l) \in Nat /\ Len(ab) = Len(l)
    BY <1>1, <2>1, <2>2
  <2>4. ASSUME NEW i \in 1 .. Len(l)
        PROVE  ab[i] = l[i]
    <3>1. CASE i <= n
      BY <2>1, <2>2, <3>1
    <3>2. CASE i > n
      <4>1. i - n \in 1 .. Len(l) - n /\ n + (i - n) = i
        BY <2>3, <3>2
      <4>2. ab[n + (i - n)] = b[i - n] /\ b[i - n] = l[n + (i - n)]
        BY <2>1, <2>2, <4>1
      <4> QED
        BY <4>1, <4>2
    <3> QED
      BY <3>1, <3>2
  <2>5. ab = l
    BY <1>1, <2>2, <2>3, <2>4
  <2> QED
    BY <2>5 DEF ab, a, b
<1> QED
  BY <1>2, <1>3, <1>4 DEF l

\* A commit does not change what the old prefixes of the log stand for.
LEMMA CommittedReplay ==
  ASSUME TypeOK, pc = "transaction", Committed
  PROVE  /\ SubSeq(log', 1, Len(log)) = log
         /\ \A n \in 0 .. Len(log) : SubSeq(log', 1, n) = SubSeq(log, 1, n)
<1> DEFINE l == log
           events == Block[envelope.cmd]
           ll == l \o events
<1>1. l \in Seq(Event) /\ events \in Seq(Event) /\ events # << >>
  BY Busy, BlockOfCommand DEF TypeOK
<1>2. log' = ll
  BY DEF Committed
<1> HIDE DEF l, events
<1>3. /\ ll \in Seq(Event) /\ Len(ll) = Len(l) + Len(events)
      /\ \A i \in 1 .. Len(l) : ll[i] = l[i]
  BY <1>1, ConcatElements
<1> HIDE DEF ll
<1>5. ASSUME NEW n \in 0 .. Len(l)
      PROVE  SubSeq(ll, 1, n) = SubSeq(l, 1, n)
  <2>1. Len(l) \in Nat /\ Len(events) \in Nat /\ n \in 0 .. Len(ll)
    BY <1>1, <1>3
  <2>2. /\ SubSeq(ll, 1, n) = [i \in 1 .. n |-> ll[i]]
        /\ SubSeq(l, 1, n) = [i \in 1 .. n |-> l[i]]
    BY <1>1, <1>3, <2>1
  <2>3. \A i \in 1 .. n : ll[i] = l[i]
    BY <1>3, <2>1
  <2> QED
    BY <2>2, <2>3
<1>6. SubSeq(ll, 1, Len(l)) = l
  <2>1. Len(l) \in 0 .. Len(l) /\ SubSeq(l, 1, Len(l)) = l
    BY <1>1
  <2> QED
    BY <1>5, <2>1
<1> QED
  BY <1>2, <1>5, <1>6 DEF l

-----------------------------------------------------------------------------
(* The tables and the read model in memory                                 *)

RowsTyped(tables) ==
  /\ tables.threads \in [Threads -> ThreadRow]
  /\ tables.sessions = [t \in Threads |-> tables.sessions[t]]

\* No session runs, and no plan is kept, for a thread there is not.
Orphanless(tables) ==
  \A t \in Threads : ~tables.threads[t].present =>
    tables.sessions[t] # "running" /\ t \notin tables.plans

Mirrors(tables, state) == Snapshot(tables).state = state

\* What the decider sees to: a thread is created once, and exists before it has
\* a session, a plan or a revert.
Applicable(state, event) ==
  event.thread \in Threads =>
    /\ event.type = "thread.created" => ~state.threads[event.thread].present
    /\ event.type \in {"thread.session-set", "thread.proposed-plan-upserted",
                       "thread.reverted"} =>
         state.threads[event.thread].present

\* An entry of the read model in memory, by its fields.
Fields(present, project, archived, running, hasPlan) ==
  [present |-> present, project |-> project, archived |-> archived,
   running |-> running, hasPlan |-> hasPlan]

Entry(project, archived, running, hasPlan) ==
  Fields(TRUE, project, archived, running, hasPlan)

\* An entry with one of its fields replaced, and what its last field holds.
LEMMA ArchivedReplaced ==
  ASSUME NEW p, NEW a, NEW r, NEW h, NEW x, NEW e, e = Entry(p, a, r, h)
  PROVE  [e EXCEPT !.archived = x] = Entry(p, x, r, h)
<1> DEFINE t == TRUE
<1>1. \A b, c, d : Entry(p, b, c, d) = Fields(t, p, b, c, d)
  BY DEF Entry
<1> HIDE DEF t
<1>2. [Fields(t, p, a, r, h) EXCEPT !.archived = x] = Fields(t, p, x, r, h)
  BY DEF Fields
<1> QED
  BY <1>1, <1>2

LEMMA RunningReplaced ==
  ASSUME NEW p, NEW a, NEW r, NEW h, NEW x, NEW e, e = Entry(p, a, r, h)
  PROVE  [e EXCEPT !.running = x] = Entry(p, a, x, h)
<1> DEFINE t == TRUE
<1>1. \A b, c, d : Entry(p, b, c, d) = Fields(t, p, b, c, d)
  BY DEF Entry
<1> HIDE DEF t
<1>2. [Fields(t, p, a, r, h) EXCEPT !.running = x] = Fields(t, p, a, x, h)
  BY DEF Fields
<1> QED
  BY <1>1, <1>2

LEMMA HasPlanReplaced ==
  ASSUME NEW p, NEW a, NEW r, NEW h, NEW x, NEW e, e = Entry(p, a, r, h)
  PROVE  [e EXCEPT !.hasPlan = x] = Entry(p, a, r, x)
<1> DEFINE t == TRUE
<1>1. \A b, c, d : Entry(p, b, c, d) = Fields(t, p, b, c, d)
  BY DEF Entry
<1> HIDE DEF t
<1>2. [Fields(t, p, a, r, h) EXCEPT !.hasPlan = x] = Fields(t, p, a, r, x)
  BY DEF Fields
<1> QED
  BY <1>1, <1>2

LEMMA EntryHasPlan ==
  ASSUME NEW p, NEW a, NEW r, NEW h
  PROVE  Entry(p, a, r, h).hasPlan = h
BY DEF Entry, Fields

\* The tables keep their types, whatever the events.
LEMMA ProjectorsType ==
  ASSUME NEW tables, RowsTyped(tables), NEW event \in Event, NEW n
  PROVE  RowsTyped(RunProjectors(tables, event, n))
<1> DEFINE threads == ThreadsTable(tables.threads, event)
           sessions == SessionsTable(tables.sessions, event)
<1>1. threads \in [Threads -> ThreadRow]
  <2>1. [present |-> TRUE, project |-> event.project, archived |-> FALSE] \in ThreadRow
    BY DEF Event, ThreadRow
  <2>2. CASE event.type \in {"thread.archived", "thread.unarchived"}
    <3>1. event.type # "thread.created"
      BY <2>2
    <3>2. CASE event.thread \in Threads
      <4> DEFINE row == tables.threads[event.thread]
                 now == IF row.present THEN event.type = "thread.archived"
                        ELSE row.archived
      <4>1. row \in ThreadRow /\ now \in BOOLEAN
        BY <3>2 DEF RowsTyped, ThreadRow
      <4>2. [row EXCEPT !.archived = now] \in ThreadRow
        BY <4>1 DEF ThreadRow
      <4>3. threads = [tables.threads EXCEPT ![event.thread] =
                         [row EXCEPT !.archived = now]]
        BY <2>2, <3>1 DEF ThreadsTable, RowsTyped
      <4> QED
        BY <4>2, <4>3 DEF RowsTyped
    <3>3. CASE event.thread \notin Threads
      BY <2>2, <3>1, <3>3 DEF ThreadsTable, RowsTyped
    <3> QED
      BY <3>2, <3>3
  <2>3. CASE event.type \notin {"thread.archived", "thread.unarchived"}
    BY <2>1, <2>3 DEF ThreadsTable, RowsTyped
  <2> QED
    BY <2>2, <2>3
<1>2. sessions = [t \in Threads |-> sessions[t]]
  <2>1. CASE event.type = "thread.session-set"
    BY <2>1 DEF SessionsTable, RowsTyped, Event
  <2>2. CASE event.type = "thread.reverted"
    <3> DEFINE status == tables.sessions[event.thread]
               now == IF status = "running" THEN "ready" ELSE status
    <3>1. sessions = [tables.sessions EXCEPT ![event.thread] = now]
      BY <2>2 DEF SessionsTable
    <3> HIDE DEF now
    <3> QED
      BY <3>1 DEF RowsTyped
  <2>3. CASE event.type \notin {"thread.session-set", "thread.reverted"}
    BY <2>3 DEF SessionsTable, RowsTyped
  <2> QED
    BY <2>1, <2>2, <2>3
<1> QED
  BY <1>1, <1>2 DEF RowsTyped, RunProjectors

\* How a fresh row is shown.
LEMMA Shown ==
  ASSUME NEW tables, NEW t, NEW p,
         tables.threads[t] = [present |-> TRUE, project |-> p, archived |-> FALSE],
         ~(tables.sessions[t] = "running"), t \notin tables.plans
  PROVE  SnapshotThread(tables, t) = Entry(p, FALSE, FALSE, FALSE)
<1> DEFINE r == tables.sessions[t] = "running"
           h == t \in tables.plans
<1>1. SnapshotThread(tables, t) = Entry(p, FALSE, r, h)
  BY DEF SnapshotThread, Entry, Fields
<1>2. r = FALSE /\ h = FALSE
  OBVIOUS
<1> HIDE DEF r, h
<1> QED
  BY <1>1, <1>2

\* One event: where the event applies, the projectors and the projector in
\* memory keep agreeing.
LEMMA ProjectorsAgree ==
  ASSUME NEW tables, RowsTyped(tables), Orphanless(tables),
         NEW state, Mirrors(tables, state),
         NEW event \in Event, Applicable(state, event), NEW n
  PROVE  /\ Orphanless(RunProjectors(tables, event, n))
         /\ Mirrors(RunProjectors(tables, event, n), ProjectEvent(state, event))
<1> DEFINE after == RunProjectors(tables, event, n)
           th == event.thread
<1>0. /\ after.projects = ProjectsTable(tables.projects, event)
      /\ after.threads = ThreadsTable(tables.threads, event)
      /\ after.sessions = SessionsTable(tables.sessions, event)
      /\ after.plans = PlansTable(tables.plans, event)
  BY DEF RunProjectors
<1> HIDE DEF after
<1>1. /\ state.projects = tables.projects
      /\ state.threads = [t \in Threads |-> SnapshotThread(tables, t)]
  BY DEF Mirrors, Snapshot
<1>2. ASSUME NEW t \in Threads, t # th
      PROVE  /\ after.threads[t] = tables.threads[t]
             /\ after.sessions[t] = tables.sessions[t]
             /\ t \in after.plans <=> t \in tables.plans
  <2>1. after.threads[t] = tables.threads[t]
    BY <1>0, <1>2 DEF ThreadsTable, RowsTyped
  <2>2. after.sessions[t] = tables.sessions[t]
    BY <1>0, <1>2 DEF SessionsTable, RowsTyped
  <2>3. t \in after.plans <=> t \in tables.plans
    BY <1>0, <1>2 DEF PlansTable
  <2> QED
    BY <2>1, <2>2, <2>3
<1>3. ASSUME th \in Threads
      PROVE  /\ SnapshotThread(after, th)
                  = ProjectThread(SnapshotThread(tables, th), event)
             /\ ~after.threads[th].present =>
                  after.sessions[th] # "running" /\ th \notin after.plans
  <2> DEFINE row == tables.threads[th]
             entry == SnapshotThread(tables, th)
             rowA == after.threads[th]
  <2>1. /\ row \in ThreadRow
        /\ ~row.present =>
             tables.sessions[th] # "running" /\ th \notin tables.plans
        /\ state.threads[th] = entry
        /\ entry.present <=> row.present
    BY <1>1, <1>3 DEF RowsTyped, Orphanless, SnapshotThread, AbsentThread, ThreadRow
  <2>2. CASE event.type = "thread.created"
    <3>1. ~row.present
      BY <1>3, <2>1, <2>2 DEF Applicable
    <3>2. /\ rowA = [present |-> TRUE, project |-> event.project, archived |-> FALSE]
          /\ after.sessions = tables.sessions /\ after.plans = tables.plans
      BY <1>0, <1>3, <2>2 DEF ThreadsTable, SessionsTable, PlansTable, RowsTyped
    <3>3. ~(after.sessions[th] = "running") /\ th \notin after.plans
      BY <2>1, <3>1, <3>2
    <3>4. SnapshotThread(after, th) = Entry(event.project, FALSE, FALSE, FALSE)
      BY <3>2, <3>3, Shown
    <3>5. ProjectThread(entry, event) = ThreadCreated(event)
      BY <2>2 DEF ProjectThread
    <3>6. ThreadCreated(event) = Entry(event.project, FALSE, FALSE, FALSE)
      BY DEF ThreadCreated, Entry, Fields
    <3> QED
      BY <3>2, <3>4, <3>5, <3>6
  <2>3. CASE event.type \in {"thread.archived", "thread.unarchived"}
    <3>1. /\ event.type # "thread.created"
          /\ after.sessions = tables.sessions /\ after.plans = tables.plans
      BY <1>0, <2>3 DEF SessionsTable, PlansTable
    <3>2. /\ rowA.present = row.present /\ rowA.project = row.project
          /\ rowA.archived = IF row.present THEN event.type = "thread.archived"
                             ELSE row.archived
      BY <1>0, <1>3, <2>1, <2>3, <3>1 DEF ThreadsTable, RowsTyped, ThreadRow
    <3>3. CASE ~row.present
      <4>1. SnapshotThread(after, th) = AbsentThread /\ entry = AbsentThread
        BY <3>2, <3>3 DEF SnapshotThread
      <4> HIDE DEF entry
      <4>2. ProjectThread(entry, event) = entry
        BY <2>1, <2>3, <3>1, <3>3 DEF ProjectThread
      <4> QED
        BY <2>1, <3>1, <3>2, <3>3, <4>1, <4>2 DEF entry
    <3>4. CASE row.present
      <4> DEFINE p == row.project
                 a == row.archived
                 q == event.type = "thread.archived"
                 r == tables.sessions[th] = "running"
                 h == th \in tables.plans
      <4>1. SnapshotThread(after, th) = Entry(p, q, r, h)
        BY <3>1, <3>2, <3>4 DEF SnapshotThread, Entry, Fields
      <4>2. entry = Entry(p, a, r, h)
        BY <3>4 DEF SnapshotThread, Entry, Fields
      <4> HIDE DEF entry
      <4>3. ProjectThread(entry, event) = [entry EXCEPT !.archived = q]
        <5>1. CASE event.type = "thread.archived"
          <6>1. q = TRUE
            BY <5>1
          <6>2. ProjectThread(entry, event) = [entry EXCEPT !.archived = TRUE]
            BY <2>1, <3>4, <5>1 DEF ProjectThread, ProjectEntry
          <6> QED
            BY <6>1, <6>2
        <5>2. CASE event.type = "thread.unarchived"
          <6>1. q = FALSE
            BY <5>2
          <6>2. ProjectThread(entry, event) = [entry EXCEPT !.archived = FALSE]
            BY <2>1, <3>4, <5>2 DEF ProjectThread, ProjectEntry
          <6> QED
            BY <6>1, <6>2
        <5> QED
          BY <2>3, <5>1, <5>2
      <4> HIDE DEF p, a, q, r, h
      <4>4. ProjectThread(entry, event) = Entry(p, q, r, h)
        BY <4>2, <4>3, ArchivedReplaced
      <4> QED
        BY <3>2, <3>4, <4>1, <4>4 DEF entry
    <3> QED
      BY <3>3, <3>4
  <2>4. CASE event.type \in {"thread.session-set", "thread.proposed-plan-upserted",
                             "thread.reverted"}
    <3>1. row.present /\ entry.present
      BY <1>3, <2>1, <2>4 DEF Applicable
    <3>2. rowA = row
      BY <1>0, <2>4 DEF ThreadsTable
    <3> DEFINE p == row.project
               a == row.archived
               r == tables.sessions[th] = "running"
               h == th \in tables.plans
               rA == after.sessions[th] = "running"
               hA == th \in after.plans
    <3>3. entry = Entry(p, a, r, h)
      BY <3>1 DEF SnapshotThread, Entry, Fields
    <3>4. SnapshotThread(after, th) = Entry(p, a, rA, hA)
      BY <3>1, <3>2 DEF SnapshotThread, Entry, Fields
    <3>5. rA \in BOOLEAN /\ r \in BOOLEAN /\ hA \in BOOLEAN /\ h \in BOOLEAN
      OBVIOUS
    <3> HIDE DEF entry, p, a
    <3>6. CASE event.type = "thread.session-set"
      <4> DEFINE q == event.arg = "running"
      <4>1. rA = q
        BY <1>0, <1>3, <3>6 DEF SessionsTable, RowsTyped
      <4>2. hA = h
        BY <1>0, <3>6 DEF PlansTable
      <4>3. ProjectThread(entry, event) = [entry EXCEPT !.running = q]
        BY <3>1, <3>6 DEF ProjectThread, ProjectEntry, SessionSet
      <4> HIDE DEF q, r, h, rA, hA
      <4>4. ProjectThread(entry, event) = Entry(p, a, q, h)
        BY <3>3, <4>3, RunningReplaced
      <4> QED
        BY <3>1, <3>2, <3>4, <4>1, <4>2, <4>4 DEF entry
    <3>7. CASE event.type = "thread.proposed-plan-upserted"
      <4>1. rA = r
        BY <1>0, <3>7 DEF SessionsTable
      <4>2. hA = TRUE
        BY <1>0, <3>7 DEF PlansTable
      <4>3. ProjectThread(entry, event) = [entry EXCEPT !.hasPlan = TRUE]
        BY <3>1, <3>7 DEF ProjectThread, ProjectEntry, PlanUpserted
      <4> HIDE DEF r, h, rA, hA
      <4>4. ProjectThread(entry, event) = [entry EXCEPT !.hasPlan = hA]
        BY <4>2, <4>3
      <4>5. ProjectThread(entry, event) = Entry(p, a, r, hA)
        BY <3>3, <4>4, HasPlanReplaced
      <4> QED
        BY <3>1, <3>2, <3>4, <4>1, <4>5 DEF entry
    <3>8. CASE event.type = "thread.reverted"
      <4> DEFINE q == entry.hasPlan /\ event.arg # "dropsPlan"
      <4>1. rA = FALSE
        BY <1>0, <1>3, <3>8 DEF SessionsTable, RowsTyped
      <4>2. entry.hasPlan = h
        <5> HIDE DEF r, h
        <5> QED
          BY <3>3, EntryHasPlan
      <4>3. hA = (h /\ event.arg # "dropsPlan")
        BY <1>0, <3>8 DEF PlansTable
      <4>4. hA = q
        <5> HIDE DEF hA, h
        <5> QED
          BY <4>2, <4>3
      <4> DEFINE f == [entry EXCEPT !.running = FALSE]
      <4>5. ProjectThread(entry, event) = [f EXCEPT !.hasPlan = q]
        BY <3>1, <3>8 DEF ProjectThread, ProjectEntry, Reverted
      <4> HIDE DEF q, r, h, rA, hA
      <4>6. f = Entry(p, a, rA, h)
        <5>1. f = [entry EXCEPT !.running = rA]
          BY <4>1
        <5> QED
          BY <3>3, <5>1, RunningReplaced
      <4> HIDE DEF f
      <4>7. ProjectThread(entry, event) = Entry(p, a, rA, hA)
        BY <4>4, <4>5, <4>6, HasPlanReplaced
      <4> QED
        BY <3>1, <3>2, <3>4, <4>7 DEF entry
    <3> QED
      BY <2>4, <3>6, <3>7, <3>8 DEF entry
  <2>5. CASE event.type \notin
               {"thread.created", "thread.archived", "thread.unarchived",
                "thread.session-set", "thread.proposed-plan-upserted",
                "thread.reverted"}
    <3>1. /\ after.threads = tables.threads /\ after.sessions = tables.sessions
          /\ after.plans = tables.plans
      BY <1>0, <2>5 DEF ThreadsTable, SessionsTable, PlansTable
    <3>2. SnapshotThread(after, th) = entry
      BY <3>1 DEF SnapshotThread
    <3> HIDE DEF entry
    <3>3. ProjectThread(entry, event) = entry
      BY <2>5 DEF ProjectThread, ProjectEntry
    <3> QED
      BY <2>1, <3>1, <3>2, <3>3 DEF entry
  <2> QED
    BY <2>2, <2>3, <2>4, <2>5
<1>4. Orphanless(after)
  <2> SUFFICES ASSUME NEW t \in Threads, ~after.threads[t].present
               PROVE  after.sessions[t] # "running" /\ t \notin after.plans
    BY DEF Orphanless
  <2>1. CASE t = th
    BY <1>3, <2>1
  <2>2. CASE t # th
    BY <1>2, <2>2 DEF Orphanless
  <2> QED
    BY <2>1, <2>2
<1>5. Mirrors(after, ProjectEvent(state, event))
  <2> DEFINE ss == [t \in Threads |-> SnapshotThread(after, t)]
  <2>1. after.projects = ProjectEvent(state, event).projects
    BY <1>0, <1>1 DEF ProjectsTable, ProjectEvent
  <2>2. ASSUME NEW t \in Threads, t # th
        PROVE  SnapshotThread(after, t) = SnapshotThread(tables, t)
    <3>1. /\ after.threads[t] = tables.threads[t]
          /\ after.sessions[t] = tables.sessions[t]
          /\ (t \in after.plans) = (t \in tables.plans)
      BY <1>2, <2>2
    <3> QED
      BY <3>1 DEF SnapshotThread
  <2>3. ss = ProjectEvent(state, event).threads
    <3>1. CASE th \in Threads
      <4>1. ProjectEvent(state, event).threads =
              [state.threads EXCEPT ![th] = ProjectThread(state.threads[th], event)]
        BY <3>1 DEF ProjectEvent
      <4>2. state.threads[th] = SnapshotThread(tables, th)
        BY <1>1, <3>1
      <4> QED
        BY <1>1, <1>3, <2>2, <3>1, <4>1, <4>2
    <3>2. CASE th \notin Threads
      <4>1. ProjectEvent(state, event).threads = state.threads
        BY <3>2 DEF ProjectEvent
      <4> QED
        BY <1>1, <2>2, <3>2, <4>1
    <3> QED
      BY <3>1, <3>2
  <2>4. ProjectEvent(state, event) =
          [projects |-> ProjectEvent(state, event).projects,
           threads  |-> ProjectEvent(state, event).threads]
    BY DEF ProjectEvent
  <2> HIDE DEF ss
  <2>5. Snapshot(after).state = [projects |-> after.projects, threads |-> ss]
    BY DEF Snapshot, ss
  <2> QED
    BY <2>1, <2>3, <2>4, <2>5 DEF Mirrors
<1> QED
  BY <1>4, <1>5 DEF after

\* The read model is a folded one, and at most one envelope behind the log.
LEMMA ConsistentNext ==
  /\ TypeOK /\ VerdictFollowsReceipt /\ ExactlyOnce /\ PublicationUnderWay
  /\ SnapshotAgrees /\ ReadModelConsistent
  /\ [Next]_vars
  => ReadModelConsistent'
<1> SUFFICES ASSUME TypeOK, VerdictFollowsReceipt, ExactlyOnce,
                    PublicationUnderWay, SnapshotAgrees, ReadModelConsistent,
                    [Next]_vars
             PROVE  ReadModelConsistent'
  OBVIOUS
<1> USE DEF durable, worker, history
<1>1. CASE OthersStep
  BY <1>1, OthersUnchanged DEF ReadModelConsistent
<1>3. CASE Take
  BY <1>3 DEF Take, ReadModelConsistent
<1>4. CASE AnswerFromReceipt
  BY <1>4 DEF AnswerFromReceipt, ReadModelConsistent
<1>5. CASE Decide
  BY <1>5 DEF Decide, ReadModelConsistent
<1>6. CASE StorageFails
  BY <1>6 DEF StorageFails, ReadModelConsistent
<1>7. CASE Commit
  <2>1. readModel.sequence \in 0 .. Len(log)
    BY DEF TypeOK
  <2>2. SubSeq(log', 1, readModel.sequence) = SubSeq(log, 1, readModel.sequence)
    BY <1>7, <2>1, CommittedReplay DEF Commit
  <2> QED
    BY <1>7, <2>2 DEF Commit, ReadModelConsistent
<1>8. CASE CommitUnacknowledged
  <2>1. readModel.sequence \in 0 .. Len(log)
    BY DEF TypeOK
  <2>2. SubSeq(log', 1, readModel.sequence) = SubSeq(log, 1, readModel.sequence)
    BY <1>8, <2>1, CommittedReplay DEF CommitUnacknowledged
  <2> QED
    BY <1>8, <2>2 DEF CommitUnacknowledged, ReadModelConsistent
<1>9. CASE ApplyCommitted
  <2> DEFINE events == Block[envelope.cmd]
             n == Len(log) - Len(events)
             a == SubSeq(log, 1, n)
             b == SubSeq(log, n + 1, Len(log))
  <2>1. /\ envelope.cmd \in Commands /\ pc = "apply"
        /\ events \in Seq(Event) /\ Len(events) \in {1, 2}
    BY <1>9, Busy, BlockOfCommand DEF ApplyCommitted
  <2>2. n \in 0 .. Len(log) /\ Len(log) \in Nat /\ log \in Seq(Event)
    BY <1>9, <2>1 DEF TypeOK, ApplyCommitted
  <2>3. /\ a \in Seq(Event) /\ Len(a) = n /\ b \in Seq(Event) /\ a \o b = log
        /\ SubSeq(log, 1, Len(log)) = log
    BY <2>2, PrefixesOfLog
  <2>4. b = events
    <3>1. \A i \in 1 .. Len(events) : log[n + i] = events[i]
      <4>1. /\ receipts[envelope.cmd].status = "accepted"
            /\ receipts[envelope.cmd].sequence = Len(log)
        BY <2>1 DEF VerdictFollowsReceipt
      <4> QED
        BY <2>1, <4>1 DEF ExactlyOnce
    <3>2. Len(b) = Len(events) /\ \A i \in 1 .. Len(events) : b[i] = log[n + i]
      <4>1. Len(log) - n = Len(events) /\ Len(events) \in Nat
        <5> HIDE DEF events
        <5> QED
          BY <2>1, <2>2
      <4> HIDE DEF n
      <4>2. Len(b) = Len(log) - n /\ \A i \in 1 .. Len(log) - n : b[i] = log[n + i]
        BY <2>2
      <4> QED
        BY <4>1, <4>2
    <3> HIDE DEF b, events, n
    <3>3. b \in Seq(Event) /\ events \in Seq(Event)
      BY <2>1, <2>3
    <3>4. \A i \in 1 .. Len(b) : b[i] = events[i]
      BY <3>1, <3>2
    <3> QED
      BY <3>2, <3>3, <3>4, SameElements
  <2>5. readModel'.sequence = Len(log) /\ readModel' = Fold(readModel, events, n)
    BY <1>9, <2>1, AppliedSequence DEF ApplyCommitted, NextReadModel
  <2>6. ASSUME ~missed
        PROVE  readModel' = Fold(EmptyModel, log, 0)
    <3>1. readModel.sequence + Len(events) = Len(log)
      BY <2>1, <2>6 DEF PublicationUnderWay
    <3>2. readModel.sequence = n
      <4>1. readModel.sequence \in Nat
        BY DEF TypeOK
      <4> HIDE DEF events
      <4> QED
        BY <2>1, <2>2, <3>1, <4>1
    <3>3. readModel = Fold(EmptyModel, a, 0)
      BY <2>1, <2>6, <3>2 DEF ReadModelConsistent
    <3> HIDE DEF a, b, events, n
    <3>4. Fold(Fold(EmptyModel, a, 0), b, Len(a)) = Fold(EmptyModel, a \o b, 0)
      BY <2>3, FoldSplit
    <3> QED
      BY <2>3, <2>4, <2>5, <3>3, <3>4
  <2> HIDE DEF a, b, events, n
  <2> QED
    BY <1>9, <2>3, <2>5, <2>6 DEF ApplyCommitted, ReadModelConsistent
<1>10. CASE Publish
  BY <1>10 DEF Publish, ReadModelConsistent
<1>11. CASE PublishDone
  BY <1>11 DEF PublishDone, AfterPublish, ReadModelConsistent
<1>12. CASE Reconcile
  <2>1. ASSUME ~missed
        PROVE  /\ readModel' = Fold(EmptyModel, log, 0)
               /\ readModel'.sequence = Len(log)
               /\ SubSeq(log, 1, Len(log)) = log
    <3>1. /\ start = readModel.sequence /\ Len(log) - start <= 2
      BY <1>12, <2>1 DEF Reconcile, PublicationUnderWay
    <3>2. start \in 0 .. Len(log) /\ Len(log) \in Nat
      BY DEF TypeOK
    <3>3. ReconcileTo = Len(log)
      BY <3>1, <3>2, CapacitiesPositive DEF ReconcileTo
    <3> DEFINE a == SubSeq(log, 1, start)
               b == SubSeq(log, start + 1, Len(log))
    <3>4. /\ a \in Seq(Event) /\ Len(a) = start /\ b \in Seq(Event) /\ a \o b = log
          /\ SubSeq(log, 1, Len(log)) = log
      BY <3>2, PrefixesOfLog
    <3>5. readModel = Fold(EmptyModel, a, 0)
      BY <1>12, <2>1, <3>1 DEF Reconcile, ReadModelConsistent
    <3>6. readModel' = Fold(readModel, b, start)
      BY <1>12, <3>3 DEF Reconcile, ReconciledModel
    <3> HIDE DEF a, b
    <3>7. Fold(Fold(EmptyModel, a, 0), b, Len(a)) = Fold(EmptyModel, a \o b, 0)
      BY <3>4, FoldSplit
    <3>8. readModel'.sequence = Len(log)
      BY <1>12, <3>1, <3>3, ReconciledType DEF Reconcile
    <3> QED
      BY <3>4, <3>5, <3>6, <3>7, <3>8
  <2> QED
    BY <1>12, <2>1 DEF Reconcile, ReadModelConsistent
<1>13. CASE ReconcileFails
  <2>1. ASSUME ~missed'
        PROVE  ~missed /\ readModel.sequence = Len(log)
    <3>1. ~missed /\ ~(start < Len(log))
      BY <1>13, <2>1 DEF ReconcileFails
    <3>2. start = readModel.sequence
      BY <1>13, <3>1 DEF ReconcileFails, PublicationUnderWay
    <3>3. start \in 0 .. Len(log) /\ Len(log) \in Nat
      BY DEF TypeOK
    <3> QED
      BY <3>1, <3>2, <3>3
  <2> QED
    BY <1>13, <2>1 DEF ReconcileFails, ReadModelConsistent
<1>14. CASE RecordRejection
  BY <1>14 DEF RecordRejection, ReadModelConsistent
<1>15. CASE Reply
  BY <1>15 DEF Reply, ReadModelConsistent
<1>16. CASE Crash
  BY <1>16 DEF Crash, ReadModelConsistent
<1>17. CASE Boot
  <2>1. SubSeq(log, 1, Len(log)) = log
    BY PrefixesOfLog
  <2>2. /\ readModel' = Snapshot(projection) /\ readModel'.sequence = Len(log)
        /\ UNCHANGED <<log, missed>>
    BY <1>17 DEF Boot, Snapshot, PublicationUnderWay
  <2> QED
    BY <2>1, <2>2 DEF SnapshotAgrees, ReadModelConsistent
<1>18. CASE UNCHANGED vars
  BY <1>18 DEF vars, ReadModelConsistent
<1> QED
  BY <1>1, <1>3, <1>4, <1>5, <1>6, <1>7, <1>8, <1>9, <1>10, <1>11,
     <1>12, <1>13, <1>14, <1>15, <1>16, <1>17, <1>18 DEF Next, WorkerStep

-----------------------------------------------------------------------------
(* Decisions                                                               *)

\* A command about to be written is allowed by the whole log before it, and
\* those in the log were by what was before them.
DecidedOnTheLog ==
  /\ HistoryIsLegal
  /\ pc = "transaction" /\ ~missed =>
       Allowed(ProjectEvents(EmptyState, log), CommandOf[envelope.cmd])

\* Only a decision moves the worker to its transaction, and only its end moves
\* it away.
LEMMA TransactionEntered ==
  ASSUME [Next]_vars, pc' = "transaction"
  PROVE  \/ Decide /\ Allowed(readModel.state, CommandOf[envelope.cmd])
         \/ pc = "transaction" /\ UNCHANGED <<log, envelope, missed>>
BY OthersUnchanged
   DEF Next, WorkerStep, Take, AnswerFromReceipt, Decide,
       StorageFails, Commit, CommitUnacknowledged, ApplyCommitted, Publish,
       PublishDone, Reconcile, ReconcileFails, RecordRejection, Reply, Crash,
       Boot, AfterPublish, durable, worker, history, vars

\* A missed reconciliation is never forgotten.
LEMMA MissedStays ==
  ASSUME TypeOK, [Next]_vars, missed
  PROVE  missed'
BY OthersUnchanged
   DEF Next, WorkerStep, Take, AnswerFromReceipt, Decide,
       StorageFails, Commit, CommitUnacknowledged, ApplyCommitted, Publish,
       PublishDone, Reconcile, ReconcileFails, RecordRejection, Reply, Crash,
       Boot, durable, worker, history, vars, TypeOK

LEMMA DecidedNext ==
  /\ TypeOK /\ VerdictFollowsReceipt /\ ExactlyOnce /\ ReadModelConsistent
  /\ DecidedOnTheLog
  /\ [Next]_vars
  => DecidedOnTheLog'
<1> SUFFICES ASSUME TypeOK, VerdictFollowsReceipt, ExactlyOnce,
                    ReadModelConsistent, DecidedOnTheLog, [Next]_vars
             PROVE  DecidedOnTheLog'
  OBVIOUS
<1>0. /\ log \in Seq(Event) /\ Len(log) \in Nat
      /\ receipts \in [Commands -> Receipt]
  BY DEF TypeOK
<1>1. ASSUME pc' = "transaction", ~missed'
      PROVE  Allowed(ProjectEvents(EmptyState, log'), CommandOf[envelope'.cmd])
  <2>0. ~missed
    BY <1>1, MissedStays
  <2>1. CASE Decide /\ Allowed(readModel.state, CommandOf[envelope.cmd])
    <3>1. pc = "lookup" /\ UNCHANGED <<log, envelope>>
      BY <2>1 DEF Decide, durable
    <3>2. readModel = Fold(EmptyModel, SubSeq(log, 1, Len(log)), 0)
      BY <2>0, <3>1 DEF ReadModelConsistent
    <3>3. SubSeq(log, 1, Len(log)) = log
      BY PrefixesOfLog
    <3>4. readModel.state = ProjectEvents(EmptyState, log)
      BY <3>2, <3>3 DEF Fold, EmptyModel
    <3> QED
      BY <2>1, <3>1, <3>4
  <2>2. CASE pc = "transaction" /\ UNCHANGED <<log, envelope, missed>>
    BY <1>1, <2>2 DEF DecidedOnTheLog
  <2> QED
    BY <1>1, <2>1, <2>2, TransactionEntered
<1>2. HistoryIsLegal'
  <2> SUFFICES ASSUME ~missed', NEW d \in Commands, receipts'[d].status = "accepted"
               PROVE  Allowed(ProjectEvents(EmptyState,
                        SubSeq(log', 1, receipts'[d].sequence - Len(Block[d]))),
                        CommandOf[d])
    BY DEF HistoryIsLegal
  <2>0. ~missed
    BY MissedStays
  <2>1. CASE UNCHANGED <<log, receipts>>
    BY <2>0, <2>1 DEF DecidedOnTheLog, HistoryIsLegal
  <2>2. CASE pc = "reject" /\ RecordRejection
    <3>1. envelope.cmd \in Commands /\ receipts[envelope.cmd] = NoReceipt
      BY <2>2, Busy DEF VerdictFollowsReceipt, Undecided
    <3>2. receipts'[d] = receipts[d] /\ log' = log
      BY <1>0, <2>2, <3>1 DEF RecordRejection
    <3> QED
      BY <2>0, <3>2 DEF DecidedOnTheLog, HistoryIsLegal
  <2>3. CASE pc = "transaction" /\ Committed
    <3>1. /\ SubSeq(log', 1, Len(log)) = log
          /\ \A n \in 0 .. Len(log) : SubSeq(log', 1, n) = SubSeq(log, 1, n)
      BY <2>3, CommittedReplay
    <3>2. Len(Block[d]) \in Nat /\ envelope.cmd \in Commands
      BY <2>3, Busy, BlockOfCommand
    <3>3. CASE d = envelope.cmd
      <4>1. receipts'[d].sequence = Len(log) + Len(Block[d])
        BY <1>0, <2>3, <3>3 DEF Committed, LastSequence
      <4>2. receipts'[d].sequence - Len(Block[d]) = Len(log)
        BY <1>0, <3>2, <4>1
      <4>3. Allowed(ProjectEvents(EmptyState, log), CommandOf[d])
        BY <2>0, <2>3, <3>3 DEF DecidedOnTheLog
      <4> QED
        BY <3>1, <4>2, <4>3
    <3>4. CASE d # envelope.cmd
      <4>1. receipts'[d] = receipts[d]
        BY <1>0, <2>3, <3>2, <3>4 DEF Committed
      <4>2. receipts[d].sequence \in Len(Block[d]) .. Len(log)
        BY <4>1 DEF ExactlyOnce
      <4>3. receipts[d].sequence - Len(Block[d]) \in 0 .. Len(log)
        BY <1>0, <3>2, <4>2
      <4>4. SubSeq(log', 1, receipts[d].sequence - Len(Block[d]))
              = SubSeq(log, 1, receipts[d].sequence - Len(Block[d]))
        BY <3>1, <4>3
      <4> QED
        BY <2>0, <4>1, <4>4 DEF DecidedOnTheLog, HistoryIsLegal
    <3> QED
      BY <3>3, <3>4
  <2> QED
    BY <2>1, <2>2, <2>3, LogUnchanged
<1> QED
  BY <1>1, <1>2 DEF DecidedOnTheLog

-----------------------------------------------------------------------------
(* What a command does to the tables                                       *)

\* The events of a command the decider allows apply, one after the other.
LEMMA AllowedApplies ==
  ASSUME NEW c \in Commands, NEW state, Allowed(state, CommandOf[c])
  PROVE  /\ Applicable(state, Block[c][1])
         /\ Len(Block[c]) = 2 => \A other : Applicable(other, Block[c][2])
<1> DEFINE cmd == CommandOf[c]
<1>1. Block[c] = EventsOf(c, cmd)
  BY DEF Block
<1> HIDE DEF cmd
<1>2. CASE cmd.type = "thread.turn.start"
  <2>1. EventTypes(cmd) = <<"thread.message-sent", "thread.turn-start-requested">>
    BY <1>2 DEF EventTypes
  <2>2. /\ Block[c][1].type = "thread.message-sent"
        /\ Block[c][2].type = "thread.turn-start-requested"
    BY <1>1, <2>1 DEF EventsOf
  <2> QED
    BY <2>2 DEF Applicable
<1>3. CASE cmd.type # "thread.turn.start"
  <2>1. EventTypes(cmd) = <<EventType(cmd.type)>>
    BY <1>3 DEF EventTypes
  <2>2. /\ Len(Block[c]) = 1
        /\ Block[c][1].type = EventType(cmd.type) /\ Block[c][1].thread = cmd.thread
    BY <1>1, <2>1 DEF EventsOf
  <2>3. EventType(cmd.type) = "thread.created" => cmd.type = "thread.create"
    BY DEF EventType
  <2>4. EventType(cmd.type) \in {"thread.session-set",
                                "thread.proposed-plan-upserted", "thread.reverted"}
          => cmd.type \in {"thread.session.set", "thread.proposed-plan.upsert",
                           "thread.revert.complete"}
    BY DEF EventType
  <2>5. cmd.type = "thread.create" => ~state.threads[cmd.thread].present
    BY DEF Allowed, ProjectCommandAllowed, ThreadLifecycleAllowed,
           TurnStartAllowed, ThreadSignalAllowed, ThreadSignal, cmd
  <2>6. cmd.type \in {"thread.session.set", "thread.proposed-plan.upsert",
                      "thread.revert.complete"}
          => state.threads[cmd.thread].present
    BY DEF Allowed, ProjectCommandAllowed, ThreadLifecycleAllowed,
           TurnStartAllowed, ThreadSignalAllowed, ThreadSignal, cmd
  <2> QED
    BY <2>2, <2>3, <2>4, <2>5, <2>6 DEF Applicable
<1> QED
  BY <1>2, <1>3

\* Projecting one event, or two.
LEMMA ProjectBlock ==
  ASSUME NEW state, NEW events, Len(events) \in {1, 2}
  PROVE  /\ Len(events) = 1 =>
              ProjectEvents(state, events) = ProjectEvent(state, events[1])
         /\ Len(events) = 2 =>
              ProjectEvents(state, events)
                = ProjectEvent(ProjectEvent(state, events[1]), events[2])
<1> DEFINE n == Len(events)
<1>1. n \in Nat
  OBVIOUS
<1>2. PICK f : Projecting(f, state, events, n)
  BY <1>1, ProjectingExists
<1>3. ProjectEvents(state, events) = f[n]
  BY <1>1, <1>2, ProjectEventsLast
<1>4. f[0] = state
  BY <1>2 DEF Projecting
<1>5. f[1] = ProjectEvent(state, events[1])
  <2>1. 1 \in 0 .. n /\ 1 # 0 /\ 1 - 1 = 0
    OBVIOUS
  <2> QED
    BY <1>2, <1>4, <2>1 DEF Projecting
<1>6. n = 2 => f[2] = ProjectEvent(f[1], events[2])
  <2>1. n = 2 => 2 \in 0 .. n /\ 2 # 0 /\ 2 - 1 = 1
    OBVIOUS
  <2> QED
    BY <1>2, <2>1 DEF Projecting
<1> QED
  BY <1>3, <1>5, <1>6

\* The tables after an allowed command agree with the state after it.
LEMMA BlockAgrees ==
  ASSUME NEW tables, RowsTyped(tables), NEW c \in Commands, NEW from \in Nat
  PROVE  /\ RowsTyped(RunPipeline(tables, Block[c], from))
         /\ \A state :
              Orphanless(tables) /\ Mirrors(tables, state)
                /\ Allowed(state, CommandOf[c])
              => /\ Orphanless(RunPipeline(tables, Block[c], from))
                 /\ Mirrors(RunPipeline(tables, Block[c], from),
                            ProjectEvents(state, Block[c]))
<1> DEFINE events == Block[c]
           after == RunPipeline(tables, events, from)
           first == RunProjectors(tables, events[1], from + 1)
<1>1. Len(events) \in {1, 2} /\ events \in Seq(Event)
  BY BlockOfCommand
<1>2. /\ events[1] \in Event
      /\ Len(events) = 2 => events[2] \in Event
  <2> HIDE DEF events
  <2> QED
    BY <1>1
<1>3. RowsTyped(first)
  BY <1>2, ProjectorsType
<1>4. /\ Len(events) = 1 => after = first
      /\ Len(events) = 2 => after = RunProjectors(first, events[2], from + 2)
  BY <1>1, PipelineOfBlock
<1>5. RowsTyped(after)
  <2> HIDE DEF first, after
  <2> QED
    BY <1>1, <1>2, <1>3, <1>4, ProjectorsType
<1>6. ASSUME NEW state, Orphanless(tables), Mirrors(tables, state),
             Allowed(state, CommandOf[c])
      PROVE  Orphanless(after) /\ Mirrors(after, ProjectEvents(state, events))
  <2> DEFINE between == ProjectEvent(state, events[1])
  <2>1. /\ Applicable(state, events[1])
        /\ Len(events) = 2 => Applicable(between, events[2])
    BY <1>6, AllowedApplies
  <2>2. Orphanless(first) /\ Mirrors(first, between)
    BY <1>2, <1>6, <2>1, ProjectorsAgree
  <2>3. /\ Len(events) = 1 => ProjectEvents(state, events) = between
        /\ Len(events) = 2 =>
             ProjectEvents(state, events) = ProjectEvent(between, events[2])
    BY <1>1, ProjectBlock
  <2> HIDE DEF first, after, between, events
  <2>4. CASE Len(events) = 1
    BY <1>4, <2>2, <2>3, <2>4
  <2>5. CASE Len(events) = 2
    <3>1. /\ Orphanless(RunProjectors(first, events[2], from + 2))
          /\ Mirrors(RunProjectors(first, events[2], from + 2),
                     ProjectEvent(between, events[2]))
      BY <1>2, <1>3, <2>1, <2>2, <2>5, ProjectorsAgree
    <3> QED
      BY <1>4, <2>3, <2>5, <3>1
  <2> QED
    BY <1>1, <2>4, <2>5
<1> HIDE DEF after, events
<1> QED
  BY <1>5, <1>6 DEF after, events

TablesInOrder ==
  /\ RowsTyped(projection)
  /\ ~missed => Orphanless(projection)
  /\ SnapshotAgrees

\* Only a transaction writes the tables.
LEMMA TablesUnchanged ==
  ASSUME [Next]_vars
  PROVE  (pc = "transaction" /\ Committed) \/ UNCHANGED <<log, projection>>
BY OthersUnchanged
   DEF Next, WorkerStep, Take, AnswerFromReceipt, Decide,
       StorageFails, Commit, CommitUnacknowledged, ApplyCommitted, Publish,
       PublishDone, Reconcile, ReconcileFails, RecordRejection, Reply, Crash,
       Boot, durable, vars

LEMMA TablesNext ==
  /\ TypeOK /\ DecidedOnTheLog /\ TablesInOrder
  /\ [Next]_vars
  => TablesInOrder'
<1> SUFFICES ASSUME TypeOK, DecidedOnTheLog, TablesInOrder, [Next]_vars
             PROVE  TablesInOrder'
  OBVIOUS
<1>1. CASE UNCHANGED <<log, projection>>
  BY <1>1, MissedStays DEF TablesInOrder, SnapshotAgrees
<1>2. CASE pc = "transaction" /\ Committed
  <2> DEFINE c == envelope.cmd
             events == Block[c]
             l == log
             state == ProjectEvents(EmptyState, l)
             after == RunPipeline(projection, events, Len(l))
  <2>1. c \in Commands /\ Len(l) \in Nat /\ l \in Seq(Event)
    BY <1>2, Busy DEF TypeOK
  <2>2. log' = l \o events /\ projection' = after
    BY <1>2 DEF Committed
  <2>3. RowsTyped(after)
    BY <2>1, BlockAgrees DEF TablesInOrder
  <2>4. ASSUME ~missed'
        PROVE  /\ Orphanless(after)
               /\ Snapshot(after) = Fold(EmptyModel, l \o events, 0)
    <3>1. ~missed
      BY <2>4, MissedStays
    <3>2. Snapshot(projection) = Fold(EmptyModel, l, 0)
      BY <3>1 DEF TablesInOrder, SnapshotAgrees
    <3>3. Mirrors(projection, state)
      BY <3>2 DEF Mirrors, Fold, EmptyModel
    <3>4. Allowed(state, CommandOf[c])
      BY <1>2, <3>1 DEF DecidedOnTheLog
    <3>5. Orphanless(after) /\ Mirrors(after, ProjectEvents(state, events))
      BY <2>1, <3>1, <3>3, <3>4, BlockAgrees DEF TablesInOrder
    <3>6. events \in Seq(Event) /\ Len(events) \in {1, 2} /\ events # << >>
      BY <2>1, BlockOfCommand
    <3>7. after.sequence = Len(l) + Len(events)
      BY <2>1, <3>6, PipelineOfBlock
    <3>8. Fold(EmptyModel, l \o events, 0)
            = Fold(Fold(EmptyModel, l, 0), events, Len(l))
      BY <2>1, <3>6, FoldSplit
    <3>9. Fold(EmptyModel, l, 0).state = state
      BY DEF Fold, EmptyModel
    <3>10. Fold(EmptyModel, l \o events, 0)
             = [sequence |-> Len(l) + Len(events),
                state    |-> ProjectEvents(state, events)]
      <4> HIDE DEF events, state, l
      <4> QED
        BY <3>6, <3>8, <3>9 DEF Fold
    <3>11. Snapshot(after) = [sequence |-> after.sequence,
                              state    |-> Snapshot(after).state]
      BY DEF Snapshot
    <3> HIDE DEF after, events, state, l
    <3> QED
      BY <3>5, <3>7, <3>10, <3>11 DEF Mirrors
  <2> HIDE DEF after, events, l
  <2> QED
    BY <2>2, <2>3, <2>4 DEF TablesInOrder, SnapshotAgrees
<1> QED
  BY <1>1, <1>2, TablesUnchanged

-----------------------------------------------------------------------------
(* Read model, tables and decisions rest on one another: a decision is made *)
(* on the read model, what it allows is what the tables can take, and after *)
(* a restart the read model is what the tables hold.                        *)

Replayable == ReadModelConsistent /\ DecidedOnTheLog /\ TablesInOrder

THEOREM ReplayableCorrect == Spec => []Replayable
<1>1. Init => Replayable
  <2> SUFFICES ASSUME Init
               PROVE  Replayable
    OBVIOUS
  <2>1. ProjectEvents(EmptyState, << >>) = EmptyState
    BY ProjectNone
  <2>2. Fold(EmptyModel, << >>, 0) = EmptyModel
    BY <2>1 DEF Fold, EmptyModel
  <2>3. /\ log = << >> /\ projection = EmptyTables /\ readModel = EmptyModel
        /\ EmptyModel.sequence = 0 /\ Len(log) = 0
    BY DEF Init, EmptyModel
  <2>4. SubSeq(log, 1, 0) = << >>
    BY <2>3
  <2>5. ReadModelConsistent
    BY <2>2, <2>3, <2>4 DEF ReadModelConsistent
  <2>6. DecidedOnTheLog
    BY DEF Init, DecidedOnTheLog, HistoryIsLegal, NoReceipt
  <2>7. RowsTyped(EmptyTables) /\ Orphanless(EmptyTables)
    <3>1. NoThreadRow \in ThreadRow /\ ~NoThreadRow.present /\ NoRow # "running"
      BY DEF NoThreadRow, ThreadRow, NoRow
    <3>2. /\ EmptyTables.threads = [thread \in Threads |-> NoThreadRow]
          /\ EmptyTables.sessions = [thread \in Threads |-> NoRow]
          /\ EmptyTables.plans = {}
      BY DEF EmptyTables
    <3> QED
      BY <3>1, <3>2 DEF RowsTyped, Orphanless
  <2>8. Snapshot(EmptyTables) = EmptyModel
    <3>1. \A t \in Threads : SnapshotThread(EmptyTables, t) = AbsentThread
      BY DEF SnapshotThread, EmptyTables, NoThreadRow
    <3>2. EmptyTables.sequence = 0 /\ EmptyTables.projects = {}
      BY DEF EmptyTables
    <3> QED
      BY <3>1, <3>2 DEF Snapshot, EmptyModel, EmptyState
  <2> QED
    BY <2>2, <2>3, <2>5, <2>6, <2>7, <2>8
       DEF Replayable, TablesInOrder, SnapshotAgrees
<1>2. /\ TypeOK /\ VerdictFollowsReceipt /\ ExactlyOnce /\ PublicationUnderWay
      /\ Replayable /\ [Next]_vars
      => Replayable'
  BY ConsistentNext, DecidedNext, TablesNext DEF Replayable, TablesInOrder
<1> QED
  BY <1>1, <1>2, TypeCorrect, VerdictCorrect, ExactlyOnceCorrect,
     PublicationCorrect, PTL DEF Spec

\* The in-memory read model is the projection of a prefix of the log, all of
\* it between two envelopes, after restarts too.
THEOREM ReadModelCorrect == Spec => []ReadModelConsistent
<1>1. Replayable => ReadModelConsistent
  BY DEF Replayable
<1> QED
  BY <1>1, ReplayableCorrect, PTL

\* The read model joined from the tables is the one projected in memory from
\* the whole log, unless a reconciliation has failed: for every command the
\* decider lets through, creations, session changes, plans and reverts.
THEOREM SnapshotCorrect == Spec => []SnapshotAgrees
<1>1. Replayable => SnapshotAgrees
  BY DEF Replayable, TablesInOrder
<1> QED
  BY <1>1, ReplayableCorrect, PTL

\* Every command in the log was allowed by the state its predecessors left
\* behind, unless a reconciliation has failed: no decision is made on a stale
\* read model.
THEOREM DecisionsCorrect == Spec => []HistoryIsLegal
<1>1. Replayable => HistoryIsLegal
  BY DEF Replayable, DecidedOnTheLog
<1> QED
  BY <1>1, ReplayableCorrect, PTL

=============================================================================
