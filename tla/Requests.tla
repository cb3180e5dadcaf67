------------------------------- MODULE Requests -------------------------------
(***************************************************************************)
(* Commands that clients send (ws.ts) on their way to the engine: the gate *)
(* that holds them back until the server has started                       *)
(* (serverRuntimeStartup.ts), and the bootstrap of a first turn, which     *)
(* creates a thread, prepares a worktree and runs a script before it       *)
(* starts the turn, and deletes the thread if that fails.                  *)
(*                                                                         *)
(* A request is carried out by the fiber of its client's connection, and   *)
(* interrupted with it; one that was held back by the gate's worker.  The  *)
(* engine takes one command at a time: it commits it or not, and its       *)
(* caller may see a failure although it was committed.                     *)
(***************************************************************************)
EXTENDS Integers, Sequences

CONSTANTS
  Requests,
  Threads,
  ThreadOf,        \* the thread a request is for
  Bootstraps,      \* what the bootstrap of each request may ask for
  NoRequest,
  MaxFaults        \* bound: faults that happen

Parts == {"createThread", "prepareWorktree", "runSetupScript"}

ASSUME RequestsAssumption ==
  /\ ThreadOf \in [Requests -> Threads]
  /\ Bootstraps \in [Requests -> SUBSET SUBSET Parts]
  /\ NoRequest \notin Requests
  /\ MaxFaults \in Nat

VARIABLES
  \* the gate
  readiness,       \* commandReadinessState
  queue,           \* commandQueue
  worker,          \* the request its worker is at work on
  \* the requests
  parts,           \* what the bootstrap of each asks for
  at,              \* where each is
  created,         \* those whose createdThread is set
  answer,          \* what their clients are told
  gone,            \* those whose clients do not listen any more
  \* the engine
  thread,          \* status of each thread
  \* history
  maker,           \* the request that created it
  turns,           \* requests whose turn start was committed
  faulted,         \* requests that a fault struck while they were carried out
  left             \* faults that may still happen

gate == <<readiness, queue, worker>>
engine == <<thread, maker, turns>>
faults == <<faulted, left>>
vars == <<gate, parts, at, created, answer, gone, engine, faults>>

Steps == <<"create", "worktree", "meta", "setup", "turn">>
PartOf ==
  [create |-> "createThread", worktree |-> "prepareWorktree", meta |-> "prepareWorktree",
   setup |-> "runSetupScript"]

Init ==
  /\ readiness = "pending" /\ queue = << >> /\ worker = NoRequest
  /\ parts \in {p \in [Requests -> SUBSET Parts] : \A r \in Requests : p[r] \in Bootstraps[r]}
  /\ at = [r \in Requests |-> "unsent"]
  /\ created = {} /\ gone = {}
  /\ answer = [r \in Requests |-> "none"]
  /\ thread \in [Threads -> {"absent", "present"}]
  /\ maker = [t \in Threads |-> NoRequest]
  /\ turns = {} /\ faulted = {} /\ left = MaxFaults

Running == {r \in Requests : at[r] \notin {"unsent", "held", "done"}}

\* A fault that is not just a step that fails: an answer of the engine that is lost,
\* a connection that is closed, a deletion that fails, a restart.
Fault(struck) == left > 0 /\ left' = left - 1 /\ faulted' = faulted \cup struck

-----------------------------------------------------------------------------
(* The bootstrap                                                           *)

\* A step is there for the part that asks for it; every request starts a turn.
Asked(r, step) == step = "turn" \/ PartOf[step] \in parts[r]

\* What is left to do from the i-th step.
From(r, i) ==
  LET asked == {j \in i .. Len(Steps) : Asked(r, Steps[j])}
  IN Steps[CHOOSE j \in asked : \A k \in asked : j <= k]

StepNumber(step) == CHOOSE i \in DOMAIN Steps : Steps[i] = step
First(r) == From(r, 1)

GoTo(r, step) == at' = [at EXCEPT ![r] = step]
Proceed(r) ==
  /\ GoTo(r, From(r, StepNumber(at[r]) + 1))
  /\ UNCHANGED answer

Finish(r, result) ==
  /\ GoTo(r, "done")
  /\ answer' = [answer EXCEPT ![r] = result]

\* Mutation: a thread is cleaned up if it was to be created.
CleanedUp_ToBeCreated(r) == "createThread" \in parts[r]

\* Mutation: a thread is not cleaned up when its turn is not started.
CleanedUp_NotAtTurn(r) == r \in created /\ at[r] # "turn"

\* createdThread
CleanedUp(r) == r \in created

\* The cause is not an interruption: what was created is deleted first.
Fails(r) ==
  IF CleanedUp(r) THEN GoTo(r, "cleanup") /\ UNCHANGED answer
  ELSE Finish(r, "failed")

\* The guards of the decider; a thread that was deleted still counts as one.
Allowed(r) ==
  LET status == thread[ThreadOf[r]]
  IN at[r] \in {"create", "meta", "turn", "cleanup"} /\ (at[r] = "create" <=> status = "absent")

\* The command of the step r is at is committed.
Commit(r) ==
  LET t == ThreadOf[r]
  IN /\ Allowed(r)
     /\ thread' = [thread EXCEPT ![t] = CASE at[r] = "create" -> "present"
                                          [] at[r] = "cleanup" -> "deleted"
                                          [] OTHER -> @]
     /\ maker' = IF at[r] = "create" THEN [maker EXCEPT ![t] = r] ELSE maker
     /\ turns' = IF at[r] = "turn" THEN turns \cup {r} ELSE turns

Dispatching == {"create", "meta", "turn"}

\* A dispatch that is acknowledged.
Dispatched(r) ==
  /\ at[r] \in Dispatching
  /\ Commit(r)
  /\ created' = IF at[r] = "create" THEN created \cup {r} ELSE created
  /\ IF at[r] = "turn" THEN Finish(r, "accepted") ELSE Proceed(r)
  /\ UNCHANGED <<gate, parts, gone, faults>>

\* One that is refused, or fails: the engine is at fault, or the database is.
Refused(r) ==
  /\ at[r] \in Dispatching
  /\ Fails(r)
  /\ UNCHANGED <<gate, parts, created, gone, engine, faults>>

\* One that was committed, and whose caller is told that it failed.
Unacknowledged(r) ==
  /\ at[r] \in Dispatching
  /\ Fault({r})
  /\ Commit(r)
  /\ Fails(r)
  /\ UNCHANGED <<gate, parts, created, gone>>

\* git.createWorktree
PrepareWorktree(r) ==
  /\ at[r] = "worktree"
  /\ Proceed(r) \/ Fails(r)
  /\ UNCHANGED <<gate, parts, created, gone, engine, faults>>

\* That the script cannot be launched is recorded, if that succeeds, and is all; only a
\* defect of the runner or of the terminal fails the bootstrap.
RunSetupScript(r) ==
  /\ at[r] = "setup"
  /\ Proceed(r) \/ Fails(r)
  /\ UNCHANGED <<gate, parts, created, gone, engine, faults>>

\* cleanupCreatedThread: that it fails is ignored.
Cleanup(r) ==
  /\ at[r] = "cleanup"
  /\ \/ Commit(r) /\ UNCHANGED faults
     \/ Fault({r}) /\ UNCHANGED engine
  /\ Finish(r, "failed")
  /\ UNCHANGED <<gate, parts, created, gone>>

\* The connection is closed: the fiber ends where it is, and nothing is cleaned up.
\* The command it waits for may be committed all the same.
Interrupted(r) ==
  /\ r \in Running /\ r # worker
  /\ Fault({r})
  /\ Commit(r) \/ UNCHANGED engine
  /\ GoTo(r, "done")
  /\ gone' = gone \cup {r}
  /\ UNCHANGED <<gate, parts, created, answer>>

-----------------------------------------------------------------------------
(* The gate                                                                *)

\* A turn of a legacy provider without a bootstrap is refused at once.
Send(r) ==
  /\ at[r] = "unsent"
  /\ \/ parts[r] = {} /\ Finish(r, "failed") /\ UNCHANGED queue
     \/ readiness = "ready" /\ GoTo(r, First(r)) /\ UNCHANGED <<queue, answer>>
     \/ readiness = "failed" /\ Finish(r, "failed") /\ UNCHANGED queue
     \/ /\ readiness = "pending"
        /\ GoTo(r, "held") /\ queue' = Append(queue, r)
        /\ UNCHANGED answer
  /\ UNCHANGED <<readiness, worker, parts, created, gone, engine, faults>>

\* Mutation: the worker does not wait for the server.
MayBegin_AtOnce == readiness # "failed"

MayBegin == readiness = "ready"

Take ==
  /\ worker = NoRequest
  /\ queue # << >>
  /\ worker' = Head(queue) /\ queue' = Tail(queue)
  /\ UNCHANGED <<readiness, parts, at, created, answer, gone, engine, faults>>

Begin ==
  /\ worker # NoRequest /\ at[worker] = "held"
  /\ MayBegin
  /\ GoTo(worker, First(worker))
  /\ UNCHANGED <<gate, parts, created, answer, gone, engine, faults>>

\* Mutation: a request the worker gives up on is not settled.
RefuseHeld_Unsettled ==
  /\ worker # NoRequest /\ at[worker] = "held"
  /\ readiness = "failed"
  /\ GoTo(worker, "done")
  /\ UNCHANGED <<gate, parts, created, answer, gone, engine, faults>>

\* The server failed to start.
RefuseHeld ==
  /\ worker # NoRequest /\ at[worker] = "held"
  /\ readiness = "failed"
  /\ Finish(worker, "failed")
  /\ UNCHANGED <<gate, parts, created, gone, engine, faults>>

\* settleQueuedCommand; what becomes of the request does not stop the worker.
Settle ==
  /\ worker # NoRequest /\ at[worker] = "done"
  /\ worker' = NoRequest
  /\ UNCHANGED <<readiness, queue, parts, at, created, answer, gone, engine, faults>>

\* The client of a request that is held back, or that the worker carries out, is
\* gone: the request is not.
Abandoned(r) ==
  /\ at[r] = "held" \/ (r = worker /\ at[r] # "done")
  /\ r \notin gone
  /\ Fault({})
  /\ gone' = gone \cup {r}
  /\ UNCHANGED <<gate, parts, at, created, answer, engine>>

\* signalCommandReady, failCommandReady
StartupEnds ==
  /\ readiness = "pending"
  /\ readiness' \in {"ready", "failed"}
  /\ UNCHANGED <<queue, worker, parts, at, created, answer, gone, engine, faults>>

\* What is in memory is lost, and what was going on is not taken up again.
Restart ==
  /\ LET lost == {r \in Requests : at[r] \notin {"unsent", "done"}}
     IN /\ Fault(lost)
        /\ at' = [r \in Requests |-> IF r \in lost THEN "done" ELSE at[r]]
        /\ gone' = gone \cup lost
  /\ readiness' = "pending" /\ queue' = << >> /\ worker' = NoRequest
  /\ created' = {}
  /\ UNCHANGED <<parts, answer, engine>>

-----------------------------------------------------------------------------

Step(r) == Dispatched(r) \/ Refused(r) \/ PrepareWorktree(r) \/ RunSetupScript(r) \/ Cleanup(r)
Gate == Take \/ Begin \/ RefuseHeld \/ Settle

Next ==
  \/ \E r \in Requests :
       Send(r) \/ Step(r) \/ Unacknowledged(r) \/ Interrupted(r) \/ Abandoned(r)
  \/ Gate
  \/ StartupEnds
  \/ Restart

Spec == Init /\ [][Next]_vars

\* The server's startup, the fibers, git and the engine all come to an end.
Fairness ==
  /\ WF_vars(StartupEnds)
  /\ WF_vars(Gate)
  /\ \A r \in Requests : WF_vars(Step(r))

FairSpec == Spec /\ Fairness

-----------------------------------------------------------------------------
(* Properties                                                              *)

Places == {"unsent", "held", "cleanup", "done"} \cup {Steps[i] : i \in DOMAIN Steps}

TypeOK ==
  /\ readiness \in {"pending", "ready", "failed"}
  /\ queue \in Seq(Requests) /\ worker \in Requests \cup {NoRequest}
  /\ parts \in [Requests -> SUBSET Parts]
  /\ at \in [Requests -> Places]
  /\ \A i \in DOMAIN queue : at[queue[i]] = "held"
  /\ created \subseteq Requests /\ gone \subseteq Requests /\ turns \subseteq Requests
  /\ answer \in [Requests -> {"none", "accepted", "failed"}]
  /\ thread \in [Threads -> {"absent", "present", "deleted"}]
  /\ maker \in [Threads -> Requests \cup {NoRequest}]
  /\ faulted \subseteq Requests /\ left \in 0 .. MaxFaults

\* No request is carried out before the server has started, nor by a server that
\* failed to, however late it is sent and whoever waits for it.
NothingBeforeReady == Running # {} => readiness = "ready"

\* A bootstrap that fails deletes the thread it created, never one that was there,
\* or that another request for the same thread created.
DeletesOnlyItsOwn ==
  [][\A t \in Threads :
       thread[t] = "present" /\ thread'[t] = "deleted"
         => \E r \in Requests : at[r] = "cleanup" /\ at'[r] = "done" /\ maker[t] = r]_vars

\* Whatever step fails, a thread that a bootstrap created is there in the end if its
\* turn was started, and only then, whatever becomes of other requests for
\* the thread.  Up to interruptions, restarts, deletions that fail and commands that
\* were committed unknown to their caller.
AllOrNothing ==
  \A t \in Threads :
    maker[t] # NoRequest /\ maker[t] \notin faulted /\ at[maker[t]] = "done"
      => (thread[t] = "present" <=> maker[t] \in turns)

\* Every request is answered, unless its client is gone: none is forgotten by the
\* gate when the server starts, or fails to, while it is being held back.
EveryRequestAnswered ==
  \A r \in Requests : at[r] # "unsent" ~> (answer[r] # "none" \/ r \in gone)

=============================================================================
