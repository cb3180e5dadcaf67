---------------------------- MODULE TerminalManager ----------------------------
(***************************************************************************)
(* terminal/Layers/Manager.ts: one terminal, its session objects, the      *)
(* shell processes behind them, and its history on disk.                   *)
(*                                                                         *)
(* open, clear, restart and close take the lock of the terminal's thread   *)
(* and wait inside it: for the persist worker, for a file, for a spawn.  A *)
(* process' output and exit, the drains that handle them, kills, evictions *)
(* and writes of the history fall in between.  An action is the code       *)
(* between two points where its fiber may wait.                            *)
(*                                                                         *)
(* Other terminals are the environment: they evict this one's session, and *)
(* keep the persist worker busy.  Output is counted in lines, all alike.   *)
(***************************************************************************)
EXTENDS Integers, Sequences

CONSTANTS
  HistoryLimit,    \* historyLineLimit
  MaxCreated,      \* bound: session objects and processes created
  MaxPending,      \* bound: events a session has pending
  MaxDrains        \* bound: drains under way

ASSUME LimitsAssumption ==
  HistoryLimit \in Nat /\ MaxCreated \in Nat /\ MaxPending \in Nat /\ MaxDrains \in Nat

VARIABLES
  \* the manager
  session,         \* the terminal's session in the map, or None
  object,          \* the session objects created so far
  call,            \* what holds the lock, and where it waits
  drains,          \* fibers that drain the events of a process
  condemned,       \* living processes that a kill escalation was started for
  grace,           \* those that SIGTERM was sent to, before SIGKILL is
  \* the processes
  owner,           \* the session each was spawned for
  alive,           \* those that live
  reported,        \* those of running sessions whose exit callback has run
  \* the persist worker, and the disk
  queued, writing,
  file,            \* lines of the history on disk; none if there is no file
  \* history
  unsaved,         \* the last write failed
  forgotten,       \* those reported whose exit was pending and was thrown away
  mislaid,         \* sessions evicted while a call was at work on them
  spared           \* processes whose escalation a signal that threw has ended

processes == <<owner, alive, reported>>
kills == <<condemned, grace, spared>>
disk == <<queued, writing, file, unsaved>>
history == <<forgotten, mislaid>>
vars == <<session, object, call, drains, kills, processes, disk, history>>

None == 0
Objects == 1 .. Len(object)
Processes == 1 .. Len(owner)
MayCreate == Len(object) + Len(owner) < MaxCreated

Idle == [op |-> "none", at |-> "idle", session |-> None]
Nothing == -1
NoDrains == [start |-> 0, publish |-> 0]

Init ==
  /\ session = None /\ object = << >> /\ call = Idle
  /\ drains = << >> /\ condemned = {} /\ grace = {}
  /\ owner = << >> /\ alive = {} /\ reported = {}
  /\ queued = Nothing /\ writing = Nothing /\ file = 0 /\ unsaved = FALSE
  /\ forgotten = {} /\ mislaid = {} /\ spared = {}

-----------------------------------------------------------------------------
(* Session objects                                                         *)

CapHistory(lines) == IF lines > HistoryLimit THEN HistoryLimit ELSE lines

NewSession(lines) ==
  [status |-> "starting", process |-> None, lines |-> lines,
   pending |-> << >>, draining |-> FALSE]

\* Mutation: the next event finds a drain that is said to run.
Emptied_DrainKept(s) == [s EXCEPT !.pending = << >>]

\* What is pending is thrown away, and the next event forks a drain.
Emptied(s) == [s EXCEPT !.pending = << >>, !.draining = FALSE]
Blank(s) == [Emptied(s) EXCEPT !.lines = 0]
Starting(s) == [Emptied(s) EXCEPT !.status = "starting"]
Off(s, status) == [Emptied(s) EXCEPT !.status = status, !.process = None]

\* Once it is neither in the map nor in the hands of a call, a session without a
\* process is never read again, and the drains left of its processes do nothing.
Discard(o) ==
  /\ object' = [object EXCEPT ![o] = [NewSession(0) EXCEPT !.status = "exited"]]
  /\ drains' = [p \in Processes |-> IF owner[p] = o THEN NoDrains ELSE drains[p]]

\* The process of s if its exit is among what is thrown away.
ExitPending(s) == \E i \in DOMAIN s.pending : s.pending[i] = "exit"
Dropped(s) == IF ExitPending(s) THEN {s.process} ELSE {}

\* Mutation: they are not removed.
Unheard_Never(p) == UNCHANGED <<reported, forgotten>>

\* The callbacks of a process are removed when it is no longer its session's.
Unheard(p) == reported' = reported \ {p} /\ forgotten' = forgotten \ {p}

\* Mutation: a process that is replaced is only not listened to any more.
Killed_Never(s) == {}

Killed(s) == {s.process} \cap alive

\* stopProcess: the session is parted from its process, which is killed.
Stopped(s) == IF s.process = None THEN s ELSE Off(s, "exited")
StopProcess(s) ==
  /\ condemned' = condemned \cup Killed(s)
  /\ UNCHANGED <<grace, spared>>
  /\ Unheard(s.process)

-----------------------------------------------------------------------------
(* The persist worker, as KeyedCoalescingWorker has it: one history is       *)
(* written at a time, and a newer one replaces the one that is queued.       *)

Drained == queued = Nothing /\ writing = Nothing

TakeHistory ==
  /\ writing = Nothing
  /\ queued # Nothing
  /\ writing' = queued /\ queued' = Nothing
  /\ UNCHANGED <<session, object, call, drains, kills, processes, file, unsaved, history>>

\* A history queued meanwhile is taken in the same step.
WriteHistory ==
  /\ writing # Nothing
  /\ \/ file' = writing /\ unsaved' = FALSE
     \/ UNCHANGED file /\ unsaved' = TRUE
  /\ writing' = queued /\ queued' = Nothing
  /\ UNCHANGED <<session, object, call, drains, kills, processes, history>>

-----------------------------------------------------------------------------
(* Calls                                                                   *)

Wait(op, at, o) == call' = [op |-> op, at |-> at, session |-> o]
Return == call' = Idle

OpenNew ==
  /\ call = Idle
  /\ session = None
  /\ MayCreate
  /\ Wait("open", "flush", None)
  /\ UNCHANGED <<session, object, drains, kills, processes, disk, history>>

Flushed ==
  /\ call.at = "flush"
  /\ Drained
  /\ Wait("open", "read", None)
  /\ UNCHANGED <<session, object, drains, kills, processes, disk, history>>

PutSession(lines) ==
  /\ object' = Append(object, NewSession(lines))
  /\ session' = Len(object) + 1

\* readHistory; the session starts in the same step.
ReadHistory ==
  /\ call.at = "read"
  /\ PutSession(CapHistory(file))
  /\ Wait("open", "spawn", Len(object) + 1)
  /\ UNCHANGED <<drains, kills, processes, disk, history>>

\* The stop of a session that is reused, and its empty history on disk.
Renew(op) ==
  /\ object' = [object EXCEPT ![session] = Blank(Stopped(@))]
  /\ StopProcess(object[session])
  /\ Wait(op, "persist", session)
  /\ queued' = 0
  /\ UNCHANGED <<session, drains, owner, alive, writing, file, unsaved, mislaid>>

\* A session that has ended, or, in whatever state it is, one whose directory or
\* environment has changed.  A running one that is only opened again is resized.
OpenAgain ==
  /\ call = Idle
  /\ session # None
  /\ Renew("open")

\* A session whose start was interrupted.
OpenUnstarted ==
  /\ call = Idle
  /\ session # None
  /\ object[session].status = "starting"
  /\ object' = [object EXCEPT ![session] = Starting(@)]
  /\ Wait("open", "spawn", session)
  /\ UNCHANGED <<session, drains, kills, processes, disk, history>>

\* Mutation: the empty history is not persisted.
ClearPersists_Not == UNCHANGED queued

ClearPersists == queued' = 0

Clear ==
  /\ call = Idle
  /\ session # None
  /\ object' = [object EXCEPT ![session] = Blank(@)]
  /\ forgotten' = forgotten \cup Dropped(object[session])
  /\ Wait("clear", "persist", session)
  /\ ClearPersists
  /\ UNCHANGED <<session, drains, kills, processes, writing, file, unsaved, mislaid>>

RestartNew ==
  /\ call = Idle
  /\ session = None
  /\ MayCreate
  /\ PutSession(0)
  /\ Wait("restart", "persist", Len(object) + 1)
  /\ queued' = 0
  /\ UNCHANGED <<drains, kills, processes, writing, file, unsaved, history>>

Restart ==
  /\ call = Idle
  /\ session # None
  /\ Renew("restart")

Close ==
  /\ call = Idle
  /\ \E op \in {"close", "delete"} : Wait(op, "persist", session)
  /\ IF session = None THEN UNCHANGED <<object, kills, reported, forgotten, queued>>
     ELSE /\ object' = [object EXCEPT ![session] = Stopped(@)]
          /\ StopProcess(object[session])
          /\ queued' = object[session].lines
  /\ UNCHANGED <<session, drains, owner, alive, writing, file, unsaved, mislaid>>

\* The history a call waits for is written.
Persisted ==
  /\ call.at = "persist"
  /\ Drained
  /\ \/ /\ call.op \in {"open", "restart"}
        /\ object' = [object EXCEPT ![call.session] = Starting(@)]
        /\ Wait(call.op, "spawn", call.session)
        /\ UNCHANGED <<session, drains>>
     \/ /\ call.op = "clear"
        /\ Return
        /\ UNCHANGED <<session, object, drains>>
     \/ /\ call.op \in {"close", "delete"}
        /\ session' = None
        /\ IF call.op = "close" THEN Return ELSE Wait("delete", "remove", None)
        /\ IF call.session = None THEN UNCHANGED <<object, drains>> ELSE Discard(call.session)
  /\ UNCHANGED <<kills, processes, disk, history>>

RemoveHistory ==
  /\ call.at = "remove"
  /\ file' = 0
  /\ Return
  /\ UNCHANGED <<session, object, drains, kills, processes, queued, writing, unsaved, history>>

\* The callbacks are registered and the session set running before anything waits:
\* a process is listened to exactly while it is its session's.
Spawn ==
  /\ call.at = "spawn"
  /\ MayCreate
  /\ LET p == Len(owner) + 1
     IN /\ object' = [object EXCEPT ![call.session].process = p,
                                    ![call.session].status = "running"]
        /\ alive' = alive \cup {p}
  /\ owner' = Append(owner, call.session)
  /\ drains' = Append(drains, NoDrains)
  /\ Return
  /\ UNCHANGED <<session, kills, reported, disk, history>>

\* Mutation: the lock is kept by a call that failed.
SpawnFails_LockKept ==
  /\ call.at = "spawn"
  /\ object' = [object EXCEPT ![call.session] = Off(@, "error")]
  /\ UNCHANGED <<session, call, drains, kills, processes, disk, history>>

SpawnFails ==
  /\ call.at = "spawn"
  /\ object' = [object EXCEPT ![call.session] = Off(@, "error")]
  /\ Return
  /\ UNCHANGED <<session, drains, kills, processes, disk, history>>

\* The client that called is gone, or the history cannot be read.
Interrupted ==
  /\ call # Idle
  /\ Return
  /\ UNCHANGED <<session, object, drains, kills, processes, disk, history>>

Inactive(s) == s.status # "running"

\* evictInactiveSessionsIfNeeded: enough sessions of other terminals that are
\* inactive, too, were updated later.
Evict ==
  /\ session # None
  /\ Inactive(object[session])
  /\ session' = None
  /\ IF call.session = session
     THEN mislaid' = mislaid \cup {session} /\ UNCHANGED <<object, drains>>
     ELSE Discard(session) /\ UNCHANGED mislaid
  /\ UNCHANGED <<call, kills, processes, disk, forgotten>>

-----------------------------------------------------------------------------
(* Processes                                                               *)

Current(p) == object[owner[p]].process = p /\ object[owner[p]].status = "running"

DrainsOf(p) == drains[p].start + drains[p].publish

\* enqueueProcessEvent; the first event forks a drain.
Enqueue(p, event) ==
  LET s == object[owner[p]]
  IN /\ Current(p)
     /\ Len(s.pending) < MaxPending
     /\ object' = [object EXCEPT ![owner[p]].pending = Append(@, event),
                                 ![owner[p]].draining = TRUE]
     /\ IF s.draining THEN UNCHANGED drains
        ELSE /\ drains[p].start + drains[p].publish < MaxDrains
             /\ drains' = [drains EXCEPT ![p].start = @ + 1]

Output(p) ==
  /\ p \in alive
  /\ Enqueue(p, "output")
  /\ UNCHANGED <<session, call, kills, processes, disk, history>>

\* A kill has no effect any more.
Ended(p) ==
  /\ alive' = alive \ {p}
  /\ condemned' = condemned \ {p} /\ grace' = grace \ {p} /\ spared' = spared \ {p}

\* A shell ends when it likes, on SIGTERM in particular.
Dies(p) ==
  /\ p \in alive
  /\ Ended(p)
  /\ UNCHANGED <<session, object, call, drains, owner, reported, disk, history>>

Exits(p) ==
  /\ p \notin alive \cup reported
  /\ reported' = reported \cup {p}
  /\ Enqueue(p, "exit")
  /\ UNCHANGED <<session, call, kills, owner, alive, disk, history>>

-----------------------------------------------------------------------------
(* runKillEscalation: two signals, and the grace between them.  A signal     *)
(* that throws, as any does on Windows, is only logged, and the escalation   *)
(* is over: the second is not sent when the first has thrown.                *)

Escalating == condemned \ spared

SignalThrows(p) ==
  /\ spared' = spared \cup {p} /\ grace' = grace \ {p}
  /\ UNCHANGED <<condemned, alive>>

\* SIGTERM; what it does to the shell is Dies.
Terminate(p) ==
  /\ p \in Escalating \ grace
  /\ \/ grace' = grace \cup {p} /\ UNCHANGED <<condemned, spared, alive>>
     \/ SignalThrows(p)
  /\ UNCHANGED <<session, object, call, drains, owner, reported, disk, history>>

\* SIGKILL, once the grace is over.
ForceKill(p) ==
  /\ p \in grace
  /\ Ended(p) \/ SignalThrows(p)
  /\ UNCHANGED <<session, object, call, drains, owner, reported, disk, history>>

-----------------------------------------------------------------------------
(* drainProcessEvents.  A drain waits before its first step, and for the     *)
(* listeners it tells of an output.                                          *)

Points == {"start", "publish"}
Leaves(p, at) == [drains EXCEPT ![p][at] = @ - 1]

Stale(p) == ~Current(p)

\* Nothing is left for the drain, or its process is not the session's any more.
DrainStops(p, at) ==
  LET s == object[owner[p]]
  IN /\ Stale(p) \/ s.pending = << >>
     /\ object' = [object EXCEPT ![owner[p]] = Emptied(@)]
     /\ forgotten' = forgotten \cup Dropped(s)
     /\ drains' = Leaves(p, at)
     /\ UNCHANGED <<queued, reported>>

DrainOutput(p, at) ==
  LET s == object[owner[p]]
      lines == CapHistory(s.lines + 1)
  IN /\ ~Stale(p) /\ s.pending # << >> /\ Head(s.pending) = "output"
     /\ object' = [object EXCEPT ![owner[p]].pending = Tail(@), ![owner[p]].lines = lines]
     /\ queued' = lines
     /\ drains' = [Leaves(p, at) EXCEPT ![p].publish = @ + 1]
     /\ UNCHANGED <<reported, forgotten>>

\* Listeners are told of the exit, and sessions of other terminals evicted.
DrainExit(p, at) ==
  LET s == object[owner[p]]
  IN /\ ~Stale(p) /\ s.pending # << >> /\ Head(s.pending) = "exit"
     /\ object' = [object EXCEPT ![owner[p]] = Off(@, "exited")]
     /\ Unheard(p)
     /\ drains' = Leaves(p, at)
     /\ UNCHANGED queued

Drain(p) ==
  /\ \E at \in Points :
       drains[p][at] > 0 /\ (DrainStops(p, at) \/ DrainOutput(p, at) \/ DrainExit(p, at))
  /\ UNCHANGED <<session, call, kills, owner, alive, writing, file, unsaved, mislaid>>

-----------------------------------------------------------------------------

Calls == OpenNew \/ OpenAgain \/ OpenUnstarted \/ Clear \/ RestartNew \/ Restart \/ Close
Progress ==
  Flushed \/ ReadHistory \/ Persisted \/ RemoveHistory \/ Spawn \/ SpawnFails
Worker == TakeHistory \/ WriteHistory
Shells == \E p \in Processes : Output(p) \/ Dies(p) \/ Exits(p)

Next ==
  \/ Calls \/ Progress \/ Interrupted \/ Evict
  \/ Worker
  \/ Shells
  \/ \E p \in Processes : Terminate(p) \/ ForceKill(p) \/ Drain(p)

Spec == Init /\ [][Next]_vars

\* Fibers go on, and files are written; a client need not call, nor a shell print.
Fairness ==
  /\ WF_vars(Progress)
  /\ WF_vars(Worker)
  /\ \A p \in 1 .. MaxCreated : WF_vars(p \in Processes /\ Drain(p))

FairSpec == Spec /\ Fairness

-----------------------------------------------------------------------------
(* Properties                                                              *)

Statuses == {"starting", "running", "exited", "error"}
Histories == 0 .. HistoryLimit

TypeOK ==
  /\ session \in Objects \cup {None}
  /\ \A o \in Objects :
       /\ object[o].status \in Statuses
       /\ object[o].process \in Processes \cup {None}
       /\ object[o].process # None <=> object[o].status = "running"
       /\ object[o].process # None => owner[object[o].process] = o
       /\ object[o].lines \in Histories
       /\ object[o].pending \in Seq({"output", "exit"})
       /\ object[o].draining \in BOOLEAN
  /\ call.op \in {"none", "open", "clear", "restart", "close", "delete"}
  /\ call.at \in {"idle", "flush", "read", "persist", "spawn", "remove"}
  /\ call.session \in Objects \cup {None}
  /\ owner \in Seq(Objects)
  /\ DOMAIN drains = Processes /\ \A p \in Processes : drains[p] \in [Points -> Nat]
  /\ alive \subseteq Processes /\ reported \subseteq {p \in Processes \ alive : Current(p)}
  /\ condemned \subseteq alive /\ spared \subseteq condemned /\ grace \subseteq Escalating
  /\ {queued, writing} \subseteq Histories \cup {Nothing} /\ file \in Histories /\ unsaved \in BOOLEAN
  /\ forgotten \subseteq reported /\ mislaid \subseteq Objects

\* No shell process is left to itself: one that lives is behind the session that
\* calls find, or it is being killed.  The source is up to two exceptions: a
\* session that is evicted while a call is at work on it, and a process that a
\* signal which threw has spared, since nobody tries again.
ProcessesOwned ==
  \A p \in alive :
    \/ session = owner[p] /\ object[session].process = p
    \/ p \in Escalating
    \/ p \in spared
    \/ owner[p] \in mislaid

\* The exit of a shell is not lost: while its session is still shown as running
\* the exit is pending and a drain is under way, however clears, restarts and
\* drains of other processes overlap.  Up to exits that were pending and were
\* thrown away.
ExitsHandled ==
  \A o \in Objects :
    LET p == object[o].process
    IN object[o].status = "running" /\ p \in reported
         => \/ ExitPending(object[o]) /\ DrainsOf(p) > 0
            \/ p \in forgotten

\* What a terminal shows is what is kept of it on disk, once nothing waits to be
\* written: no drain that is overtaken by a clear or a restart, and no call that
\* is interrupted, leaves another history behind.
DiskFollowsTerminal ==
  call = Idle /\ Drained /\ session # None /\ ~unsaved /\ mislaid = {}
    => file = object[session].lines

\* A call returns, and gives the lock back, unless shells print for ever: then the
\* persist worker always has a newer history to write, and who waits for it waits.
CallsReturn == []<>(call = Idle) \/ []<><<\E p \in Processes : Output(p)>>_vars

=============================================================================
