------------------------------- MODULE PiRuntime -------------------------------
(***************************************************************************)
(* One thread of the Pi runtime (pi/Layers/PiRuntime.ts): calls of several *)
(* clients that open it, send it prompts, switch its model and abort it,   *)
(* the agent of its session, which reports what it does, and the promise   *)
(* of each prompt, whose handlers outlive the call that sent it.           *)
(*                                                                         *)
(* Calls give way to each other where they await something.  A call looks  *)
(* the thread's state up in activeThreads and creates one if there is      *)
(* none, after awaiting the session: two calls may create one each, and    *)
(* then each has an agent of its own.                                      *)
(***************************************************************************)
EXTENDS Integers, Sequences, FiniteSets

CONSTANTS
  Callers,         \* each makes one call
  NoCaller,
  MaxRuns          \* bound: times an agent starts to work

ASSUME PiRuntimeAssumption ==
  /\ IsFiniteSet(Callers) /\ NoCaller \notin Callers
  /\ MaxRuns \in Nat

VARIABLES
  exists,          \* the thread was created, and its session is on disk
  states,          \* the ActivePiThreadState objects created for it
  active,          \* the one activeThreads holds, 0 for none
  op,              \* what each caller calls
  at,              \* where its call is; that of a prompt goes on with its promise
  mine,            \* the state object the call found
  published,       \* the last snapshot sent to clients
  runs,            \* times an agent has started
  doubled,         \* history: a prompt was started while another was on its way
  overtaken        \* history: the states whose agent started before an abort was over

vars == <<exists, states, active, op, at, mine, published, runs, doubled, overtaken>>

Ops == {"get", "prompt", "model", "abort"}
Phases == {"off", "starting", "working", "ended"}
Places == {"unsent", "opening", "opened", "held", "modelling", "shown", "pending",
           "resolved", "rejected", "aborting", "aborted", "done"}

\* What of a snapshot matters: its status, whether it has a lastError, and whether its
\* last message is a pending one of the assistant.
Snapshots == [status : {"idle", "running", "error"}, lastError : BOOLEAN, pending : BOOLEAN]
Idle == [status |-> "idle", lastError |-> FALSE, pending |-> FALSE]

States == [snapshot : Snapshots, inFlightPrompt : Callers \cup {NoCaller},
           agent : Phases, runner : Callers \cup {NoCaller}]
NewState == [snapshot |-> Idle, inFlightPrompt |-> NoCaller, agent |-> "off", runner |-> NoCaller]

Init ==
  /\ exists \in BOOLEAN
  /\ states = << >> /\ active = 0
  /\ op = [c \in Callers |-> "none"]
  /\ at = [c \in Callers |-> "unsent"]
  /\ mine = [c \in Callers |-> 0]
  /\ published = Idle /\ runs = 0 /\ doubled = FALSE /\ overtaken = {}

-----------------------------------------------------------------------------
(* Snapshots                                                               *)

\* toThreadSnapshot: the messages are those of the session, of which none is pending.
Rebuilt(s) == [s EXCEPT !.pending = FALSE]

\* finalizePendingAssistant leaves a rebuilt snapshot as it is.
Settled(s, status, failed) == [Rebuilt(s) EXCEPT !.status = status, !.lastError = failed]

Show(i, snapshot) ==
  /\ states' = [states EXCEPT ![i].snapshot = snapshot]
  /\ published' = snapshot

GoTo(c, place) == at' = [at EXCEPT ![c] = place]

\* A call that is over, with the handlers of its promise.
Finish(c) ==
  /\ GoTo(c, "done")
  /\ op' = [op EXCEPT ![c] = "none"] /\ mine' = [mine EXCEPT ![c] = 0]
Streaming(i) == states[i].agent # "off"

-----------------------------------------------------------------------------
(* Opening the thread                                                      *)

CreateThread ==
  /\ ~exists
  /\ exists' = TRUE
  /\ states' = <<NewState>> /\ active' = 1 /\ published' = Idle
  /\ UNCHANGED <<op, at, mine, runs, doubled, overtaken>>

\* ensureThreadState
Call(c, o) ==
  /\ exists
  /\ at[c] = "unsent"
  /\ op' = [op EXCEPT ![c] = o]
  /\ mine' = [mine EXCEPT ![c] = active]
  /\ GoTo(c, IF active # 0 THEN "held" ELSE "opening")
  /\ UNCHANGED <<exists, states, active, published, runs, doubled, overtaken>>

\* createSessionState: the state replaces one that another call put there meanwhile.
Open(c) ==
  /\ at[c] = "opening"
  /\ states' = Append(states, NewState)
  /\ active' = Len(states) + 1
  /\ mine' = [mine EXCEPT ![c] = Len(states) + 1]
  /\ GoTo(c, "opened")
  /\ UNCHANGED <<exists, op, published, runs, doubled, overtaken>>

Opened(c) ==
  /\ at[c] = "opened"
  /\ states' = [states EXCEPT ![mine[c]].snapshot = Rebuilt(@)]
  /\ GoTo(c, "held")
  /\ UNCHANGED <<exists, active, op, mine, published, runs, doubled, overtaken>>

OpenFails(c) ==
  /\ at[c] = "opening"
  /\ Finish(c)
  /\ UNCHANGED <<exists, states, active, published, runs, doubled, overtaken>>

\* getThread
Get(c) ==
  /\ op[c] = "get" /\ at[c] = "held"
  /\ states' = [states EXCEPT ![mine[c]].snapshot = Rebuilt(@)]
  /\ Finish(c)
  /\ UNCHANGED <<exists, active, published, runs, doubled, overtaken>>

-----------------------------------------------------------------------------
(* Prompts and models                                                      *)

\* "This Pi session is already running."
Busy(i) == states[i].inFlightPrompt # NoCaller \/ Streaming(i)

\* The call is refused, as the thread is busy or its model will not do.
Refused(c) ==
  /\ op[c] \in {"prompt", "model"} /\ at[c] = "held"
  /\ Finish(c)
  /\ UNCHANGED <<exists, states, active, published, runs, doubled, overtaken>>

\* session.setModel is awaited.
SetModel(c) ==
  /\ op[c] \in {"prompt", "model"} /\ at[c] = "held"
  /\ ~Busy(mine[c])
  /\ GoTo(c, "modelling")
  /\ UNCHANGED <<exists, states, active, op, mine, published, runs, doubled, overtaken>>

\* It fails, or a key is missing.
SetModelFails(c) ==
  /\ at[c] = "modelling"
  /\ Finish(c)
  /\ UNCHANGED <<exists, states, active, published, runs, doubled, overtaken>>

\* setThreadModel: the status is kept, the error is not.
ModelSet(c) ==
  /\ op[c] = "model" /\ at[c] = "modelling"
  /\ Show(mine[c], [Rebuilt(states[mine[c]].snapshot) EXCEPT !.lastError = FALSE])
  /\ Finish(c)
  /\ UNCHANGED <<exists, active, runs, doubled, overtaken>>

\* sendPrompt shows the prompt, and a message of the assistant to come.  The guard is
\* not looked at again after the model was set.
ShowPrompt(c) ==
  /\ op[c] = "prompt"
  /\ at[c] = "modelling" \/ (at[c] = "held" /\ ~Busy(mine[c]))
  /\ Show(mine[c], [status |-> "running", lastError |-> FALSE, pending |-> TRUE])
  /\ GoTo(c, "shown")
  /\ UNCHANGED <<exists, active, op, mine, runs, doubled, overtaken>>

\* Prompts that were let through and have not been settled.
UnderWay(i) == {c \in Callers : mine[c] = i /\ op[c] = "prompt"
                                  /\ at[c] \in {"shown", "pending", "resolved", "rejected"}}

\* session.prompt is called, and the call answered.
StartPrompt(c) ==
  /\ at[c] = "shown"
  /\ states' = [states EXCEPT ![mine[c]].inFlightPrompt = c]
  /\ GoTo(c, "pending")
  /\ doubled' = (doubled \/ UnderWay(mine[c]) # {c})
  /\ UNCHANGED <<exists, active, op, mine, published, runs, overtaken>>

\* The promise is fulfilled when the agent is not at work for the prompt any more, or
\* never was.
Resolve(c) ==
  /\ at[c] = "pending"
  /\ states[mine[c]].runner # c
  /\ Show(mine[c], Settled(states[mine[c]].snapshot, "idle", FALSE))
  /\ GoTo(c, "resolved")
  /\ UNCHANGED <<exists, active, op, mine, runs, doubled, overtaken>>

\* Mutation: a prompt that failed is not shown as settled.
Reject_StillRunning(c) ==
  /\ at[c] = "pending"
  /\ states[mine[c]].runner # c
  /\ Show(mine[c], [Rebuilt(states[mine[c]].snapshot) EXCEPT !.lastError = TRUE])
  /\ GoTo(c, "rejected")
  /\ UNCHANGED <<exists, active, op, mine, runs, doubled, overtaken>>

\* It is rejected: the prompt could not be started, or a step after it failed.
Reject(c) ==
  /\ at[c] = "pending"
  /\ states[mine[c]].runner # c
  /\ Show(mine[c], Settled(states[mine[c]].snapshot, "error", TRUE))
  /\ GoTo(c, "rejected")
  /\ UNCHANGED <<exists, active, op, mine, runs, doubled, overtaken>>

\* Mutation: only a prompt that was fulfilled is cleared (then, for finally).
Finally_IfResolved(c) ==
  /\ at[c] \in {"resolved", "rejected"}
  /\ states' = [states EXCEPT ![mine[c]].inFlightPrompt = IF at[c] = "resolved" THEN NoCaller ELSE @]
  /\ Finish(c)
  /\ UNCHANGED <<exists, active, published, runs, doubled, overtaken>>

\* finally, once the snapshot is published: whichever prompt is in flight is cleared.
Finally(c) ==
  /\ at[c] \in {"resolved", "rejected"}
  /\ states' = [states EXCEPT ![mine[c]].inFlightPrompt = NoCaller]
  /\ Finish(c)
  /\ UNCHANGED <<exists, active, published, runs, doubled, overtaken>>

-----------------------------------------------------------------------------
(* The agent and its events                                                *)

\* It takes a prompt that is pending, unless it is at work, and may take it up again
\* (a retry): it streams from then on.
Take(i, c) ==
  /\ mine[c] = i /\ op[c] = "prompt" /\ at[c] = "pending"
  /\ ~Streaming(i)
  /\ runs < MaxRuns /\ runs' = runs + 1
  /\ states' = [states EXCEPT ![i].agent = "starting", ![i].runner = c]
  /\ UNCHANGED <<exists, active, op, at, mine, published, doubled, overtaken>>

\* agent_start, message_update, tool_execution_start, tool_execution_end, agent_end
OnEvent(i, phase, snapshot) ==
  /\ states' = [states EXCEPT ![i].agent = phase, ![i].snapshot = snapshot]
  /\ published' = snapshot
  /\ UNCHANGED <<exists, active, op, at, mine, runs, doubled>>

AgentStart(i) ==
  /\ states[i].agent = "starting"
  /\ OnEvent(i, "working", [status |-> "running", lastError |-> FALSE, pending |-> TRUE])
  /\ overtaken' = IF \E c \in Callers : mine[c] = i /\ at[c] = "aborted"
                  THEN overtaken \cup {i} ELSE overtaken

TextDelta(i) ==
  /\ states[i].agent = "working"
  /\ OnEvent(i, "working", [states[i].snapshot EXCEPT !.status = "running", !.pending = TRUE])
  /\ UNCHANGED overtaken

ToolStart(i) ==
  /\ states[i].agent = "working"
  /\ OnEvent(i, "working", [states[i].snapshot EXCEPT !.status = "running"])
  /\ UNCHANGED overtaken

ToolEnd(i) ==
  /\ states[i].agent = "working"
  /\ OnEvent(i, "working", states[i].snapshot)
  /\ UNCHANGED overtaken

AgentEnd(i) ==
  /\ states[i].agent = "working"
  /\ LET s == states[i].snapshot
     IN OnEvent(i, "ended", Settled(s, IF s.lastError THEN "error" ELSE "idle", s.lastError))
  /\ UNCHANGED overtaken

Aborting(i) == {c \in Callers : mine[c] = i /\ at[c] = "aborting"}
Aborted(s) == [Rebuilt(s) EXCEPT !.status = "idle"]

\* The agent is idle, which is all that session.abort waits for.
AgentIdle(i) ==
  /\ states[i].agent = "ended"
  /\ states' = [states EXCEPT ![i] = [@ EXCEPT !.agent = "off", !.runner = NoCaller]]
  /\ at' = [c \in Callers |-> IF c \in Aborting(i) THEN "aborted" ELSE at[c]]
  /\ overtaken' = overtaken \ {i}
  /\ UNCHANGED <<exists, active, op, mine, published, runs, doubled>>

\* Mutation: the abort does not wait for the agent.
Abort_AtOnce(c) ==
  /\ op[c] = "abort" /\ at[c] = "held"
  /\ GoTo(c, "aborted")
  /\ UNCHANGED <<exists, states, active, op, mine, published, runs, doubled, overtaken>>

\* abortThread awaits session.abort, which has nothing to wait for if the agent is off:
\* a prompt that the agent has not taken yet is not aborted.
Abort(c) ==
  /\ op[c] = "abort" /\ at[c] = "held"
  /\ GoTo(c, IF Streaming(mine[c]) THEN "aborting" ELSE "aborted")
  /\ UNCHANGED <<exists, states, active, op, mine, published, runs, doubled, overtaken>>

\* It goes on, without looking at the agent again.
AbortEnds(c) ==
  /\ at[c] = "aborted"
  /\ Show(mine[c], Aborted(states[mine[c]].snapshot))
  /\ Finish(c)
  /\ UNCHANGED <<exists, active, runs, doubled, overtaken>>

-----------------------------------------------------------------------------

CallStep(c) ==
  \/ Open(c) \/ Opened(c) \/ OpenFails(c) \/ Get(c)
  \/ Refused(c) \/ SetModel(c) \/ SetModelFails(c) \/ ModelSet(c)
  \/ ShowPrompt(c) \/ StartPrompt(c) \/ Resolve(c) \/ Reject(c) \/ Finally(c)
  \/ Abort(c) \/ AbortEnds(c)

AgentEnds(i) == AgentStart(i) \/ AgentEnd(i) \/ AgentIdle(i)
AgentStep(i) == AgentEnds(i) \/ TextDelta(i) \/ ToolStart(i) \/ ToolEnd(i)

Next ==
  \/ CreateThread
  \/ \E c \in Callers : CallStep(c) \/ \E o \in Ops : Call(c, o)
  \/ \E i \in DOMAIN states : AgentStep(i) \/ \E c \in Callers : Take(i, c)

Spec == Init /\ [][Next]_vars

\* What is awaited comes, and an agent that works ends.
Fairness ==
  /\ \A c \in Callers : WF_vars(CallStep(c))
  /\ WF_vars(\E i \in DOMAIN states : AgentEnds(i))

FairSpec == Spec /\ Fairness

-----------------------------------------------------------------------------
(* Properties                                                              *)

TypeOK ==
  /\ exists \in BOOLEAN
  /\ states \in Seq(States) /\ active \in 0 .. Len(states)
  /\ op \in [Callers -> Ops \cup {"none"}] /\ at \in [Callers -> Places]
  /\ mine \in [Callers -> 0 .. Len(states)]
  /\ \A c \in Callers : mine[c] = 0 => at[c] \in {"unsent", "opening", "done"}
  /\ published \in Snapshots
  /\ runs \in 0 .. MaxRuns /\ doubled \in BOOLEAN
  /\ overtaken \subseteq 1 .. Len(states)

\* However calls, the agent and the promises of prompts interleave, and even if two
\* prompts were let through or the thread was opened twice: with nothing left under way
\* the thread is not shown as running, nor with a message still to come, neither to
\* those that listen nor to one that asks for it.
Quiet ==
  /\ \A c \in Callers : at[c] \in {"unsent", "done"}
  /\ \A i \in DOMAIN states : ~Streaming(i)
Over(s) == s.status # "running" /\ ~s.pending
ThreadSettles ==
  Quiet => Over(published) /\ \A i \in DOMAIN states : Over(states[i].snapshot)

\* While the agent works the thread is shown as running: no reply, rebuilt snapshot,
\* abort or handler of an earlier prompt makes it look settled.  Unless two prompts were
\* let through at once, as the guard is passed before the model is awaited and only
\* closed after, the thread was opened twice, or the agent has started since an abort
\* found it idle and before that abort went on.
RunningIsShown ==
  ~doubled /\ Len(states) = 1
    => \A i \in DOMAIN states : states[i].agent = "working" /\ i \notin overtaken =>
         published.status = "running" /\ states[i].snapshot.status = "running"

\* A thread that refuses prompts does not do so for ever, whatever becomes of the
\* prompts it was sent.
GuardReopens ==
  \A i \in 1 .. Cardinality(Callers) : (i \in DOMAIN states /\ Busy(i)) ~> (i \in DOMAIN states /\ ~Busy(i))

=============================================================================
