---------------------------- MODULE PiRuntimeProofs ----------------------------
(***************************************************************************)
(* Theorems about a thread of the Pi runtime, for every set of callers and *)
(* any number of runs of the agent.                                        *)
(***************************************************************************)
EXTENDS PiRuntime, TLAPS

-----------------------------------------------------------------------------
(* The inductive invariant                                                 *)

Sent == {"shown", "pending", "resolved", "rejected"}
Started == {"pending", "resolved", "rejected"}

\* A place a prompt goes through is the place of a prompt.
PromptsOnly == \A c \in Callers : at[c] \in Sent => op[c] = "prompt"

\* The agent works for a prompt of its own thread state whose promise is pending.
RunnerPending ==
  \A i \in 1 .. Len(states) : states[i].agent # "off" =>
    /\ states[i].runner \in Callers
    /\ mine[states[i].runner] = i
    /\ at[states[i].runner] = "pending"

\* What is shown as running waits for a prompt whose handlers have not run.
LitState ==
  \A i \in 1 .. Len(states) : ~Over(states[i].snapshot) =>
    \E c \in Callers : mine[c] = i /\ at[c] \in {"shown", "pending"}
LitClients == ~Over(published) => \E c \in Callers : at[c] \in {"shown", "pending"}

\* Unless prompts were doubled, a thread state has one that was started.
OnePrompt ==
  ~doubled =>
    \A c, d \in Callers : at[c] \in Started /\ at[d] \in Started /\ mine[c] = mine[d] => c = d

WorkShown ==
  ~doubled =>
    \A i \in 1 .. Len(states) : states[i].agent = "working" /\ i \notin overtaken =>
        states[i].snapshot.status = "running" /\ (Len(states) = 1 => published.status = "running")

\* An abort that is to go on while its agent works was overtaken by it.
AbortsLate ==
  \A c \in Callers : at[c] = "aborted" /\ states[mine[c]].agent = "working" => mine[c] \in overtaken

IInv ==
  /\ TypeOK /\ PromptsOnly /\ RunnerPending /\ LitState /\ LitClients /\ OnePrompt /\ WorkShown
  /\ AbortsLate

\* One entry of a sequence of thread states is replaced.
LEMMA Replaced ==
  ASSUME NEW ss \in Seq(States), NEW i \in 1 .. Len(ss), NEW s \in States
  PROVE  LET tt == [ss EXCEPT ![i] = s]
         IN /\ tt \in Seq(States) /\ Len(tt) = Len(ss) /\ tt[i] = s
            /\ \A j \in 1 .. Len(ss) : j # i => tt[j] = ss[j]
OBVIOUS

\* A call that is at work on a thread state has found one.
LEMMA Found ==
  ASSUME TypeOK, NEW c \in Callers, at[c] \notin {"unsent", "opening", "done"}
  PROVE  mine[c] \in 1 .. Len(states) /\ states[mine[c]] \in States
BY DEF TypeOK

\* Showing a snapshot changes it and nothing else of the thread state.
LEMMA Shown ==
  ASSUME TypeOK, NEW i \in 1 .. Len(states), NEW s \in Snapshots,
         states' = [states EXCEPT ![i].snapshot = s]
  PROVE  /\ states' \in Seq(States) /\ Len(states') = Len(states)
         /\ states'[i].snapshot = s
         /\ states'[i].agent = states[i].agent /\ states'[i].runner = states[i].runner
         /\ \A j \in 1 .. Len(states) : j # i => states'[j] = states[j]
<1>1. states \in Seq(States) /\ states[i] \in States
  BY DEF TypeOK
<1> DEFINE t == [states[i] EXCEPT !.snapshot = s]
<1>2. t \in States /\ t.snapshot = s /\ t.agent = states[i].agent /\ t.runner = states[i].runner
  BY <1>1 DEF States
<1>3. states' = [states EXCEPT ![i] = t]
  OBVIOUS
<1> HIDE DEF t
<1> QED
  BY <1>1, <1>2, <1>3, Replaced

\* What the handlers make of a snapshot is a snapshot.
LEMMA SnapshotTypes ==
  ASSUME NEW s \in Snapshots
  PROVE  /\ Rebuilt(s) \in Snapshots /\ Rebuilt(s).status = s.status /\ ~Rebuilt(s).pending
         /\ Settled(s, "idle", FALSE) \in Snapshots /\ Over(Settled(s, "idle", FALSE))
         /\ Settled(s, "error", TRUE) \in Snapshots /\ Over(Settled(s, "error", TRUE))
         /\ Settled(s, "idle", s.lastError) \in Snapshots /\ Over(Settled(s, "idle", s.lastError))
         /\ Settled(s, "error", s.lastError) \in Snapshots /\ Over(Settled(s, "error", s.lastError))
         /\ Aborted(s) \in Snapshots /\ Over(Aborted(s))
         /\ Over(s) => Over(Rebuilt(s))
         /\ [Rebuilt(s) EXCEPT !.lastError = FALSE] \in Snapshots
         /\ [Rebuilt(s) EXCEPT !.lastError = FALSE].status = s.status
         /\ ~[Rebuilt(s) EXCEPT !.lastError = FALSE].pending
BY DEF Snapshots, Rebuilt, Settled, Aborted, Over

-----------------------------------------------------------------------------
(* Steps of calls                                                          *)

\* Nothing of a prompt that was sent changes.
SameSent ==
  \A d \in Callers : at[d] \in Sent \/ at'[d] \in Sent =>
    at'[d] = at[d] /\ mine'[d] = mine[d] /\ op'[d] = op[d]

\* An abort goes on only once it has found its agent off.
SameAborts ==
  \A d \in Callers : at'[d] = "aborted" =>
    /\ mine'[d] = mine[d] /\ mine[d] \in 1 .. Len(states)
    /\ at[d] = "aborted" \/ ~Streaming(mine[d])

\* One that is to go on has a thread state.
LEMMA AbortsFound ==
  ASSUME IInv
  PROVE  \A d \in Callers : at[d] = "aborted" => mine[d] \in 1 .. Len(states)
BY Found DEF IInv

\* An agent that does not start to work overtakes no abort.
LEMMA NoneOvertaken ==
  ASSUME IInv, SameAborts, overtaken' = overtaken,
         \A i \in 1 .. Len(states) : states'[i].agent = "working" => states[i].agent = "working"
  PROVE  AbortsLate'
<1> SUFFICES ASSUME NEW d \in Callers, at'[d] = "aborted", states'[mine'[d]].agent = "working"
             PROVE  mine'[d] \in overtaken
  BY DEF AbortsLate
<1>1. /\ mine'[d] = mine[d] /\ mine[d] \in 1 .. Len(states)
      /\ at[d] = "aborted" \/ ~Streaming(mine[d])
  BY DEF SameAborts
<1> QED
  BY <1>1 DEF IInv, AbortsLate, Streaming

\* No thread state or client is shown running that was not, and none that its agent
\* works for is shown settled.
LEMMA Kept ==
  ASSUME IInv, TypeOK', SameSent, SameAborts, UNCHANGED <<doubled, overtaken>>,
         Len(states') = Len(states),
         \A i \in 1 .. Len(states) :
           /\ states'[i].agent = states[i].agent /\ states'[i].runner = states[i].runner
           /\ ~Over(states'[i].snapshot) => ~Over(states[i].snapshot)
           /\ states[i].agent = "working" /\ i \notin overtaken =>
                states'[i].snapshot.status = states[i].snapshot.status,
         ~Over(published') =>
           ~Over(published) \/ \E i \in 1 .. Len(states) : ~Over(states[i].snapshot),
         Len(states) = 1 /\ states[1].agent = "working" /\ 1 \notin overtaken =>
           published'.status \in {published.status, states[1].snapshot.status}
  PROVE  IInv'
<1>1. PromptsOnly'
  BY DEF IInv, PromptsOnly, SameSent
<1>2. RunnerPending'
  BY DEF IInv, RunnerPending, SameSent, Sent
<1>3. LitState'
  BY DEF IInv, LitState, SameSent, Sent
<1>4. LitClients'
  BY DEF IInv, LitState, LitClients, SameSent, Sent
<1>5. OnePrompt'
  BY DEF IInv, OnePrompt, SameSent, Sent, Started
<1>6. WorkShown'
  <2> SUFFICES ASSUME ~doubled', NEW i \in 1 .. Len(states'), states'[i].agent = "working",
                      i \notin overtaken'
               PROVE  /\ states'[i].snapshot.status = "running"
                      /\ Len(states') = 1 => published'.status = "running"
    BY DEF WorkShown
  <2>1. i \in 1 .. Len(states) /\ states[i].agent = "working" /\ i \notin overtaken
    OBVIOUS
  <2>2. /\ states[i].snapshot.status = "running"
        /\ Len(states) = 1 => published.status = "running"
    BY <2>1 DEF IInv, WorkShown
  <2>3. Len(states) = 1 => i = 1
    BY <2>1
  <2> QED
    BY <2>1, <2>2, <2>3
<1>7. AbortsLate'
  BY NoneOvertaken
<1> QED
  BY <1>1, <1>2, <1>3, <1>4, <1>5, <1>6, <1>7 DEF IInv

\* A call begins (the first look of ensureThreadState).
LEMMA CallKeeps ==
  ASSUME IInv, NEW c \in Callers, NEW o \in Ops, Call(c, o)
  PROVE  IInv'
<1>1. TypeOK'
  BY DEF IInv, TypeOK, Call, GoTo, Ops, Places
<1>2. SameSent /\ SameAborts
  BY AbortsFound DEF IInv, TypeOK, Call, GoTo, SameSent, SameAborts, Sent
<1> QED
  BY <1>1, <1>2, Kept DEF Call, IInv, TypeOK

\* A thread state is created, and replaces the active one (createSessionState).
LEMMA OpenKeeps ==
  ASSUME IInv, NEW c \in Callers, Open(c)
  PROVE  IInv'
<1> DEFINE n == Len(states) + 1
<1>1. /\ states \in Seq(States) /\ Len(states) \in Nat /\ NewState \in States
      /\ Over(NewState.snapshot) /\ NewState.agent = "off"
  BY DEF IInv, TypeOK, NewState, States, Phases, Idle, Snapshots, Over
<1>2. /\ states' \in Seq(States) /\ Len(states') = n /\ states'[n] = NewState
      /\ \A i \in 1 .. Len(states) : states'[i] = states[i]
  BY <1>1 DEF Open
<1>3. TypeOK'
  BY <1>1, <1>2 DEF IInv, TypeOK, Open, GoTo, Places
<1>4. SameSent /\ SameAborts
  BY AbortsFound DEF IInv, TypeOK, Open, GoTo, SameSent, SameAborts, Sent
<1>5. PromptsOnly'
  BY <1>4 DEF IInv, PromptsOnly, SameSent
<1>6. OnePrompt'
  BY <1>4 DEF IInv, OnePrompt, SameSent, Sent, Started, Open
<1>7. RunnerPending'
  BY <1>1, <1>2, <1>4 DEF IInv, RunnerPending, SameSent, Sent
<1>8. LitState'
  BY <1>1, <1>2, <1>4 DEF IInv, LitState, SameSent, Sent
<1>9. LitClients'
  BY <1>4 DEF IInv, LitClients, SameSent, Sent, Open
<1>10. WorkShown'
  BY <1>1, <1>2 DEF IInv, WorkShown, Open
<1>11. AbortsLate'
  BY <1>2, <1>4, NoneOvertaken DEF Open
<1> QED
  BY <1>3, <1>5, <1>6, <1>7, <1>8, <1>9, <1>10, <1>11 DEF IInv

\* A thread state is rebuilt, for a call that has sent no prompt.
LEMMA RebuildKeeps ==
  ASSUME IInv, NEW c \in Callers, Opened(c) \/ Get(c)
  PROVE  IInv'
<1> DEFINE m == mine[c]
<1>1. m \in 1 .. Len(states) /\ states[m] \in States /\ states[m].snapshot \in Snapshots
  BY Found DEF IInv, Opened, Get, States
<1> DEFINE s == Rebuilt(states[m].snapshot)
<1>2. /\ s \in Snapshots /\ s.status = states[m].snapshot.status
      /\ ~Over(s) => ~Over(states[m].snapshot)
  BY <1>1, SnapshotTypes
<1>3. states' = [states EXCEPT ![m].snapshot = s]
  BY DEF Opened, Get
<1> HIDE DEF s
<1>4. /\ states' \in Seq(States) /\ Len(states') = Len(states)
      /\ states'[m].snapshot = s
      /\ states'[m].agent = states[m].agent /\ states'[m].runner = states[m].runner
      /\ \A j \in 1 .. Len(states) : j # m => states'[j] = states[j]
  BY <1>1, <1>2, <1>3, Shown DEF IInv
<1>5. TypeOK'
  <2>1. CASE Opened(c)
    BY <1>4, <2>1 DEF IInv, TypeOK, Opened, GoTo, Places
  <2>2. CASE Get(c)
    BY <1>4, <2>2 DEF IInv, TypeOK, Get, Finish, GoTo, Places, Ops
  <2> QED
    BY <2>1, <2>2
<1>6. SameSent /\ SameAborts
  BY AbortsFound DEF IInv, TypeOK, Opened, Get, GoTo, Finish, SameSent, SameAborts, Sent
<1>7. published' = published /\ doubled' = doubled /\ overtaken' = overtaken
  BY DEF Opened, Get
<1> QED
  BY <1>1, <1>2, <1>4, <1>5, <1>6, <1>7, Kept DEF IInv

\* A call that is refused, fails or waits.
LEMMA WaitKeeps ==
  ASSUME IInv, NEW c \in Callers,
         OpenFails(c) \/ Refused(c) \/ SetModel(c) \/ SetModelFails(c)
  PROVE  IInv'
<1>1. TypeOK'
  <2>1. CASE SetModel(c)
    BY <2>1 DEF IInv, TypeOK, SetModel, GoTo, Places
  <2>2. CASE Finish(c) /\ UNCHANGED <<exists, states, active, published, runs, doubled, overtaken>>
    BY <2>2 DEF IInv, TypeOK, GoTo, Finish, Places
  <2> QED
    BY <2>1, <2>2 DEF OpenFails, Refused, SetModelFails
<1>2. SameSent /\ SameAborts
  <2>1. /\ at'[c] \in {"done", "modelling"} /\ at[c] \in {"opening", "held", "modelling"}
        /\ \A d \in Callers : d # c => at'[d] = at[d] /\ mine'[d] = mine[d] /\ op'[d] = op[d]
    BY DEF IInv, TypeOK, OpenFails, Refused, SetModel, SetModelFails, GoTo, Finish
  <2> QED
    BY <2>1, AbortsFound DEF SameSent, SameAborts, Sent
<1>3. states' = states /\ published' = published /\ doubled' = doubled /\ overtaken' = overtaken
  BY DEF OpenFails, Refused, SetModel, SetModelFails
<1> QED
  BY <1>1, <1>2, <1>3, Kept DEF IInv, TypeOK

\* The model of a thread is set (setThreadModel).
LEMMA ModelSetKeeps ==
  ASSUME IInv, NEW c \in Callers, ModelSet(c)
  PROVE  IInv'
<1> DEFINE m == mine[c]
<1>1. m \in 1 .. Len(states) /\ states[m] \in States /\ states[m].snapshot \in Snapshots
  BY Found DEF IInv, ModelSet, States
<1> DEFINE s == [Rebuilt(states[m].snapshot) EXCEPT !.lastError = FALSE]
<1>2. s \in Snapshots /\ s.status = states[m].snapshot.status /\ ~s.pending
  BY <1>1, SnapshotTypes
<1>3. states' = [states EXCEPT ![m].snapshot = s] /\ published' = s
  BY DEF ModelSet, Show
<1> HIDE DEF s
<1>4. /\ states' \in Seq(States) /\ Len(states') = Len(states)
      /\ states'[m].snapshot = s
      /\ states'[m].agent = states[m].agent /\ states'[m].runner = states[m].runner
      /\ \A j \in 1 .. Len(states) : j # m => states'[j] = states[j]
  BY <1>1, <1>2, <1>3, Shown DEF IInv
<1>5. TypeOK'
  BY <1>2, <1>3, <1>4 DEF IInv, TypeOK, ModelSet, Finish, GoTo, Places
<1>6. SameSent /\ SameAborts
  BY AbortsFound DEF IInv, TypeOK, ModelSet, Finish, GoTo, SameSent, SameAborts, Sent
<1>7. doubled' = doubled /\ overtaken' = overtaken
  BY DEF ModelSet
<1>8. ~Over(s) => ~Over(states[m].snapshot)
  BY <1>2 DEF Over
<1> QED
  BY <1>1, <1>2, <1>3, <1>4, <1>5, <1>6, <1>7, <1>8, Kept DEF IInv

\* An abort waits for an agent that streams, and for the next turn of the event loop.
LEMMA AbortKeeps ==
  ASSUME IInv, NEW c \in Callers, Abort(c)
  PROVE  IInv'
<1>1. mine[c] \in 1 .. Len(states)
  BY Found DEF IInv, Abort
<1>2. SameSent /\ SameAborts
  BY <1>1, AbortsFound DEF IInv, TypeOK, Abort, GoTo, SameSent, SameAborts, Sent
<1>3. UNCHANGED <<states, published, doubled, overtaken>>
  BY DEF Abort
<1>4. TypeOK'
  BY DEF IInv, TypeOK, Abort, GoTo, Places
<1> QED
  BY <1>2, <1>3, <1>4, Kept DEF IInv, TypeOK

\* It settles the thread; an agent that works meanwhile has overtaken it.
LEMMA AbortEndsKeeps ==
  ASSUME IInv, NEW c \in Callers, AbortEnds(c)
  PROVE  IInv'
<1> DEFINE m == mine[c]
           s == Aborted(states[m].snapshot)
<1>1. m \in 1 .. Len(states) /\ states[m] \in States /\ states[m].snapshot \in Snapshots
  BY Found DEF IInv, AbortEnds, States
<1>2. SameSent /\ SameAborts
  BY AbortsFound DEF IInv, TypeOK, AbortEnds, GoTo, Finish, SameSent, SameAborts, Sent
<1>3. doubled' = doubled /\ overtaken' = overtaken
  BY DEF AbortEnds
<1>4. s \in Snapshots /\ Over(s)
  BY <1>1, SnapshotTypes
<1>5. states' = [states EXCEPT ![m].snapshot = s] /\ published' = s
  BY DEF AbortEnds, Show
<1> HIDE DEF s
<1>6. /\ states' \in Seq(States) /\ Len(states') = Len(states)
      /\ states'[m].snapshot = s
      /\ states'[m].agent = states[m].agent /\ states'[m].runner = states[m].runner
      /\ \A j \in 1 .. Len(states) : j # m => states'[j] = states[j]
  BY <1>1, <1>4, <1>5, Shown DEF IInv
<1>7. TypeOK'
  BY <1>4, <1>5, <1>6 DEF IInv, TypeOK, AbortEnds, GoTo, Finish, Places
<1>8. states[m].agent = "working" => m \in overtaken
  BY DEF IInv, AbortsLate, AbortEnds
<1>9. Len(states) = 1 => m = 1
  BY <1>1
<1> QED
  BY <1>1, <1>2, <1>3, <1>4, <1>5, <1>6, <1>7, <1>8, <1>9, Kept DEF IInv

-----------------------------------------------------------------------------
(* Steps of prompts                                                        *)

\* A prompt is let through the guard and shown (sendPrompt).
LEMMA ShowPromptKeeps ==
  ASSUME IInv, NEW c \in Callers, ShowPrompt(c)
  PROVE  IInv'
<1> DEFINE m == mine[c]
           s == [status |-> "running", lastError |-> FALSE, pending |-> TRUE]
<1>1. m \in 1 .. Len(states) /\ states[m] \in States
  BY Found DEF IInv, ShowPrompt
<1>2. s \in Snapshots /\ s.status = "running"
  BY DEF Snapshots
<1>3. states' = [states EXCEPT ![m].snapshot = s] /\ published' = s
  BY DEF ShowPrompt, Show
<1> HIDE DEF s
<1>4. /\ states' \in Seq(States) /\ Len(states') = Len(states)
      /\ states'[m].snapshot = s
      /\ states'[m].agent = states[m].agent /\ states'[m].runner = states[m].runner
      /\ \A j \in 1 .. Len(states) : j # m => states'[j] = states[j]
  BY <1>1, <1>2, <1>3, Shown DEF IInv
<1>5. /\ at[c] \notin Sent /\ at'[c] = "shown" /\ op[c] = "prompt"
      /\ \A d \in Callers : d # c => at'[d] = at[d]
      /\ UNCHANGED <<op, mine, doubled, overtaken>>
  BY DEF IInv, TypeOK, ShowPrompt, GoTo, Sent
<1>6. TypeOK'
  BY <1>2, <1>3, <1>4, <1>5 DEF IInv, TypeOK, ShowPrompt, GoTo, Places
<1>7. PromptsOnly'
  BY <1>5 DEF IInv, PromptsOnly
<1>8. RunnerPending'
  BY <1>4, <1>5 DEF IInv, RunnerPending, Sent
<1>9. LitState'
  BY <1>1, <1>4, <1>5 DEF IInv, LitState
<1>10. LitClients'
  BY <1>5 DEF LitClients
<1>11. OnePrompt'
  BY <1>5 DEF IInv, OnePrompt, Sent, Started
<1>12. WorkShown'
  BY <1>2, <1>3, <1>4, <1>5 DEF IInv, WorkShown
<1>13. AbortsLate'
  BY <1>4, <1>5, AbortsFound, NoneOvertaken DEF SameAborts, ShowPrompt
<1> QED
  BY <1>6, <1>7, <1>8, <1>9, <1>10, <1>11, <1>12, <1>13 DEF IInv

\* The prompt is started: it is in flight, and doubled if it is not alone.
LEMMA StartPromptKeeps ==
  ASSUME IInv, NEW c \in Callers, StartPrompt(c)
  PROVE  IInv'
<1> DEFINE m == mine[c]
           t == [states[m] EXCEPT !.inFlightPrompt = c]
<1>1. m \in 1 .. Len(states) /\ states[m] \in States
  BY Found DEF IInv, StartPrompt
<1>2. /\ t \in States /\ t.snapshot = states[m].snapshot
      /\ t.agent = states[m].agent /\ t.runner = states[m].runner
  BY <1>1 DEF States
<1>3. states' = [states EXCEPT ![m] = t]
  BY DEF StartPrompt
<1> HIDE DEF t
<1>4. /\ states' \in Seq(States) /\ Len(states') = Len(states) /\ states'[m] = t
      /\ \A j \in 1 .. Len(states) : j # m => states'[j] = states[j]
  BY <1>1, <1>2, <1>3, Replaced DEF IInv, TypeOK
<1>5. /\ at[c] = "shown" /\ at'[c] = "pending"
      /\ \A d \in Callers : d # c => at'[d] = at[d]
      /\ UNCHANGED <<op, mine, published, overtaken>>
      /\ op[c] = "prompt"
  BY DEF IInv, TypeOK, StartPrompt, GoTo, PromptsOnly, Sent
<1>6. TypeOK'
  BY <1>4, <1>5 DEF IInv, TypeOK, StartPrompt, GoTo, Places
<1>7. PromptsOnly'
  BY <1>5 DEF IInv, PromptsOnly, Sent
<1>8. RunnerPending'
  BY <1>2, <1>4, <1>5 DEF IInv, RunnerPending
<1>9. LitState'
  BY <1>2, <1>4, <1>5 DEF IInv, LitState
<1>10. LitClients'
  BY <1>5 DEF IInv, LitClients
<1>11. OnePrompt'
  <2> SUFFICES ASSUME ~doubled', NEW d \in Callers, NEW e \in Callers,
                      at'[d] \in Started, at'[e] \in Started, mine[d] = mine[e]
               PROVE  d = e
    BY <1>5 DEF OnePrompt
  <2>1. ~doubled /\ UnderWay(m) = {c}
    BY DEF StartPrompt
  <2>2. ASSUME NEW f \in Callers, mine[f] = m, at'[f] \in Started
        PROVE  f = c
    BY <2>1, <2>2, <1>5 DEF UnderWay, Started, IInv, PromptsOnly, Sent
  <2>3. CASE mine[d] = m
    BY <2>2, <2>3
  <2>4. CASE mine[d] # m
    BY <2>1, <2>4, <1>5 DEF IInv, OnePrompt
  <2> QED
    BY <2>3, <2>4
<1>12. WorkShown'
  <2>1. ~doubled' => ~doubled
    BY DEF StartPrompt
  <2>2. \A i \in 1 .. Len(states) :
          states'[i].agent = states[i].agent /\ states'[i].snapshot = states[i].snapshot
    BY <1>2, <1>4
  <2> QED
    BY <2>1, <2>2, <1>4, <1>5 DEF IInv, WorkShown
<1>13. AbortsLate'
  BY <1>2, <1>4, <1>5, AbortsFound, NoneOvertaken DEF SameAborts, StartPrompt
<1> QED
  BY <1>6, <1>7, <1>8, <1>9, <1>10, <1>11, <1>12, <1>13 DEF IInv

\* A prompt whose promise is settled leaves nothing shown as running.
LEMMA SettleKeeps ==
  ASSUME IInv, NEW c \in Callers, Resolve(c) \/ Reject(c)
  PROVE  IInv'
<1> DEFINE m == mine[c]
<1>1. m \in 1 .. Len(states) /\ states[m] \in States /\ states[m].snapshot \in Snapshots
  BY Found DEF IInv, Resolve, Reject, States
<1>2. PICK s \in Snapshots : Over(s) /\ Show(m, s)
  BY <1>1, SnapshotTypes DEF Resolve, Reject
<1>3. states' = [states EXCEPT ![m].snapshot = s] /\ published' = s
  BY <1>2 DEF Show
<1>4. /\ states' \in Seq(States) /\ Len(states') = Len(states)
      /\ states'[m].snapshot = s
      /\ states'[m].agent = states[m].agent /\ states'[m].runner = states[m].runner
      /\ \A j \in 1 .. Len(states) : j # m => states'[j] = states[j]
  BY <1>1, <1>2, <1>3, Shown DEF IInv
<1>5. /\ at[c] = "pending" /\ at'[c] \in {"resolved", "rejected"}
      /\ \A d \in Callers : d # c => at'[d] = at[d]
      /\ UNCHANGED <<exists, active, op, mine, runs, doubled, overtaken>>
      /\ states[m].runner # c
      /\ at' = [at EXCEPT ![c] = at'[c]]
  BY DEF IInv, TypeOK, Resolve, Reject, GoTo
<1>6. TypeOK'
  <2>1. at' \in [Callers -> Places]
    BY <1>5 DEF IInv, TypeOK, Places
  <2>2. /\ exists' \in BOOLEAN /\ active' \in 0 .. Len(states')
        /\ op' \in [Callers -> Ops \cup {"none"}] /\ mine' \in [Callers -> 0 .. Len(states')]
        /\ runs' \in 0 .. MaxRuns /\ doubled' \in BOOLEAN
        /\ overtaken' \subseteq 1 .. Len(states')
    BY <1>4, <1>5 DEF IInv, TypeOK
  <2>3. \A d \in Callers : mine'[d] = 0 => at'[d] \in {"unsent", "opening", "done"}
    BY <1>5 DEF IInv, TypeOK
  <2> QED
    BY <1>2, <1>3, <1>4, <2>1, <2>2, <2>3 DEF TypeOK
<1>7. PromptsOnly'
  BY <1>5 DEF IInv, PromptsOnly, Sent
<1>8. RunnerPending'
  BY <1>1, <1>4, <1>5 DEF IInv, RunnerPending
<1>9. LitState'
  BY <1>2, <1>4, <1>5 DEF IInv, LitState
<1>10. LitClients'
  BY <1>2, <1>3 DEF LitClients
<1>11. OnePrompt'
  BY <1>5 DEF IInv, OnePrompt, Started
<1>12. WorkShown'
  <2> SUFFICES ASSUME ~doubled
               PROVE  states[m].agent # "working"
    BY <1>1, <1>4, <1>5 DEF IInv, WorkShown
  <2>1. states[m].agent # "off" =>
          /\ states[m].runner \in Callers /\ mine[states[m].runner] = m
          /\ at[states[m].runner] = "pending"
    BY <1>1 DEF IInv, RunnerPending
  <2> QED
    BY <2>1, <1>5 DEF IInv, OnePrompt, Started
<1>13. AbortsLate'
  BY <1>4, <1>5, AbortsFound, NoneOvertaken DEF SameAborts
<1> QED
  BY <1>6, <1>7, <1>8, <1>9, <1>10, <1>11, <1>12, <1>13 DEF IInv

\* The guard is opened again when the promise of a prompt is settled.
LEMMA FinallyKeeps ==
  ASSUME IInv, NEW c \in Callers, Finally(c)
  PROVE  IInv'
<1> DEFINE m == mine[c]
           t == [states[m] EXCEPT !.inFlightPrompt = NoCaller]
<1>1. m \in 1 .. Len(states) /\ states[m] \in States
  BY Found DEF IInv, Finally
<1>2. /\ t \in States /\ t.snapshot = states[m].snapshot
      /\ t.agent = states[m].agent /\ t.runner = states[m].runner
  BY <1>1 DEF States
<1>3. states' = [states EXCEPT ![m] = t]
  BY DEF Finally
<1> HIDE DEF t
<1>4. /\ states' \in Seq(States) /\ Len(states') = Len(states) /\ states'[m] = t
      /\ \A j \in 1 .. Len(states) : j # m => states'[j] = states[j]
  BY <1>1, <1>2, <1>3, Replaced DEF IInv, TypeOK
<1>5. /\ at[c] \in {"resolved", "rejected"} /\ at'[c] = "done"
      /\ \A d \in Callers : d # c => at'[d] = at[d] /\ mine'[d] = mine[d] /\ op'[d] = op[d]
      /\ UNCHANGED <<published, doubled, overtaken>>
  BY DEF IInv, TypeOK, Finally, Finish, GoTo
<1>6. TypeOK'
  BY <1>4, <1>5 DEF IInv, TypeOK, Finally, Finish, GoTo, Places, Ops
<1>7. PromptsOnly'
  BY <1>5 DEF IInv, PromptsOnly, Sent
<1>8. RunnerPending'
  BY <1>2, <1>4, <1>5 DEF IInv, RunnerPending
<1>9. LitState'
  BY <1>2, <1>4, <1>5 DEF IInv, LitState
<1>10. LitClients'
  BY <1>5 DEF IInv, LitClients
<1>11. OnePrompt'
  BY <1>5 DEF IInv, OnePrompt, Started
<1>12. WorkShown'
  BY <1>2, <1>4, <1>5 DEF IInv, WorkShown
<1>13. AbortsLate'
  BY <1>2, <1>4, <1>5, AbortsFound, NoneOvertaken DEF SameAborts, Finally
<1> QED
  BY <1>6, <1>7, <1>8, <1>9, <1>10, <1>11, <1>12, <1>13 DEF IInv

-----------------------------------------------------------------------------
(* Steps of the agent                                                      *)

\* An agent that is off takes a prompt that is pending.
LEMMA TakeKeeps ==
  ASSUME IInv, NEW i \in 1 .. Len(states), NEW c \in Callers, Take(i, c)
  PROVE  IInv'
<1> DEFINE t == [states[i] EXCEPT !.agent = "starting", !.runner = c]
<1>1. states[i] \in States
  BY DEF IInv, TypeOK
<1>2. /\ t \in States /\ t.snapshot = states[i].snapshot
      /\ t.agent = "starting" /\ t.runner = c
  BY <1>1 DEF States, Phases
<1>3. states' = [states EXCEPT ![i] = t]
  BY DEF Take
<1> HIDE DEF t
<1>4. /\ states' \in Seq(States) /\ Len(states') = Len(states) /\ states'[i] = t
      /\ \A j \in 1 .. Len(states) : j # i => states'[j] = states[j]
  BY <1>2, <1>3, Replaced DEF IInv, TypeOK
<1>5. /\ mine[c] = i /\ at[c] = "pending"
      /\ UNCHANGED <<exists, active, op, at, mine, published, doubled, overtaken>>
  BY DEF Take
<1>6. runs' \in 0 .. MaxRuns
  BY PiRuntimeAssumption DEF IInv, TypeOK, Take
<1>7. TypeOK'
  BY <1>4, <1>5, <1>6 DEF IInv, TypeOK
<1>8. PromptsOnly' /\ LitClients' /\ OnePrompt'
  BY <1>5 DEF IInv, PromptsOnly, LitClients, OnePrompt
<1>9. RunnerPending'
  BY <1>2, <1>4, <1>5 DEF IInv, RunnerPending
<1>10. LitState'
  BY <1>2, <1>4, <1>5 DEF IInv, LitState
<1>11. WorkShown'
  BY <1>2, <1>4, <1>5 DEF IInv, WorkShown
<1>12. AbortsLate'
  BY <1>2, <1>4, <1>5, AbortsFound, NoneOvertaken DEF SameAborts
<1> QED
  BY <1>7, <1>8, <1>9, <1>10, <1>11, <1>12 DEF IInv

\* An event of an agent that streams, and goes on doing so.
LEMMA EventKeeps ==
  ASSUME IInv, NEW i \in 1 .. Len(states), NEW phase \in Phases, NEW s \in Snapshots,
         states[i].agent # "off", phase # "off",
         phase = "working" /\ ~doubled /\ i \notin overtaken' => s.status = "running",
         overtaken' \in {overtaken, overtaken \cup {i}},
         phase = "working" /\ states[i].agent # "working" =>
           \A c \in Callers : mine[c] = i /\ at[c] = "aborted" => i \in overtaken',
         OnEvent(i, phase, s)
  PROVE  IInv'
<1> DEFINE t == [states[i] EXCEPT !.agent = phase, !.snapshot = s]
<1>1. states[i] \in States
  BY DEF IInv, TypeOK
<1>2. t \in States /\ t.snapshot = s /\ t.agent = phase /\ t.runner = states[i].runner
  BY <1>1 DEF States
<1>3. states' = [states EXCEPT ![i] = t]
  BY DEF OnEvent
<1> HIDE DEF t
<1>4. /\ states' \in Seq(States) /\ Len(states') = Len(states) /\ states'[i] = t
      /\ \A j \in 1 .. Len(states) : j # i => states'[j] = states[j]
  BY <1>2, <1>3, Replaced DEF IInv, TypeOK
<1>5. published' = s /\ UNCHANGED <<exists, active, op, at, mine, runs, doubled>>
  BY DEF OnEvent
<1>6. /\ states[i].runner \in Callers /\ mine[states[i].runner] = i
      /\ at[states[i].runner] = "pending"
  BY DEF IInv, RunnerPending
<1>7. TypeOK'
  BY <1>4, <1>5 DEF IInv, TypeOK
<1>8. PromptsOnly' /\ OnePrompt'
  BY <1>5 DEF IInv, PromptsOnly, OnePrompt
<1>9. RunnerPending'
  BY <1>2, <1>4, <1>5, <1>6 DEF IInv, RunnerPending
<1>10. LitState'
  BY <1>2, <1>4, <1>5, <1>6 DEF IInv, LitState
<1>11. LitClients'
  BY <1>5, <1>6 DEF LitClients
<1>12. WorkShown'
  <2> SUFFICES ASSUME ~doubled, NEW j \in 1 .. Len(states), states'[j].agent = "working",
                      j \notin overtaken'
               PROVE  /\ states'[j].snapshot.status = "running"
                      /\ Len(states) = 1 => published'.status = "running"
    BY <1>4, <1>5 DEF WorkShown
  <2>1. CASE j = i
    BY <2>1, <1>2, <1>4, <1>5
  <2>2. CASE j # i
    BY <2>2, <1>4 DEF IInv, WorkShown
  <2> QED
    BY <2>1, <2>2
<1>13. AbortsLate'
  <2> SUFFICES ASSUME NEW c \in Callers, at[c] = "aborted", states'[mine[c]].agent = "working"
               PROVE  mine[c] \in overtaken'
    BY <1>5 DEF AbortsLate
  <2>1. mine[c] \in 1 .. Len(states)
    BY AbortsFound
  <2>2. CASE mine[c] = i
    BY <2>2, <1>2, <1>4 DEF IInv, AbortsLate
  <2>3. CASE mine[c] # i
    BY <2>1, <2>3, <1>4 DEF IInv, AbortsLate
  <2> QED
    BY <2>2, <2>3
<1> QED
  BY <1>7, <1>8, <1>9, <1>10, <1>11, <1>12, <1>13 DEF IInv

\* Each event that the agent reports (attachSessionListeners).
LEMMA AgentEventKeeps ==
  ASSUME IInv, NEW i \in 1 .. Len(states),
         AgentStart(i) \/ TextDelta(i) \/ ToolStart(i) \/ ToolEnd(i) \/ AgentEnd(i)
  PROVE  IInv'
<1>1. states[i] \in States /\ states[i].snapshot \in Snapshots
  <2>1. states[i] \in States
    BY DEF IInv, TypeOK
  <2> QED
    BY <2>1 DEF States
<1>2. {"working", "ended"} \subseteq Phases
  BY DEF Phases
<1>3. CASE AgentStart(i)
  <2>1. [status |-> "running", lastError |-> FALSE, pending |-> TRUE] \in Snapshots
    BY DEF Snapshots
  <2> QED
    BY <1>2, <1>3, <2>1, EventKeeps DEF AgentStart
<1>4. CASE TextDelta(i)
  <2> DEFINE s == [states[i].snapshot EXCEPT !.status = "running", !.pending = TRUE]
  <2>1. s \in Snapshots /\ s.status = "running"
    BY <1>1 DEF Snapshots
  <2>2. OnEvent(i, "working", s) /\ states[i].agent = "working" /\ overtaken' = overtaken
    BY <1>4 DEF TextDelta
  <2> HIDE DEF s
  <2> QED
    BY <1>2, <2>1, <2>2, EventKeeps
<1>5. CASE ToolStart(i)
  <2> DEFINE s == [states[i].snapshot EXCEPT !.status = "running"]
  <2>1. s \in Snapshots /\ s.status = "running"
    BY <1>1 DEF Snapshots
  <2>2. OnEvent(i, "working", s) /\ states[i].agent = "working" /\ overtaken' = overtaken
    BY <1>5 DEF ToolStart
  <2> HIDE DEF s
  <2> QED
    BY <1>2, <2>1, <2>2, EventKeeps
<1>6. CASE ToolEnd(i)
  <2>1. ~doubled /\ i \notin overtaken => states[i].snapshot.status = "running"
    BY <1>6 DEF ToolEnd, IInv, WorkShown
  <2> QED
    BY <1>1, <1>2, <1>6, <2>1, EventKeeps DEF ToolEnd
<1>7. CASE AgentEnd(i)
  <2>1. PICK s \in Snapshots : OnEvent(i, "ended", s)
    BY <1>1, <1>7, SnapshotTypes DEF AgentEnd
  <2>2. states[i].agent = "working" /\ overtaken' = overtaken
    BY <1>7 DEF AgentEnd
  <2> QED
    BY <1>2, <2>1, <2>2, EventKeeps
<1> QED
  BY <1>3, <1>4, <1>5, <1>6, <1>7

\* The agent comes to rest, and the calls that abort it have waited enough.
LEMMA AgentIdleKeeps ==
  ASSUME IInv, NEW i \in 1 .. Len(states), AgentIdle(i)
  PROVE  IInv'
<1> DEFINE t == [states[i] EXCEPT !.agent = "off", !.runner = NoCaller]
<1>1. states[i] \in States
  BY DEF IInv, TypeOK
<1>2. states' = [states EXCEPT ![i] = t]
  BY DEF AgentIdle
<1>3. t \in States /\ t.snapshot = states[i].snapshot /\ t.agent = "off"
  BY <1>1 DEF States, Phases
<1> HIDE DEF t
<1>4. /\ states' \in Seq(States) /\ Len(states') = Len(states) /\ states'[i] = t
      /\ \A j \in 1 .. Len(states) : j # i => states'[j] = states[j]
  BY <1>2, <1>3, Replaced DEF IInv, TypeOK
<1>5. UNCHANGED <<exists, active, op, mine, published, runs, doubled>> /\ overtaken' = overtaken \ {i}
  BY DEF AgentIdle
<1>6. SameSent
  BY DEF IInv, TypeOK, AgentIdle, Aborting, SameSent, Sent
<1>7. TypeOK'
  BY <1>4, <1>5 DEF IInv, TypeOK, AgentIdle, Aborting, Places
<1>8. PromptsOnly' /\ OnePrompt'
  BY <1>5, <1>6 DEF IInv, PromptsOnly, OnePrompt, SameSent, Sent, Started
<1>9. RunnerPending'
  BY <1>3, <1>4, <1>6 DEF IInv, RunnerPending, SameSent, Sent
<1>10. LitState'
  BY <1>3, <1>4, <1>6 DEF IInv, LitState, SameSent, Sent
<1>11. LitClients'
  BY <1>5, <1>6 DEF IInv, LitClients, SameSent, Sent
<1>12. WorkShown'
  <2> SUFFICES ASSUME ~doubled, NEW j \in 1 .. Len(states), states'[j].agent = "working",
                      j \notin overtaken'
               PROVE  /\ states'[j].snapshot.status = "running"
                      /\ Len(states) = 1 => published'.status = "running"
    BY <1>4, <1>5 DEF WorkShown
  <2>1. j # i
    BY <1>3, <1>4
  <2> QED
    BY <2>1, <1>4, <1>5 DEF IInv, WorkShown
<1>13. AbortsLate'
  <2> SUFFICES ASSUME NEW c \in Callers, at'[c] = "aborted", states'[mine[c]].agent = "working"
               PROVE  mine[c] \in overtaken \ {i}
    BY <1>5 DEF AbortsLate
  <2>1. mine[c] # i
    BY <1>3, <1>4
  <2>2. at[c] = "aborted"
    BY <2>1 DEF AgentIdle, Aborting
  <2>3. mine[c] \in 1 .. Len(states)
    BY <2>2, AbortsFound
  <2> QED
    BY <2>1, <2>2, <2>3, <1>4 DEF IInv, AbortsLate
<1> QED
  BY <1>7, <1>8, <1>9, <1>10, <1>11, <1>12, <1>13 DEF IInv

-----------------------------------------------------------------------------
(* The theorems                                                            *)

\* Nothing is called, and the thread has no state, before it exists.
NothingBefore == ~exists => states = << >> /\ \A c \in Callers : at[c] = "unsent"

\* The thread is created, with nothing under way (createThread).
LEMMA CreateThreadKeeps ==
  ASSUME IInv, NothingBefore, CreateThread
  PROVE  IInv'
<1>1. NewState \in States /\ Over(NewState.snapshot) /\ NewState.agent = "off"
  BY DEF NewState, States, Phases, Idle, Snapshots, Over
<1>2. states' \in Seq(States) /\ Len(states') = 1 /\ states'[1] = NewState
  BY <1>1 DEF CreateThread
<1>3. Idle \in Snapshots /\ Over(Idle)
  BY DEF Idle, Snapshots, Over
<1>4. Len(states) = 0
  BY DEF NothingBefore, CreateThread
<1>5. TypeOK'
  BY <1>2, <1>3, <1>4 DEF IInv, TypeOK, CreateThread
<1>6. PromptsOnly' /\ OnePrompt'
  BY DEF IInv, PromptsOnly, OnePrompt, CreateThread
<1>7. RunnerPending' /\ LitState' /\ LitClients' /\ WorkShown' /\ AbortsLate'
  BY <1>1, <1>2, <1>3 DEF RunnerPending, LitState, LitClients, WorkShown, AbortsLate, CreateThread, NothingBefore
<1> QED
  BY <1>5, <1>6, <1>7 DEF IInv

\* The invariant holds before the thread is created or opened.
LEMMA InductiveInit == Init => IInv /\ NothingBefore
<1> SUFFICES ASSUME Init
             PROVE  IInv /\ NothingBefore
  OBVIOUS
<1>1. states \in Seq(States) /\ Len(states) = 0
  BY DEF Init
<1>2. TypeOK
  <2>1. states \in Seq(States) /\ active \in 0 .. Len(states) /\ exists \in BOOLEAN
    BY <1>1 DEF Init
  <2>2. op \in [Callers -> Ops \cup {"none"}] /\ at \in [Callers -> Places]
    BY DEF Init, Places
  <2>3. /\ mine \in [Callers -> 0 .. Len(states)]
        /\ \A c \in Callers : at[c] \in {"unsent", "opening", "done"}
    BY <1>1 DEF Init
  <2>4. published \in Snapshots /\ doubled \in BOOLEAN /\ overtaken \subseteq 1 .. Len(states)
    BY DEF Init, Idle, Snapshots
  <2>5. runs \in 0 .. MaxRuns
    BY PiRuntimeAssumption DEF Init
  <2> QED
    BY <2>1, <2>2, <2>3, <2>4, <2>5 DEF TypeOK
<1>3. Over(published)
  BY DEF Init, Idle, Over
<1>4. PromptsOnly /\ OnePrompt
  BY DEF Init, PromptsOnly, OnePrompt, Sent, Started
<1>5. RunnerPending /\ LitState /\ LitClients /\ WorkShown /\ AbortsLate
  BY <1>1, <1>3 DEF RunnerPending, LitState, LitClients, WorkShown, AbortsLate, Init
<1> QED
  BY <1>2, <1>4, <1>5 DEF IInv, NothingBefore, Init

\* Every step keeps the invariant.
LEMMA InductiveStep ==
  ASSUME IInv, NothingBefore, Next
  PROVE  IInv' /\ NothingBefore'
<1>1. CASE CreateThread
  <2>1. exists'
    BY <1>1 DEF CreateThread
  <2> QED
    BY <1>1, <2>1, CreateThreadKeeps DEF NothingBefore
<1>2. ASSUME NEW c \in Callers, NEW o \in Ops, Call(c, o)
      PROVE  IInv' /\ NothingBefore'
  <2>1. exists'
    BY <1>2 DEF Call
  <2> QED
    BY <1>2, <2>1, CallKeeps DEF NothingBefore
<1>3. ASSUME NEW c \in Callers, CallStep(c)
      PROVE  IInv' /\ NothingBefore'
  <2>1. IInv'
    BY <1>3, OpenKeeps, RebuildKeeps, WaitKeeps, ModelSetKeeps, ShowPromptKeeps,
       StartPromptKeeps, SettleKeeps, FinallyKeeps, AbortKeeps, AbortEndsKeeps DEF CallStep
  <2>2. at[c] # "unsent" /\ exists' = exists
    BY <1>3 DEF CallStep, Open, Opened, OpenFails, Get, Refused, SetModel, SetModelFails, ModelSet,
       ShowPrompt, StartPrompt, Resolve, Reject, Finally, Abort, AbortEnds
  <2> QED
    BY <2>1, <2>2 DEF NothingBefore
<1>4. ASSUME NEW i \in DOMAIN states, AgentStep(i) \/ \E c \in Callers : Take(i, c)
      PROVE  IInv' /\ NothingBefore'
  <2>1. i \in 1 .. Len(states)
    BY DEF IInv, TypeOK
  <2>2. IInv'
    BY <1>4, <2>1, TakeKeeps, AgentEventKeeps, AgentIdleKeeps DEF AgentStep, AgentEnds
  <2>3. exists' = exists
    BY <1>4 DEF AgentStep, AgentEnds, AgentStart, TextDelta, ToolStart, ToolEnd, AgentEnd, OnEvent,
       AgentIdle, Take
  <2>4. exists
    BY <2>1 DEF NothingBefore
  <2> QED
    BY <2>2, <2>3, <2>4 DEF NothingBefore
<1> QED
  BY <1>1, <1>2, <1>3, <1>4 DEF Next

\* And so does a step that changes nothing.
LEMMA InductiveStutter ==
  ASSUME IInv, NothingBefore, UNCHANGED vars
  PROVE  IInv' /\ NothingBefore'
<1>1. TypeOK'
  BY DEF IInv, TypeOK, vars
<1>2. PromptsOnly' /\ RunnerPending' /\ LitState' /\ LitClients' /\ OnePrompt' /\ WorkShown'
          /\ AbortsLate'
  BY DEF IInv, PromptsOnly, RunnerPending, LitState, LitClients, OnePrompt, WorkShown,
         AbortsLate, vars
<1> QED
  BY <1>1, <1>2 DEF IInv, NothingBefore, vars

\* The invariant that the other theorems rest on holds in every reachable state of a
\* thread (PiRuntimeLive).
THEOREM Inductive == Spec => [](IInv /\ NothingBefore)
<1>1. Init => IInv /\ NothingBefore
  BY InductiveInit
<1>2. IInv /\ NothingBefore /\ [Next]_vars => (IInv /\ NothingBefore)'
  BY InductiveStep, InductiveStutter
<1> QED
  BY <1>1, <1>2, PTL DEF Spec

\* The variables of a Pi thread keep their types, and a call is at work only on a
\* thread state it has found or created (ensureThreadState).
THEOREM TypeCorrect == Spec => []TypeOK
<1>1. IInv => TypeOK
  BY DEF IInv
<1> QED
  BY <1>1, Inductive, PTL

\* With nothing under way no snapshot, of the thread or sent to its clients, says that
\* it is running: whoever leaves a snapshot that does is a prompt whose promise has
\* handlers yet to run (sendPrompt).
THEOREM ThreadSettlesCorrect == Spec => []ThreadSettles
<1>1. IInv => ThreadSettles
  <2> SUFFICES ASSUME IInv, Quiet
               PROVE  Over(published) /\ \A i \in DOMAIN states : Over(states[i].snapshot)
    BY DEF ThreadSettles
  <2>1. \A c \in Callers : at[c] \notin {"shown", "pending"}
    BY DEF Quiet
  <2>2. DOMAIN states = 1 .. Len(states)
    BY DEF IInv, TypeOK
  <2> QED
    BY <2>1, <2>2 DEF IInv, LitState, LitClients
<1> QED
  BY <1>1, Inductive, PTL

\* Unless prompts were let through two at a time, the thread was opened twice, or its
\* agent started before an abort had gone on, it is shown as running while its agent
\* works (the listeners of attachSessionListeners
\* against the handlers of sendPrompt, setThreadModel and abortThread).
THEOREM RunningIsShownCorrect == Spec => []RunningIsShown
<1>1. IInv => RunningIsShown
  <2> SUFFICES ASSUME IInv, ~doubled, Len(states) = 1,
                      NEW i \in DOMAIN states, states[i].agent = "working",
                      i \notin overtaken
               PROVE  published.status = "running" /\ states[i].snapshot.status = "running"
    BY DEF RunningIsShown
  <2>1. i \in 1 .. Len(states)
    BY DEF IInv, TypeOK
  <2> QED
    BY <2>1 DEF IInv, WorkShown
<1> QED
  BY <1>1, Inductive, PTL

=============================================================================
