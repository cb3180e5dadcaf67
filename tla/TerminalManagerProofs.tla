------------------------- MODULE TerminalManagerProofs -------------------------
(***************************************************************************)
(* Theorems about one terminal, for every number of session objects,       *)
(* shells and drains, and every limit of its history.                      *)
(***************************************************************************)
EXTENDS TerminalManager, SequenceTheorems, TLAPS

-----------------------------------------------------------------------------
(* The inductive invariant                                                 *)

Events == {"output", "exit"}

Shapes == [status : Statuses, process : Nat, lines : Histories,
           pending : Seq(Events), draining : BOOLEAN]

CallShapes == [op : {"none", "open", "clear", "restart", "close", "delete"},
               at : {"idle", "flush", "read", "persist", "spawn", "remove"},
               session : Nat]

Counts == [start : Nat, publish : Nat]

Types ==
  /\ session \in Nat
  /\ object \in Seq(Shapes)
  /\ call \in CallShapes
  /\ drains \in Seq(Counts)
  /\ owner \in Seq(Nat)

DiskTypes ==
  /\ queued \in Histories \cup {Nothing}
  /\ writing \in Histories \cup {Nothing}
  /\ file \in Histories
  /\ unsaved \in BOOLEAN

\* What is named is there.
Named ==
  /\ session \in Objects \cup {None}
  /\ call.session \in Objects \cup {None}
  /\ mislaid \subseteq Objects
  /\ Len(drains) = Len(owner)
  /\ alive \subseteq Processes /\ condemned \subseteq Processes
  /\ reported \subseteq Processes /\ forgotten \subseteq Processes

Running(o) == object[o].process # None

\* A session that runs has a process of its own; what it has pending is drained;
\* an exit that was reported is pending, or was thrown away.
SessionOK(o) ==
  /\ Running(o) <=> object[o].status = "running"
  /\ Running(o) => object[o].process \in Processes /\ owner[object[o].process] = o
  /\ object[o].pending # << >> => object[o].draining
  /\ object[o].draining => Running(o) /\ DrainsOf(object[o].process) > 0
  /\ ExitPending(object[o]) => object[o].process \in reported
  /\ object[o].process \in reported =>
       ExitPending(object[o]) \/ object[o].process \in forgotten

\* A process that lives is its session's or has been condemned; one that was reported
\* is dead and still its session's.
ProcessOK(p) ==
  /\ owner[p] \in Objects
  /\ p \in alive => p \in condemned \/ object[owner[p]].process = p
  /\ p \in reported => p \notin alive /\ object[owner[p]].process = p
  /\ p \in condemned => p \in alive
  /\ p \in forgotten => p \in reported

Sessions == \A o \in Objects : SessionOK(o)
Shelled == \A p \in Processes : ProcessOK(p)

\* A session that runs is the terminal's, or was evicted while it was starting.
Found == \A o \in Objects : Running(o) => o = session \/ o \in mislaid

\* The terminal's session is the one the call that holds the lock works on, or was
\* evicted; that one has no process while the call waits to start or forget it.
Locked ==
  /\ call # Idle => session \in {None, call.session}
  /\ call.session # None /\ session = None => call.session \in mislaid
  /\ call.at = "idle" => call = Idle
  /\ call.at \in {"flush", "read", "remove"} => call.session = None
  /\ call.at = "spawn" => call.session # None /\ ~Running(call.session)
  /\ call.at = "persist" /\ call.op # "clear" /\ call.session # None
       => ~Running(call.session)
  /\ call.at = "persist" /\ call.op \in {"open", "restart", "clear"}
       => call.session # None

\* The history the disk will have when nothing waits to be written.
Latest == IF queued # Nothing THEN queued
          ELSE IF writing # Nothing THEN writing ELSE file

DiskOK ==
  mislaid = {} =>
    /\ call.at = "read" => Drained
    /\ session # None =>
         Latest = object[session].lines \/ (Drained /\ unsaved)

IInv == Types /\ DiskTypes /\ Named /\ Sessions /\ Shelled /\ Found /\ Locked /\ DiskOK

\* The invariant implies what the runs check.
LEMMA Implied ==
  ASSUME IInv
  PROVE  ProcessesOwned /\ ExitsHandled /\ DiskFollowsTerminal
<1>1. ProcessesOwned
  <2> SUFFICES ASSUME NEW p \in alive
               PROVE  \/ session = owner[p] /\ object[session].process = p
                      \/ p \in condemned
                      \/ owner[p] \in mislaid
    BY DEF ProcessesOwned, Escalating
  <2>1. p \in Processes /\ ProcessOK(p)
    BY DEF IInv, Named, Shelled
  <2>2. CASE object[owner[p]].process = p
    <3>1. owner[p] \in Objects /\ Running(owner[p])
      BY <2>1, <2>2 DEF ProcessOK, Running, Processes, None
    <3>2. owner[p] = session \/ owner[p] \in mislaid
      BY <3>1 DEF IInv, Found
    <3> QED
      BY <2>2, <3>2
  <2> QED
    BY <2>1, <2>2 DEF ProcessOK
<1>2. ExitsHandled
  <2> SUFFICES ASSUME NEW o \in Objects, object[o].status = "running",
                      object[o].process \in reported
               PROVE  \/ ExitPending(object[o]) /\ DrainsOf(object[o].process) > 0
                      \/ object[o].process \in forgotten
    BY DEF ExitsHandled
  <2>1. SessionOK(o)
    BY DEF IInv, Sessions
  <2>2. ExitPending(object[o]) => object[o].pending # << >>
    BY DEF ExitPending
  <2> QED
    BY <2>1, <2>2 DEF SessionOK
<1>3. DiskFollowsTerminal
  BY DEF IInv, DiskOK, DiskFollowsTerminal, Drained, Latest
<1> QED
  BY <1>1, <1>2, <1>3

\* A terminal starts with nothing.
LEMMA InvariantInit ==
  ASSUME Init
  PROVE  IInv
<1>1. /\ Len(object) = 0 /\ Len(owner) = 0 /\ Len(drains) = 0
      /\ Objects = {} /\ Processes = {}
  BY DEF Init, Objects, Processes
<1>2. 0 \in Histories
  BY LimitsAssumption DEF Histories
<1>3. call \in CallShapes
  BY DEF Init, Idle, None, CallShapes
<1>4. object \in Seq(Shapes)
  BY DEF Init
<1>5. drains \in Seq(Counts)
  BY DEF Init
<1>6. owner \in Seq(Nat)
  BY DEF Init
<1>7. Types
  BY <1>3, <1>4, <1>5, <1>6 DEF Init, Types, None
<1>8. DiskTypes
  <2>1. queued \in Histories \cup {Nothing} /\ writing \in Histories \cup {Nothing}
    BY DEF Init
  <2>2. file \in Histories
    BY <1>2 DEF Init
  <2>3. unsaved \in BOOLEAN
    BY DEF Init
  <2> QED
    BY <2>1, <2>2, <2>3 DEF DiskTypes
<1>9. Named
  BY <1>1 DEF Init, Named, Idle
<1>10. Sessions /\ Shelled /\ Found
  BY <1>1 DEF Sessions, Shelled, Found
<1>11. Locked
  BY DEF Init, Locked, Idle, None
<1>12. DiskOK
  BY DEF Init, DiskOK, Idle
<1> QED
  BY <1>7, <1>8, <1>9, <1>10, <1>11, <1>12 DEF IInv

-----------------------------------------------------------------------------
(* Sessions and processes                                                  *)

\* A session object is replaced.
LEMMA ObjectReplaced ==
  ASSUME object \in Seq(Shapes), NEW o \in Objects, NEW s \in Shapes,
         object' = [object EXCEPT ![o] = s]
  PROVE  /\ object' \in Seq(Shapes) /\ Len(object') = Len(object)
         /\ Objects' = Objects /\ object'[o] = s
         /\ \A q \in Objects : q # o => object'[q] = object[q]
BY DEF Objects

\* What a step leaves as it is of a process.
Same(p) ==
  /\ owner'[p] = owner[p] /\ drains'[p] = drains[p]
  /\ (p \in alive) = (p \in alive')
  /\ (p \in condemned) = (p \in condemned')
  /\ (p \in reported) = (p \in reported')
  /\ (p \in forgotten) = (p \in forgotten')

\* A step that changes one session and its processes leaves the others in order.
LEMMA OneSession ==
  ASSUME IInv, NEW o \in Objects, NEW s \in Shapes,
         object' = [object EXCEPT ![o] = s],
         Processes \subseteq Processes', reported' \subseteq Processes',
         \A p \in Processes : owner[p] # o => Same(p),
         \A p \in Processes' : p \notin Processes \/ owner[p] = o => ProcessOK(p)',
         SessionOK(o)'
  PROVE  Sessions' /\ Shelled'
<1>1. /\ Sessions /\ Shelled /\ object \in Seq(Shapes) /\ reported \subseteq Processes
  BY DEF IInv, Types, Named
<1>2. /\ Objects' = Objects /\ object'[o] = s
      /\ \A q \in Objects : q # o => object'[q] = object[q]
  BY <1>1, ObjectReplaced
<1>3. None \notin reported /\ None \notin reported'
  BY <1>1 DEF Processes, None
<1>4. ASSUME NEW q \in Objects, q # o
      PROVE  SessionOK(q)'
  <2>1. SessionOK(q) /\ object'[q] = object[q]
    BY <1>1, <1>2, <1>4 DEF Sessions
  <2>2. CASE Running(q)
    <3>1. PICK p \in Processes : p = object[q].process /\ owner[p] = q
      BY <2>1, <2>2 DEF SessionOK
    <3>2. p \in Processes' /\ Same(p)
      BY <1>4, <3>1
    <3>3. DrainsOf(p)' = DrainsOf(p)
      BY <3>2 DEF DrainsOf, Same
    <3>4. /\ object'[q].process = p /\ p # None
          /\ object[q].status = "running"
          /\ object[q].pending # << >> => object[q].draining
          /\ object[q].draining => DrainsOf(p) > 0
          /\ ExitPending(object[q]) => p \in reported
          /\ p \in reported => ExitPending(object[q]) \/ p \in forgotten
      BY <2>1, <2>2, <3>1 DEF SessionOK, Running
    <3>5. DrainsOf(object[q].process)' = DrainsOf(p)'
      BY <3>4 DEF DrainsOf
    <3> QED
      BY <2>1, <3>1, <3>2, <3>3, <3>4, <3>5 DEF SessionOK, Running, Same
  <2>3. CASE ~Running(q)
    <3>1. /\ object[q].status # "running" /\ object[q].process = None
          /\ object[q].pending = << >> /\ ~object[q].draining
          /\ ~ExitPending(object[q])
      BY <1>3, <2>1, <2>3 DEF SessionOK, Running
    <3> QED
      BY <1>3, <2>1, <3>1 DEF SessionOK, Running
  <2> QED
    BY <2>2, <2>3
<1>5. Sessions'
  BY <1>2, <1>4 DEF Sessions
<1>6. ASSUME NEW p \in Processes', p \in Processes, owner[p] # o
      PROVE  ProcessOK(p)'
  <2>1. Same(p) /\ ProcessOK(p)
    BY <1>1, <1>6 DEF Shelled
  <2>2. owner[p] \in Objects /\ object'[owner[p]] = object[owner[p]]
    BY <1>2, <1>6, <2>1 DEF ProcessOK
  <2> QED
    BY <1>2, <2>1, <2>2 DEF Same, ProcessOK
<1>7. Shelled'
  BY <1>6 DEF Shelled
<1> QED
  BY <1>5, <1>7

\* A session without a process, as those are that have not started or have ended.
Still(s) ==
  s.process = None /\ s.status # "running" /\ s.pending = << >> /\ ~s.draining

\* It is in order.
LEMMA StillOK ==
  ASSUME NEW o, Still(object[o])', reported' \subseteq Processes'
  PROVE  SessionOK(o)'
<1>1. None \notin reported'
  BY DEF Processes, None
<1>2. ~ExitPending(object[o])'
  BY DEF Still, ExitPending
<1> QED
  BY <1>1, <1>2 DEF Still, SessionOK, Running

\* A session of the invariant that does not run has no process, nor anything
\* pending.
LEMMA IsStill ==
  ASSUME IInv, NEW o \in Objects, ~Running(o)
  PROVE  Still(object[o])
BY DEF IInv, Sessions, SessionOK, Running, Still

\* A session's shape and process.
LEMMA SessionFacts ==
  ASSUME IInv, NEW o \in Objects
  PROVE  /\ object[o] \in Shapes /\ SessionOK(o)
         /\ \A p \in Processes :
              owner[p] = o /\ p # object[o].process
                => /\ p \in alive <=> p \in condemned
                   /\ p \notin reported /\ p \notin forgotten
<1>1. object[o] \in Shapes /\ SessionOK(o)
  BY DEF IInv, Types, Sessions, Objects
<1>2. ASSUME NEW p \in Processes, owner[p] = o, p # object[o].process
      PROVE  /\ p \in alive <=> p \in condemned
             /\ p \notin reported /\ p \notin forgotten
  BY <1>2 DEF IInv, Shelled, ProcessOK
<1> QED
  BY <1>1, <1>2

-----------------------------------------------------------------------------
(* Steps that touch no session                                             *)

sessions == <<object, drains, condemned, processes, forgotten>>

\* They leave sessions and processes in order, and what is found in place unless
\* the terminal's session is another.
LEMMA Aside ==
  ASSUME IInv, UNCHANGED <<session, mislaid>>, UNCHANGED sessions,
         call' \in CallShapes, call'.session \in Objects \cup {None}
  PROVE  Types' /\ Named' /\ Sessions' /\ Shelled' /\ Found'
<1>1. Types /\ Named /\ Sessions /\ Shelled /\ Found
  BY DEF IInv
<1>2. UNCHANGED <<object, drains, condemned, owner, alive, reported, forgotten>>
  BY DEF sessions, processes
<1>3. Objects' = Objects /\ Processes' = Processes
  BY <1>2 DEF Objects, Processes
<1>4. Types' /\ Named'
  BY <1>1, <1>2, <1>3 DEF Types, Named
<1>5. Sessions'
  BY <1>1, <1>2, <1>3 DEF Sessions, SessionOK, Running, DrainsOf, ExitPending
<1>6. Shelled'
  BY <1>1, <1>2, <1>3 DEF Shelled, ProcessOK
<1>7. Found'
  BY <1>1, <1>2, <1>3 DEF Found, Running
<1> QED
  BY <1>4, <1>5, <1>6, <1>7

\* What the invariant says of the call, and of the disk while it stays as it is.
LEMMA CallFacts ==
  ASSUME IInv
  PROVE  /\ call \in CallShapes /\ call.session \in Objects \cup {None}
         /\ session \in Objects \cup {None} /\ Locked /\ DiskOK /\ DiskTypes
         /\ Idle \in CallShapes /\ Idle.session = None /\ Idle.at = "idle"
         /\ None \notin Objects
<1>1. Idle \in CallShapes /\ Idle.session = None /\ Idle.at = "idle"
  BY DEF Idle, CallShapes, None
<1>2. None \notin Objects
  BY DEF Objects, None
<1> QED
  BY <1>1, <1>2 DEF IInv, Types, Named

\* A call that returns holds nothing.
LEMMA ReturnLocked ==
  ASSUME IInv, call' = Idle
  PROVE  Locked'
BY CallFacts DEF Locked, Idle

\* If nothing is written and no history changes, the disk has what it will have.
LEMMA DiskAside ==
  ASSUME IInv, UNCHANGED disk, mislaid \subseteq mislaid',
         call'.at = "read" => call.at = "read",
         session' # None /\ mislaid = {} =>
           /\ session' = session
           /\ object'[session].lines = object[session].lines
  PROVE  DiskTypes' /\ DiskOK'
<1>1. DiskTypes /\ DiskOK
  BY CallFacts
<1>2. UNCHANGED <<queued, writing, file, unsaved>>
  BY DEF disk
<1>3. DiskTypes'
  BY <1>1, <1>2 DEF DiskTypes
<1>4. (Drained <=> Drained') /\ Latest' = Latest
  BY <1>2 DEF Drained, Latest
<1>5. ASSUME mislaid' = {}
      PROVE  /\ call'.at = "read" => Drained'
             /\ session' # None =>
                  Latest' = object'[session'].lines \/ (Drained' /\ unsaved')
  <2>1. mislaid = {}
    BY <1>5
  <2>2. call'.at = "read" => Drained'
    BY <1>1, <1>4, <2>1 DEF DiskOK
  <2>3. ASSUME session' # None
        PROVE  Latest' = object'[session'].lines \/ (Drained' /\ unsaved')
    <3>1. session' = session /\ object'[session'].lines = object[session].lines
      BY <2>1, <2>3
    <3>2. Latest = object[session].lines \/ (Drained /\ unsaved)
      BY <1>1, <2>1, <2>3, <3>1 DEF DiskOK
    <3> QED
      BY <1>2, <1>4, <3>1, <3>2
  <2> QED
    BY <2>2, <2>3
<1>6. DiskOK'
  BY <1>5 DEF DiskOK
<1> QED
  BY <1>3, <1>6

\* openNew, up to where it waits for the persist worker.
LEMMA ByOpenNew ==
  ASSUME IInv, OpenNew
  PROVE  IInv'
<1>1. /\ session = None /\ UNCHANGED <<session, mislaid>> /\ UNCHANGED sessions
      /\ UNCHANGED disk
      /\ call' = [op |-> "open", at |-> "flush", session |-> None]
  BY DEF OpenNew, kills, Wait, history, sessions
<1>2. /\ call' \in CallShapes /\ call'.session = None /\ call'.at = "flush"
      /\ call'.op = "open"
  BY <1>1 DEF CallShapes, None
<1>3. Types' /\ Named' /\ Sessions' /\ Shelled' /\ Found'
  BY <1>1, <1>2, Aside
<1>4. Locked'
  BY <1>1, <1>2, CallFacts DEF Locked
<1>5. DiskTypes' /\ DiskOK'
  BY <1>1, <1>2, DiskAside
<1> QED
  BY <1>3, <1>4, <1>5 DEF IInv

\* The histories asked for are written.
LEMMA ByFlushed ==
  ASSUME IInv, Flushed
  PROVE  IInv'
<1>1. /\ call.at = "flush" /\ Drained /\ UNCHANGED <<session, mislaid>>
      /\ UNCHANGED sessions /\ UNCHANGED disk
      /\ call' = [op |-> "open", at |-> "read", session |-> None]
  BY DEF Flushed, kills, Wait, history, sessions
<1>2. /\ call' \in CallShapes /\ call'.session = None /\ call'.at = "read"
      /\ call'.op = "open"
  BY <1>1 DEF CallShapes, None
<1>3. Types' /\ Named' /\ Sessions' /\ Shelled' /\ Found'
  BY <1>1, <1>2, Aside
<1>4. call.session = None /\ session = None
  BY <1>1, CallFacts DEF Locked, Idle
<1>5. Locked'
  BY <1>1, <1>2, <1>4 DEF Locked
<1>6. DiskTypes' /\ DiskOK'
  <2>1. UNCHANGED <<queued, writing, file, unsaved>>
    BY <1>1 DEF disk
  <2>2. DiskTypes'
    BY <2>1, CallFacts DEF DiskTypes
  <2>3. Drained'
    BY <1>1, <2>1 DEF Drained
  <2> QED
    BY <1>1, <1>4, <2>2, <2>3 DEF DiskOK
<1> QED
  BY <1>3, <1>5, <1>6 DEF IInv

\* A call whose client is gone gives the lock back wherever it waits.
LEMMA ByInterrupted ==
  ASSUME IInv, Interrupted
  PROVE  IInv'
<1>1. /\ UNCHANGED <<session, mislaid>> /\ UNCHANGED sessions /\ UNCHANGED disk
      /\ call' = Idle
  BY DEF Interrupted, kills, Return, history, sessions
<1>2. Types' /\ Named' /\ Sessions' /\ Shelled' /\ Found'
  BY <1>1, CallFacts, Aside
<1>3. Locked'
  BY <1>1, ReturnLocked
<1>4. DiskTypes' /\ DiskOK'
  <2>1. call'.at = "idle"
    BY <1>1, CallFacts
  <2>2. UNCHANGED object
    BY <1>1 DEF sessions
  <2> QED
    BY <1>1, <2>1, <2>2, DiskAside
<1> QED
  BY <1>2, <1>3, <1>4 DEF IInv

\* deleteHistory: there is no session any more whose history it could be.
LEMMA ByRemoveHistory ==
  ASSUME IInv, RemoveHistory
  PROVE  IInv'
<1>1. /\ call.at = "remove" /\ UNCHANGED <<session, mislaid>> /\ UNCHANGED sessions
      /\ UNCHANGED <<queued, writing, unsaved>> /\ file' = 0 /\ call' = Idle
  BY DEF RemoveHistory, kills, Return, history, sessions
<1>2. Types' /\ Named' /\ Sessions' /\ Shelled' /\ Found'
  BY <1>1, CallFacts, Aside
<1>3. Locked'
  BY <1>1, ReturnLocked
<1>4. session = None
  BY <1>1, CallFacts DEF Locked, Idle
<1>5. DiskTypes'
  BY <1>1, CallFacts, LimitsAssumption DEF DiskTypes, Histories
<1>6. DiskOK'
  BY <1>1, <1>4, CallFacts DEF DiskOK
<1> QED
  BY <1>2, <1>3, <1>5, <1>6 DEF IInv

\* The persist worker takes the queued history.
LEMMA ByTakeHistory ==
  ASSUME IInv, TakeHistory
  PROVE  IInv'
<1>1. /\ UNCHANGED <<session, mislaid, object, call, file, unsaved>>
      /\ UNCHANGED sessions
      /\ writing = Nothing /\ queued # Nothing
      /\ writing' = queued /\ queued' = Nothing
  BY DEF TakeHistory, kills, history, sessions
<1>2. Types' /\ Named' /\ Sessions' /\ Shelled' /\ Found'
  BY <1>1, CallFacts, Aside
<1>3. Locked'
  BY <1>1, CallFacts DEF Locked, Running
<1>4. DiskTypes'
  BY <1>1, CallFacts DEF DiskTypes
<1>5. Latest' = Latest /\ ~Drained
  BY <1>1 DEF Latest, Drained
<1>6. DiskOK'
  BY <1>1, <1>5, CallFacts DEF DiskOK
<1> QED
  BY <1>2, <1>3, <1>4, <1>6 DEF IInv

\* It has written it, or failed to, and takes the next one.
LEMMA ByWriteHistory ==
  ASSUME IInv, WriteHistory
  PROVE  IInv'
<1>1. /\ UNCHANGED <<session, mislaid, object, call>> /\ UNCHANGED sessions
      /\ writing # Nothing /\ writing' = queued /\ queued' = Nothing
      /\ \/ file' = writing /\ unsaved' = FALSE
         \/ file' = file /\ unsaved' = TRUE
  BY DEF WriteHistory, kills, history, sessions
<1>2. Types' /\ Named' /\ Sessions' /\ Shelled' /\ Found'
  BY <1>1, CallFacts, Aside
<1>3. Locked'
  BY <1>1, CallFacts DEF Locked, Running
<1>4. DiskTypes'
  <2>1. queued' \in Histories \cup {Nothing} /\ writing' \in Histories \cup {Nothing}
    BY <1>1, CallFacts DEF DiskTypes
  <2>2. file' \in Histories
    BY <1>1, CallFacts DEF DiskTypes
  <2>3. unsaved' \in BOOLEAN
    BY <1>1
  <2> QED
    BY <2>1, <2>2, <2>3 DEF DiskTypes
<1>5. ~Drained /\ (Latest' = Latest \/ (Drained' /\ unsaved'))
  BY <1>1 DEF Latest, Drained
<1>6. DiskOK'
  BY <1>1, <1>5, CallFacts DEF DiskOK
<1> QED
  BY <1>2, <1>3, <1>4, <1>6 DEF IInv

-----------------------------------------------------------------------------
(* Steps that change one session                                           *)

\* A session is parted from its process, which is killed if it lives and not
\* listened to any more.
LEMMA Parted ==
  ASSUME IInv, NEW o \in Objects, NEW s \in Shapes, Still(s),
         object' = [object EXCEPT ![o] = s], UNCHANGED <<owner, alive>>,
         \A p \in Processes : owner[p] # o => drains'[p] = drains[p],
         condemned' = condemned \cup ({object[o].process} \cap alive),
         reported' = reported \ {object[o].process},
         forgotten' = forgotten \ {object[o].process}
  PROVE  Sessions' /\ Shelled'
<1>1. /\ object \in Seq(Shapes) /\ reported \subseteq Processes /\ Shelled
      /\ alive \subseteq Processes
  BY DEF IInv, Types, Named
<1>2. Objects' = Objects /\ object'[o] = s /\ Processes' = Processes
  BY <1>1, ObjectReplaced DEF Processes
<1>3. reported' \subseteq Processes'
  BY <1>1, <1>2
<1>4. SessionOK(o)
  BY DEF IInv, Sessions
<1>5. ASSUME NEW p \in Processes, owner[p] # o
      PROVE  Same(p)
  <2>1. object[o].process # p
    <3>1. CASE Running(o)
      BY <1>4, <1>5, <3>1 DEF SessionOK
    <3>2. CASE ~Running(o)
      BY <3>2 DEF Running, Processes, None
    <3> QED
      BY <3>1, <3>2
  <2> QED
    BY <1>5, <2>1 DEF Same
<1>6. ASSUME NEW p \in Processes', p \notin Processes \/ owner[p] = o
      PROVE  ProcessOK(p)'
  <2>1. p \in Processes /\ owner[p] = o /\ ProcessOK(p)
    BY <1>1, <1>2, <1>6 DEF Shelled
  <2>2. CASE p = object[o].process
    BY <1>2, <2>1, <2>2 DEF ProcessOK
  <2>3. CASE p # object[o].process
    BY <1>2, <2>1, <2>3 DEF ProcessOK
  <2> QED
    BY <2>2, <2>3
<1>7. SessionOK(o)'
  BY <1>2, <1>3, StillOK DEF Still
<1> QED
  BY <1>2, <1>3, <1>5, <1>6, <1>7, OneSession

\* A session keeps its process and its status.
LEMMA HeldOn ==
  ASSUME IInv, NEW o \in Objects, NEW s \in Shapes,
         object' = [object EXCEPT ![o] = s], UNCHANGED <<owner, alive, condemned>>,
         s.process = object[o].process, s.status = object[o].status,
         \A p \in Processes : owner[p] # o =>
           /\ drains'[p] = drains[p]
           /\ (p \in reported') = (p \in reported)
           /\ (p \in forgotten') = (p \in forgotten),
         reported' \subseteq Processes, forgotten' \subseteq reported',
         \A p \in reported' : p \in reported \/ (p = s.process /\ p \notin alive),
         s.pending # << >> => s.draining,
         s.draining => s.process # None /\ DrainsOf(s.process)' > 0,
         ExitPending(s) => s.process \in reported',
         s.process \in reported' => ExitPending(s) \/ s.process \in forgotten'
  PROVE  Sessions' /\ Shelled'
<1>1. object \in Seq(Shapes) /\ Shelled
  BY DEF IInv, Types
<1>2. Objects' = Objects /\ object'[o] = s /\ Processes' = Processes
  BY <1>1, ObjectReplaced DEF Processes
<1>3. SessionOK(o)
  BY DEF IInv, Sessions
<1>4. ASSUME NEW p \in Processes, owner[p] # o
      PROVE  Same(p)
  BY <1>4 DEF Same
<1>5. ASSUME NEW p \in Processes', p \notin Processes \/ owner[p] = o
      PROVE  ProcessOK(p)'
  <2>1. p \in Processes /\ owner[p] = o /\ ProcessOK(p)
    BY <1>1, <1>2, <1>5 DEF Shelled
  <2> QED
    BY <1>2, <2>1 DEF ProcessOK
<1>6. SessionOK(o)'
  <2>1. DrainsOf(object[o].process)' = DrainsOf(s.process)'
    BY <1>2 DEF DrainsOf
  <2>2. /\ Running(o)' <=> Running(o)
        /\ Running(o) <=> s.status = "running"
        /\ Running(o) => s.process \in Processes' /\ owner'[s.process] = o
    BY <1>2, <1>3 DEF SessionOK, Running
  <2> QED
    BY <1>2, <2>1, <2>2 DEF SessionOK, Running
<1> QED
  BY <1>2, <1>4, <1>5, <1>6, OneSession

\* The shapes that the code gives a session.
LEMMA ShapeFacts ==
  ASSUME NEW s \in Shapes
  PROVE  /\ Emptied(s) \in Shapes /\ Blank(s) \in Shapes /\ Starting(s) \in Shapes
         /\ \A t \in {"exited", "error"} : Off(s, t) \in Shapes /\ Still(Off(s, t))
         /\ Stopped(s) \in Shapes /\ Stopped(s).lines = s.lines
         /\ \A x : x \in {Emptied(s), Starting(s), Off(s, "error"), Off(s, "exited")}
              => x.lines = s.lines
         /\ \A x : x \in {Emptied(s), Blank(s)}
              => /\ x.process = s.process /\ x.status = s.status
                 /\ x.pending = << >> /\ x.draining = FALSE
         /\ Blank(s).lines = 0
         /\ Starting(s).process = s.process /\ Starting(s).status = "starting"
         /\ Starting(s).pending = << >> /\ Starting(s).draining = FALSE
<1> DEFINE e == [s EXCEPT !.pending = << >>, !.draining = FALSE]
<1>1. << >> \in Seq(Events) /\ 0 \in Histories
  BY LimitsAssumption DEF Histories
<1>2. e = Emptied(s)
  BY DEF Emptied
<1>3. /\ e \in Shapes /\ e.process = s.process /\ e.status = s.status
      /\ e.lines = s.lines /\ e.pending = << >> /\ e.draining = FALSE
  BY <1>1 DEF Shapes
<1> HIDE DEF e
<1>4. /\ Blank(s) \in Shapes /\ Blank(s).process = s.process
      /\ Blank(s).status = s.status /\ Blank(s).lines = 0
      /\ Blank(s).pending = << >> /\ Blank(s).draining = FALSE
  BY <1>1, <1>2, <1>3 DEF Blank, Shapes
<1>5. /\ Starting(s) \in Shapes /\ Starting(s).process = s.process
      /\ Starting(s).status = "starting" /\ Starting(s).lines = s.lines
      /\ Starting(s).pending = << >> /\ Starting(s).draining = FALSE
  BY <1>2, <1>3 DEF Starting, Shapes, Statuses
<1>6. ASSUME NEW t \in {"exited", "error"}
      PROVE  Off(s, t) \in Shapes /\ Still(Off(s, t)) /\ Off(s, t).lines = s.lines
  BY <1>2, <1>3, <1>6 DEF Off, Shapes, Statuses, Still, None
<1>7. Stopped(s) \in Shapes /\ Stopped(s).lines = s.lines
  BY <1>6 DEF Stopped
<1> QED
  BY <1>2, <1>3, <1>4, <1>5, <1>6, <1>7

\* A session without a process that starts has none yet.
LEMMA StartingFacts ==
  ASSUME NEW s \in Shapes, Still(s)
  PROVE  /\ Starting(s) \in Shapes /\ Still(Starting(s))
         /\ Starting(s).lines = s.lines
<1>1. /\ Starting(s) \in Shapes /\ Starting(s).lines = s.lines
      /\ Starting(s).process = s.process /\ Starting(s).status = "starting"
      /\ Starting(s).pending = << >> /\ Starting(s).draining = FALSE
  BY ShapeFacts
<1>2. s.process = None
  BY DEF Still
<1>3. Still(Starting(s))
  BY <1>1, <1>2 DEF Still
<1> QED
  BY <1>1, <1>3

\* stopProcess leaves a session without a process, and the empty history does not
\* give it one.
LEMMA StoppedFacts ==
  ASSUME IInv, NEW o \in Objects
  PROVE  /\ Stopped(object[o]) \in Shapes /\ Still(Stopped(object[o]))
         /\ Blank(Stopped(object[o])) \in Shapes
         /\ Still(Blank(Stopped(object[o])))
<1>1. object[o] \in Shapes
  BY SessionFacts
<1>2. Still(Stopped(object[o]))
  <2>1. CASE object[o].process = None
    BY <2>1, IsStill DEF Stopped, Running
  <2>2. CASE object[o].process # None
    BY <1>1, <2>2, ShapeFacts DEF Stopped
  <2> QED
    BY <2>1, <2>2
<1>3. Stopped(object[o]) \in Shapes
  BY <1>1, ShapeFacts
<1>4. /\ Blank(Stopped(object[o])) \in Shapes
      /\ Still(Blank(Stopped(object[o])))
  <2> DEFINE s == Stopped(object[o])
  <2> HIDE DEF s
  <2>1. s \in Shapes /\ Still(s)
    BY <1>2, <1>3 DEF s
  <2>2. Blank(s) \in Shapes /\ Still(Blank(s))
    BY <2>1, ShapeFacts DEF Still
  <2> QED
    BY <2>2 DEF s
<1> QED
  BY <1>2, <1>3, <1>4


\* A session without a process stays without one.
LEMMA StillReplaced ==
  ASSUME IInv, NEW o \in Objects, NEW s \in Shapes, Still(s), ~Running(o),
         object' = [object EXCEPT ![o] = s],
         UNCHANGED <<owner, alive, condemned, reported, forgotten>>,
         \A p \in Processes : owner[p] # o => drains'[p] = drains[p]
  PROVE  Sessions' /\ Shelled'
<1>1. object[o].process = None
  BY DEF Running
<1>2. None \notin alive /\ None \notin reported /\ None \notin forgotten
  BY DEF IInv, Named, Processes, None
<1>3. /\ condemned' = condemned \cup ({object[o].process} \cap alive)
      /\ reported' = reported \ {object[o].process}
      /\ forgotten' = forgotten \ {object[o].process}
  BY <1>1, <1>2
<1> QED
  BY <1>3, Parted

\* The types of a step that replaces one session object.
LEMMA OneObject ==
  ASSUME IInv, NEW o \in Objects, NEW s \in Shapes,
         object' = [object EXCEPT ![o] = s], UNCHANGED owner,
         drains' \in Seq(Counts), Len(drains') = Len(drains),
         alive' \subseteq Processes, condemned' \subseteq Processes,
         reported' \subseteq Processes, forgotten' \subseteq Processes,
         session' \in Objects \cup {None},
         call' \in CallShapes, call'.session \in Objects \cup {None},
         mislaid' \subseteq Objects
  PROVE  Types' /\ Named'
<1>1. object \in Seq(Shapes) /\ owner \in Seq(Nat) /\ Len(drains) = Len(owner)
  BY DEF IInv, Types, Named
<1>2. object' \in Seq(Shapes) /\ Objects' = Objects /\ Processes' = Processes
  BY <1>1, ObjectReplaced DEF Processes
<1>3. session' \in Nat
  BY <1>1 DEF Objects, None
<1>4. Types'
  BY <1>1, <1>2, <1>3 DEF Types
<1>5. Named'
  BY <1>1, <1>2 DEF Named
<1> QED
  BY <1>4, <1>5

\* What runs is still found, if no session starts to run, and the terminal's
\* session is not replaced by another.
LEMMA StillFound ==
  ASSUME IInv, NEW o \in Objects, NEW s \in Shapes,
         object' = [object EXCEPT ![o] = s],
         s.process # None => Running(o),
         mislaid \subseteq mislaid',
         \A q \in Objects :
           q = session => q = session' \/ q \in mislaid' \/ (q = o /\ s.process = None)
  PROVE  Found'
<1>1. object \in Seq(Shapes) /\ Found
  BY DEF IInv, Types
<1>2. /\ Objects' = Objects /\ object'[o] = s
      /\ \A q \in Objects : q # o => object'[q] = object[q]
  BY <1>1, ObjectReplaced
<1> SUFFICES ASSUME NEW q \in Objects, Running(q)'
             PROVE  q = session' \/ q \in mislaid'
  BY <1>2 DEF Found
<1>3. Running(q)
  BY <1>2 DEF Running
<1>4. q = session \/ q \in mislaid
  BY <1>1, <1>3 DEF Found
<1>5. ~(q = o /\ s.process = None)
  BY <1>2 DEF Running
<1> QED
  BY <1>4, <1>5

\* The history that is queued is the terminal's.
LEMMA DiskQueued ==
  ASSUME IInv, UNCHANGED <<writing, file, unsaved>>, queued' \in Histories,
         call'.at # "read", session' # None => queued' = object'[session'].lines
  PROVE  DiskTypes' /\ DiskOK'
<1>1. DiskTypes'
  BY CallFacts DEF DiskTypes
<1>2. queued' # Nothing
  BY LimitsAssumption DEF Nothing, Histories
<1>3. Latest' = queued'
  BY <1>2 DEF Latest
<1>4. DiskOK'
  BY <1>3 DEF DiskOK
<1> QED
  BY <1>1, <1>4

\* A call that waits for a history to be written.
LEMMA WaitFacts ==
  ASSUME IInv, NEW op \in {"open", "clear", "restart", "close", "delete"},
         NEW at \in {"persist", "spawn", "flush", "read", "remove"},
         NEW o \in Objects \cup {None},
         call' = [op |-> op, at |-> at, session |-> o]
  PROVE  /\ call' \in CallShapes /\ call'.session = o /\ call'.at = at /\ call'.op = op
         /\ call' # Idle
<1>1. o \in Nat
  BY DEF Objects, None
<1> QED
  BY <1>1 DEF CallShapes, Idle

\* The stop of a session that is reused, and its empty history on disk.
LEMMA ByRenew ==
  ASSUME IInv, NEW op \in {"open", "restart"}, call = Idle, session # None, Renew(op)
  PROVE  IInv'
<1>1. PICK o \in Objects : o = session
  BY CallFacts
<1> DEFINE s == Blank(Stopped(object[o]))
<1>2. s \in Shapes /\ Still(s)
  BY StoppedFacts
<1>3. s.lines = 0 /\ s.process = None
  <2>1. Stopped(object[o]) \in Shapes
    BY StoppedFacts
  <2> QED
    BY <1>2, <2>1, ShapeFacts DEF Still
<1> HIDE DEF s
<1>4. /\ object' = [object EXCEPT ![o] = s]
      /\ call' = [op |-> op, at |-> "persist", session |-> o]
      /\ queued' = 0
      /\ UNCHANGED <<session, drains, owner, alive, writing, file, unsaved, mislaid>>
      /\ condemned' = condemned \cup ({object[o].process} \cap alive)
      /\ reported' = reported \ {object[o].process}
      /\ forgotten' = forgotten \ {object[o].process}
  BY <1>1 DEF Renew, kills, s, StopProcess, Killed, Unheard, Wait
<1>5. /\ call' \in CallShapes /\ call'.session = o /\ call'.at = "persist"
      /\ call'.op = op /\ call' # Idle
  BY <1>4, WaitFacts
<1>6. Types /\ Named
  BY DEF IInv
<1>7. Sessions' /\ Shelled'
  BY <1>2, <1>4, Parted
<1>8. Types' /\ Named'
  BY <1>2, <1>4, <1>5, <1>6, OneObject DEF Types, Named
<1>9. Found'
  BY <1>2, <1>3, <1>4, StillFound
<1>10. object'[o] = s
  BY <1>2, <1>4, <1>6, ObjectReplaced DEF Types
<1>11. Locked'
  BY <1>1, <1>3, <1>4, <1>5, <1>10, CallFacts DEF Locked, Running
<1>12. DiskTypes' /\ DiskOK'
  BY <1>1, <1>3, <1>4, <1>5, <1>10, DiskQueued, LimitsAssumption DEF Histories
<1> QED
  BY <1>7, <1>8, <1>9, <1>11, <1>12 DEF IInv

\* open of a session whose start was interrupted.
LEMMA ByOpenUnstarted ==
  ASSUME IInv, OpenUnstarted
  PROVE  IInv'
<1>1. PICK o \in Objects : o = session
  BY CallFacts DEF OpenUnstarted, kills
<1>2. object[o] \in Shapes /\ ~Running(o)
  BY <1>1, SessionFacts DEF OpenUnstarted, kills, SessionOK
<1> DEFINE s == Starting(object[o])
<1>3. Still(s) /\ s \in Shapes /\ s.lines = object[o].lines
  <2>1. Still(object[o])
    BY <1>2, IsStill
  <2> QED
    BY <1>2, <2>1, StartingFacts
<1>4. s.process = None
  BY <1>3 DEF Still
<1> HIDE DEF s
<1>5. /\ object' = [object EXCEPT ![o] = s]
      /\ call' = [op |-> "open", at |-> "spawn", session |-> o]
      /\ UNCHANGED <<session, drains, condemned, owner, alive, reported, forgotten, mislaid>>
      /\ UNCHANGED disk
  BY <1>1 DEF OpenUnstarted, kills, s, Wait, history, processes
<1>6. /\ call' \in CallShapes /\ call'.session = o /\ call'.at = "spawn"
      /\ call'.op = "open" /\ call' # Idle
  BY <1>5, WaitFacts
<1>7. Types /\ Named
  BY DEF IInv
<1>8. Sessions' /\ Shelled'
  BY <1>2, <1>3, <1>5, StillReplaced
<1>9. Types' /\ Named'
  BY <1>3, <1>5, <1>6, <1>7, OneObject DEF Types, Named
<1>10. Found'
  BY <1>3, <1>4, <1>5, StillFound
<1>11. object'[o] = s
  BY <1>3, <1>5, <1>7, ObjectReplaced DEF Types
<1>12. Locked'
  BY <1>1, <1>4, <1>5, <1>6, <1>11, CallFacts DEF Locked, Running
<1>13. DiskTypes' /\ DiskOK'
  BY <1>1, <1>3, <1>5, <1>6, <1>11, DiskAside
<1> QED
  BY <1>8, <1>9, <1>10, <1>12, <1>13 DEF IInv

\* The process of a session is no other session's.
LEMMA OwnProcess ==
  ASSUME IInv, NEW o \in Objects, NEW p \in Processes, owner[p] # o
  PROVE  p # object[o].process
<1>1. SessionOK(o)
  BY SessionFacts
<1>2. CASE Running(o)
  BY <1>1, <1>2 DEF SessionOK
<1>3. CASE ~Running(o)
  BY <1>3 DEF Running, Processes, None
<1> QED
  BY <1>2, <1>3

\* What a session has pending is thrown away: an exit among it is forgotten.
LEMMA ThrownAway ==
  ASSUME IInv, NEW o \in Objects
  PROVE  /\ forgotten \cup Dropped(object[o]) \subseteq reported
         /\ object[o].process \in reported
              => object[o].process \in forgotten \cup Dropped(object[o])
         /\ \A p \in Processes : owner[p] # o =>
              (p \in forgotten \cup Dropped(object[o])) = (p \in forgotten)
<1>1. SessionOK(o) /\ forgotten \subseteq reported
  <2>1. forgotten \subseteq Processes /\ Shelled
    BY DEF IInv, Named
  <2> QED
    BY <2>1, SessionFacts DEF Shelled, ProcessOK
<1>2. Dropped(object[o]) \subseteq {object[o].process}
  BY DEF Dropped
<1>3. forgotten \cup Dropped(object[o]) \subseteq reported
  BY <1>1 DEF SessionOK, Dropped
<1>4. object[o].process \in reported
        => object[o].process \in forgotten \cup Dropped(object[o])
  BY <1>1 DEF SessionOK, Dropped
<1>5. ASSUME NEW p \in Processes, owner[p] # o
      PROVE  (p \in forgotten \cup Dropped(object[o])) = (p \in forgotten)
  BY <1>2, <1>5, OwnProcess
<1> QED
  BY <1>3, <1>4, <1>5

\* clear: the session keeps its process and loses what is pending.
LEMMA ByClear ==
  ASSUME IInv, Clear
  PROVE  IInv'
<1>1. PICK o \in Objects : o = session
  BY CallFacts DEF Clear, kills
<1>2. object[o] \in Shapes
  BY SessionFacts
<1> DEFINE s == Blank(object[o])
<1>3. /\ s \in Shapes /\ s.process = object[o].process
      /\ s.status = object[o].status /\ s.lines = 0
      /\ s.pending = << >> /\ s.draining = FALSE
  BY <1>2, ShapeFacts
<1> HIDE DEF s
<1>4. /\ object' = [object EXCEPT ![o] = s]
      /\ call' = [op |-> "clear", at |-> "persist", session |-> o]
      /\ queued' = 0
      /\ UNCHANGED <<session, drains, condemned, owner, alive, reported, mislaid>>
      /\ UNCHANGED <<writing, file, unsaved>>
      /\ forgotten' = forgotten \cup Dropped(object[o])
  BY <1>1 DEF Clear, kills, ClearPersists, s, Wait, processes
<1>5. /\ call' \in CallShapes /\ call'.session = o /\ call'.at = "persist"
      /\ call'.op = "clear" /\ call' # Idle
  BY <1>4, WaitFacts
<1>6. Types /\ Named
  BY DEF IInv
<1>7. ~ExitPending(s)
  BY <1>3 DEF ExitPending
<1>8. forgotten' \subseteq reported' /\ reported' \subseteq Processes
  BY <1>4, <1>6, ThrownAway DEF Named
<1>9. Sessions' /\ Shelled'
  <2>1. \A p \in Processes : owner[p] # o =>
          /\ drains'[p] = drains[p]
          /\ (p \in reported') = (p \in reported)
          /\ (p \in forgotten') = (p \in forgotten)
    BY <1>4, ThrownAway
  <2>2. s.process \in reported' => s.process \in forgotten'
    BY <1>3, <1>4, ThrownAway
  <2>3. /\ UNCHANGED <<owner, alive, condemned>>
        /\ \A p \in reported' : p \in reported
    BY <1>4
  <2> QED
    BY <1>3, <1>4, <1>7, <1>8, <2>1, <2>2, <2>3, HeldOn
<1>10. Types' /\ Named'
  BY <1>3, <1>4, <1>5, <1>6, <1>8, OneObject DEF Types, Named
<1>11. Found'
  BY <1>3, <1>4, StillFound DEF Running
<1>12. object'[o] = s
  BY <1>3, <1>4, <1>6, ObjectReplaced DEF Types
<1>13. Locked'
  BY <1>1, <1>4, <1>5, CallFacts DEF Locked
<1>14. DiskTypes' /\ DiskOK'
  BY <1>1, <1>3, <1>4, <1>5, <1>12, DiskQueued, LimitsAssumption DEF Histories
<1> QED
  BY <1>9, <1>10, <1>11, <1>13, <1>14 DEF IInv

\* close, and the history it leaves on disk.
LEMMA ByClose ==
  ASSUME IInv, Close
  PROVE  IInv'
<1>1. /\ call = Idle
      /\ UNCHANGED <<session, drains, owner, alive, writing, file, unsaved, mislaid>>
  BY DEF Close, kills
<1>2. PICK op \in {"close", "delete"} :
        call' = [op |-> op, at |-> "persist", session |-> session]
  BY DEF Close, kills, Wait
<1>3. /\ call' \in CallShapes /\ call'.session = session /\ call'.at = "persist"
      /\ call'.op = op /\ call' # Idle
  BY <1>2, CallFacts, WaitFacts
<1>4. CASE session = None
  <2>1. UNCHANGED <<session, mislaid>> /\ UNCHANGED sessions /\ UNCHANGED disk
    BY <1>1, <1>4 DEF Close, kills, sessions, processes, disk
  <2>2. Types' /\ Named' /\ Sessions' /\ Shelled' /\ Found'
    BY <1>3, <2>1, CallFacts, Aside
  <2>3. Locked'
    BY <1>3, <1>4, <2>1, CallFacts DEF Locked
  <2>4. DiskTypes' /\ DiskOK'
    BY <1>3, <1>4, <2>1, DiskAside
  <2> QED
    BY <2>2, <2>3, <2>4 DEF IInv
<1>5. CASE session # None
  <2>1. PICK o \in Objects : o = session
    BY <1>5, CallFacts
  <2> DEFINE s == Stopped(object[o])
  <2>2. s \in Shapes /\ Still(s)
    BY StoppedFacts
  <2>3. object[o] \in Shapes
    BY SessionFacts
  <2>4. s.lines = object[o].lines /\ s.process = None
    BY <2>2, <2>3, ShapeFacts DEF Still
  <2> HIDE DEF s
  <2>5. /\ object' = [object EXCEPT ![o] = s]
        /\ queued' = object[o].lines
        /\ condemned' = condemned \cup ({object[o].process} \cap alive)
        /\ reported' = reported \ {object[o].process}
        /\ forgotten' = forgotten \ {object[o].process}
    BY <1>5, <2>1 DEF Close, kills, s, StopProcess, Killed, Unheard
  <2>6. Types /\ Named
    BY DEF IInv
  <2>7. Sessions' /\ Shelled'
    BY <1>1, <2>2, <2>5, Parted
  <2>8. Types' /\ Named'
    BY <1>1, <1>3, <2>1, <2>2, <2>5, <2>6, OneObject DEF Types, Named
  <2>9. Found'
    BY <1>1, <2>2, <2>4, <2>5, StillFound
  <2>10. object'[o] = s
    BY <2>2, <2>5, <2>6, ObjectReplaced DEF Types
  <2>11. Locked'
    BY <1>1, <1>3, <2>1, <2>4, <2>10, CallFacts DEF Locked, Running
  <2>12. DiskTypes' /\ DiskOK'
    <3>1. queued' \in Histories
      BY <2>3, <2>5 DEF Shapes
    <3> QED
      BY <1>1, <1>3, <2>1, <2>4, <2>5, <2>10, <3>1, DiskQueued
  <2> QED
    BY <2>7, <2>8, <2>9, <2>11, <2>12 DEF IInv
<1> QED
  BY <1>4, <1>5

\* A session object is forgotten.
LEMMA DiscardFacts ==
  ASSUME IInv, NEW o \in Objects, Discard(o)
  PROVE  /\ drains' \in Seq(Counts) /\ Len(drains') = Len(drains)
         /\ \A p \in Processes : owner[p] # o => drains'[p] = drains[p]
         /\ \E s \in Shapes : Still(s) /\ object' = [object EXCEPT ![o] = s]
<1>1. NoDrains \in Counts
  BY DEF NoDrains, Counts
<1>2. drains \in Seq(Counts) /\ Processes = 1 .. Len(drains)
  BY DEF IInv, Types, Named, Processes
<1>3. Len(drains) \in Nat /\ \A p \in Processes : drains[p] \in Counts
  BY <1>2
<1>4. drains' = [p \in 1 .. Len(drains) |-> IF owner[p] = o THEN NoDrains ELSE drains[p]]
  BY <1>2 DEF Discard
<1>5. drains' \in Seq(Counts) /\ Len(drains') = Len(drains)
  BY <1>1, <1>2, <1>3, <1>4
<1>6. \A p \in Processes : owner[p] # o => drains'[p] = drains[p]
  BY <1>2, <1>4
<1> DEFINE s == [NewSession(0) EXCEPT !.status = "exited"]
<1>7. object' = [object EXCEPT ![o] = s]
  BY DEF Discard
<1>8. << >> \in Seq(Events) /\ 0 \in Histories
  BY LimitsAssumption DEF Histories
<1>9. s \in Shapes /\ Still(s)
  BY <1>8 DEF NewSession, Shapes, Still, Statuses, None
<1> QED
  BY <1>5, <1>6, <1>7, <1>9

\* The history a call waits for is written: the session starts, or is forgotten.
LEMMA ByPersisted ==
  ASSUME IInv, Persisted
  PROVE  IInv'
<1>1. /\ call.at = "persist" /\ call # Idle
      /\ UNCHANGED <<condemned, owner, alive, reported, forgotten, mislaid>>
      /\ UNCHANGED disk
  BY CallFacts DEF Persisted, kills, processes, history
<1>2. session \in {None, call.session}
  BY <1>1, CallFacts DEF Locked
<1>3. Types /\ Named
  BY DEF IInv
<1>4. CASE /\ call.op \in {"open", "restart"}
           /\ object' = [object EXCEPT ![call.session] = Starting(@)]
           /\ Wait(call.op, "spawn", call.session)
           /\ UNCHANGED <<session, drains>>
  <2>1. PICK o \in Objects : o = call.session
    BY <1>1, <1>4, CallFacts DEF Locked
  <2>2. ~Running(o) /\ object[o] \in Shapes
    BY <1>1, <1>4, <2>1, CallFacts, SessionFacts DEF Locked
  <2> DEFINE s == Starting(object[o])
  <2>3. s \in Shapes /\ Still(s) /\ s.lines = object[o].lines
    <3>1. Still(object[o])
      BY <2>2, IsStill
    <3> QED
      BY <2>2, <3>1, StartingFacts
  <2>4. s.process = None
    BY <2>3 DEF Still
  <2> HIDE DEF s
  <2>5. PICK op \in {"open", "restart"} : op = call.op
    BY <1>4
  <2>6. /\ object' = [object EXCEPT ![o] = s]
        /\ call' = [op |-> op, at |-> "spawn", session |-> o]
        /\ UNCHANGED <<session, drains>>
    BY <1>4, <2>1, <2>5 DEF s, Wait
  <2>7. /\ call' \in CallShapes /\ call'.session = o /\ call'.at = "spawn"
        /\ call'.op = op /\ call' # Idle
    BY <2>6, WaitFacts
  <2>8. Sessions' /\ Shelled'
    BY <1>1, <2>2, <2>3, <2>6, StillReplaced
  <2>9. Types' /\ Named'
    BY <1>1, <1>3, <2>3, <2>6, <2>7, OneObject DEF Types, Named
  <2>10. Found'
    BY <1>1, <2>3, <2>4, <2>6, StillFound
  <2>11. object'[o] = s
    BY <1>3, <2>3, <2>6, ObjectReplaced DEF Types
  <2>12. Locked'
    BY <1>1, <1>2, <2>1, <2>4, <2>6, <2>7, <2>11, CallFacts DEF Locked, Running
  <2>13. DiskTypes' /\ DiskOK'
    BY <1>1, <1>2, <2>1, <2>3, <2>6, <2>7, <2>11, DiskAside
  <2> QED
    BY <2>8, <2>9, <2>10, <2>12, <2>13 DEF IInv
<1>5. CASE call.op = "clear" /\ Return /\ UNCHANGED <<session, object, drains>>
  <2>1. call' = Idle /\ call'.at = "idle" /\ UNCHANGED <<session, object, mislaid>>
    BY <1>1, <1>5, CallFacts DEF Return
  <2>2. UNCHANGED sessions /\ UNCHANGED <<session, mislaid>>
    BY <1>1, <1>5 DEF sessions, processes
  <2>3. Types' /\ Named' /\ Sessions' /\ Shelled' /\ Found'
    BY <2>1, <2>2, CallFacts, Aside
  <2>4. Locked'
    BY <2>1, ReturnLocked
  <2>5. DiskTypes' /\ DiskOK'
    BY <1>1, <2>1, DiskAside
  <2> QED
    BY <2>3, <2>4, <2>5 DEF IInv
<1>6. CASE /\ session' = None
           /\ call.op \in {"close", "delete"}
           /\ IF call.op = "close" THEN Return ELSE Wait("delete", "remove", None)
           /\ IF call.session = None THEN UNCHANGED <<object, drains>>
              ELSE Discard(call.session)
  <2>1. call' = Idle \/ call' = [op |-> "delete", at |-> "remove", session |-> None]
    BY <1>6 DEF Return, Wait
  <2>2. /\ call' \in CallShapes /\ call'.session = None
        /\ call'.at \in {"idle", "remove"}
        /\ call'.at = "idle" => call' = Idle
    <3>1. CASE call' = Idle
      BY <3>1, CallFacts
    <3>2. CASE call' = [op |-> "delete", at |-> "remove", session |-> None]
      BY <3>2, WaitFacts
    <3> QED
      BY <2>1, <3>1, <3>2
  <2>3. Locked'
    BY <1>6, <2>2 DEF Locked
  <2>4. DiskTypes' /\ DiskOK'
    BY <1>1, <1>6, <2>2, DiskAside
  <2>5. CASE call.session = None
    <3>1. UNCHANGED sessions /\ UNCHANGED <<session, mislaid>>
      BY <1>1, <1>2, <1>6, <2>5 DEF sessions, processes
    <3>2. Types' /\ Named' /\ Sessions' /\ Shelled' /\ Found'
      BY <2>2, <3>1, Aside
    <3> QED
      BY <2>3, <2>4, <3>2 DEF IInv
  <2>6. CASE call.session # None
    <3>1. PICK o \in Objects : o = call.session
      BY <2>6, CallFacts
    <3>2. ~Running(o) /\ Discard(o)
      BY <1>1, <1>6, <2>6, <3>1, CallFacts DEF Locked
    <3>3. PICK s \in Shapes : Still(s) /\ object' = [object EXCEPT ![o] = s]
      BY <3>2, DiscardFacts
    <3>4. /\ drains' \in Seq(Counts) /\ Len(drains') = Len(drains)
          /\ \A p \in Processes : owner[p] # o => drains'[p] = drains[p]
      BY <3>2, DiscardFacts
    <3>5. Sessions' /\ Shelled'
      BY <1>1, <3>2, <3>3, <3>4, StillReplaced
    <3>6. Types' /\ Named'
      BY <1>1, <1>3, <1>6, <2>2, <3>3, <3>4, OneObject DEF Types, Named
    <3>7. Found'
      BY <1>1, <1>2, <3>1, <3>3, StillFound, CallFacts DEF Still
    <3> QED
      BY <2>3, <2>4, <3>5, <3>6, <3>7 DEF IInv
  <2> QED
    BY <2>5, <2>6
<1>7. \/ /\ call.op \in {"open", "restart"}
         /\ object' = [object EXCEPT ![call.session] = Starting(@)]
         /\ Wait(call.op, "spawn", call.session)
         /\ UNCHANGED <<session, drains>>
      \/ call.op = "clear" /\ Return /\ UNCHANGED <<session, object, drains>>
      \/ /\ session' = None
         /\ call.op \in {"close", "delete"}
         /\ IF call.op = "close" THEN Return ELSE Wait("delete", "remove", None)
         /\ IF call.session = None THEN UNCHANGED <<object, drains>>
            ELSE Discard(call.session)
  BY DEF Persisted, kills
<1> QED
  BY <1>4, <1>5, <1>6, <1>7

\* A spawn that fails leaves the session without a process.
LEMMA BySpawnFails ==
  ASSUME IInv, SpawnFails
  PROVE  IInv'
<1>1. /\ call.at = "spawn" /\ call # Idle /\ call' = Idle /\ call'.at = "idle"
      /\ object' = [object EXCEPT ![call.session] = Off(object[call.session], "error")]
      /\ UNCHANGED <<session, drains, condemned, owner, alive, reported, forgotten, mislaid>>
      /\ UNCHANGED disk
  BY CallFacts DEF SpawnFails, kills, Return, processes, history
<1>2. PICK o \in Objects : o = call.session
  BY <1>1, CallFacts DEF Locked
<1>3. ~Running(o) /\ object[o] \in Shapes
  BY <1>1, <1>2, CallFacts, SessionFacts DEF Locked
<1> DEFINE s == Off(object[o], "error")
<1>4. s \in Shapes /\ Still(s) /\ s.lines = object[o].lines
  BY <1>3, ShapeFacts
<1>5. s.process = None
  BY <1>4 DEF Still
<1>6. object' = [object EXCEPT ![o] = s]
  BY <1>1, <1>2
<1> HIDE DEF s
<1>7. Types /\ Named
  BY DEF IInv
<1>8. Sessions' /\ Shelled'
  BY <1>1, <1>3, <1>4, <1>6, StillReplaced
<1>9. Types' /\ Named'
  BY <1>1, <1>4, <1>6, <1>7, CallFacts, OneObject DEF Types, Named
<1>10. Found'
  BY <1>1, <1>4, <1>5, <1>6, StillFound
<1>11. Locked'
  BY <1>1, ReturnLocked
<1>12. object'[o] = s /\ session \in {None, o}
  BY <1>1, <1>2, <1>4, <1>6, <1>7, ObjectReplaced, CallFacts DEF Types, Locked
<1>13. DiskTypes' /\ DiskOK'
  BY <1>1, <1>4, <1>12, DiskAside
<1> QED
  BY <1>8, <1>9, <1>10, <1>11, <1>13 DEF IInv

\* A session is evicted; a call may be at work on it.
LEMMA ByEvict ==
  ASSUME IInv, Evict
  PROVE  IInv'
<1>1. /\ session # None /\ session' = None
      /\ UNCHANGED <<call, condemned, owner, alive, reported, forgotten>>
      /\ UNCHANGED disk
  BY DEF Evict, kills, processes
<1>2. PICK o \in Objects : o = session
  BY <1>1, CallFacts
<1>3. ~Running(o) /\ object[o] \in Shapes
  BY <1>2, SessionFacts DEF Evict, kills, Inactive, SessionOK
<1>4. Types /\ Named
  BY DEF IInv
<1>5. CASE /\ call.session = session /\ mislaid' = mislaid \cup {session}
           /\ UNCHANGED <<object, drains>>
  <2>1. Objects' = Objects /\ Processes' = Processes
    BY <1>1, <1>5 DEF Objects, Processes
  <2>2. Types'
    BY <1>1, <1>4, <1>5 DEF Types, None
  <2>3. Named'
    BY <1>1, <1>2, <1>4, <1>5, <2>1 DEF Named
  <2>4. Sessions'
    BY <1>1, <1>5, <2>1 DEF IInv, Sessions, SessionOK, Running, DrainsOf, ExitPending
  <2>5. Shelled'
    BY <1>1, <1>5, <2>1 DEF IInv, Shelled, ProcessOK
  <2>6. Found'
    BY <1>5, <2>1 DEF IInv, Found, Running
  <2>7. Locked'
    BY <1>1, <1>5, CallFacts DEF Locked, Running
  <2>8. DiskTypes' /\ DiskOK'
    <3>1. mislaid' # {}
      BY <1>5
    <3> QED
      BY <1>1, <3>1, CallFacts DEF DiskOK, DiskTypes, disk
  <2> QED
    BY <2>2, <2>3, <2>4, <2>5, <2>6, <2>7, <2>8 DEF IInv
<1>6. CASE call.session # session /\ Discard(session) /\ UNCHANGED mislaid
  <2>1. PICK s \in Shapes : Still(s) /\ object' = [object EXCEPT ![o] = s]
    BY <1>2, <1>6, DiscardFacts
  <2>2. /\ drains' \in Seq(Counts) /\ Len(drains') = Len(drains)
        /\ \A p \in Processes : owner[p] # o => drains'[p] = drains[p]
    BY <1>2, <1>6, DiscardFacts
  <2>3. Sessions' /\ Shelled'
    BY <1>1, <1>3, <2>1, <2>2, StillReplaced
  <2>4. Types' /\ Named'
    BY <1>1, <1>4, <1>6, <2>1, <2>2, CallFacts, OneObject DEF Types, Named
  <2>5. Found'
    BY <1>2, <1>6, <2>1, StillFound DEF Still
  <2>6. call = Idle
    BY <1>1, <1>6, CallFacts DEF Locked
  <2>7. Locked'
    BY <1>1, <2>6, ReturnLocked
  <2>8. DiskTypes' /\ DiskOK'
    BY <1>1, <1>6, DiskAside
  <2> QED
    BY <2>3, <2>4, <2>5, <2>7, <2>8 DEF IInv
<1> QED
  BY <1>5, <1>6 DEF Evict, kills

-----------------------------------------------------------------------------
(* Sessions and processes that are created                                 *)

\* A session is put in the map.
LEMMA SessionAdded ==
  ASSUME IInv, NEW lines \in Histories, PutSession(lines), session = None,
         UNCHANGED <<drains, condemned, owner, alive, reported, forgotten, mislaid>>,
         call' \in CallShapes, call'.session = Len(object) + 1
  PROVE  /\ Types' /\ Named' /\ Sessions' /\ Shelled' /\ Found'
         /\ session' = Len(object) + 1 /\ session' # None
         /\ ~Running(session)' /\ object'[session'].lines = lines
<1> DEFINE s == NewSession(lines)
<1>1. Types /\ Named /\ Sessions /\ Shelled /\ Found
  BY DEF IInv
<1>2. << >> \in Seq(Events)
  OBVIOUS
<1>3. s \in Shapes /\ Still(s) /\ s.lines = lines
  BY <1>2 DEF NewSession, Shapes, Still, Statuses, None
<1>4. s.process = None
  BY <1>3 DEF Still
<1>5. object' = Append(object, s) /\ session' = Len(object) + 1
  BY DEF PutSession
<1> HIDE DEF s
<1>6. object \in Seq(Shapes) /\ Len(object) \in Nat
  BY <1>1 DEF Types
<1>7. /\ object' \in Seq(Shapes) /\ Len(object') = Len(object) + 1
      /\ object'[Len(object) + 1] = s
      /\ \A o \in Objects : object'[o] = object[o]
  BY <1>3, <1>5, <1>6, AppendProperties DEF Objects
<1>8. /\ Objects' = Objects \cup {Len(object) + 1} /\ session' \in Objects'
      /\ session' # None /\ Processes' = Processes
  BY <1>1, <1>5, <1>6, <1>7 DEF Objects, Processes, None
<1>9. Types'
  BY <1>1, <1>5, <1>6, <1>7 DEF Types
<1>10. Named'
  BY <1>1, <1>5, <1>8 DEF Named
<1>11. Sessions'
  <2>1. ASSUME NEW o \in Objects
        PROVE  SessionOK(o)'
    <3>1. SessionOK(o) /\ object'[o] = object[o]
      BY <1>1, <1>7 DEF Sessions
    <3> QED
      BY <1>8, <3>1 DEF SessionOK, Running, DrainsOf, ExitPending
  <2>2. ASSUME NEW o, o = Len(object) + 1
        PROVE  SessionOK(o)'
    <3>1. Still(object[o])'
      BY <1>3, <1>7, <2>2 DEF Still
    <3>2. reported' \subseteq Processes'
      BY <1>10 DEF Named
    <3> QED
      BY <3>1, <3>2, StillOK
  <2> QED
    BY <1>8, <2>1, <2>2 DEF Sessions
<1>12. Shelled'
  <2> SUFFICES ASSUME NEW p \in Processes
               PROVE  ProcessOK(p)'
    BY <1>8 DEF Shelled
  <2>1. ProcessOK(p)
    BY <1>1 DEF Shelled
  <2>2. owner[p] \in Objects /\ owner[p] \in Objects' /\ object'[owner[p]] = object[owner[p]]
    BY <1>7, <1>8, <2>1 DEF ProcessOK
  <2> QED
    BY <2>1, <2>2 DEF ProcessOK
<1>13. Found'
  <2> SUFFICES ASSUME NEW o \in Objects', Running(o)'
               PROVE  o \in mislaid
    BY DEF Found
  <2>1. o \in Objects /\ Running(o)
    BY <1>4, <1>7, <1>8 DEF Running
  <2> QED
    BY <1>1, <2>1, CallFacts DEF Found
<1>14. ~Running(session)' /\ object'[session'].lines = lines
  BY <1>3, <1>4, <1>5, <1>7 DEF Running
<1> QED
  BY <1>5, <1>8, <1>9, <1>10, <1>11, <1>12, <1>13, <1>14

\* A call that has put its session in the map.
LEMMA AddedCall ==
  ASSUME IInv, NEW op \in {"open", "restart"}, NEW at \in {"persist", "spawn"},
         call' = [op |-> op, at |-> at, session |-> Len(object) + 1]
  PROVE  /\ call' \in CallShapes /\ call'.session = Len(object) + 1
         /\ call'.at = at /\ call'.op = op /\ call' # Idle
<1>1. object \in Seq(Shapes)
  BY DEF IInv, Types
<1>2. Len(object) + 1 \in Nat
  BY <1>1
<1> QED
  BY <1>2 DEF CallShapes, Idle

\* openNew, once it has read the history.
LEMMA ByReadHistory ==
  ASSUME IInv, ReadHistory
  PROVE  IInv'
<1>1. call.at = "read" /\ call # Idle
  BY CallFacts DEF ReadHistory, kills
<1>2. session = None
  BY <1>1, CallFacts DEF Locked
<1>3. file \in Histories /\ CapHistory(file) = file
  BY CallFacts, LimitsAssumption DEF DiskTypes, Histories, CapHistory
<1>4. /\ PutSession(file)
      /\ call' = [op |-> "open", at |-> "spawn", session |-> Len(object) + 1]
      /\ UNCHANGED <<drains, condemned, owner, alive, reported, forgotten, mislaid>>
      /\ UNCHANGED <<queued, writing, file, unsaved>>
  BY <1>3 DEF ReadHistory, kills, Wait, processes, disk, history
<1>5. /\ call' \in CallShapes /\ call'.session = Len(object) + 1
      /\ call'.at = "spawn" /\ call'.op = "open" /\ call' # Idle
  BY <1>4, AddedCall
<1>6. /\ Types' /\ Named' /\ Sessions' /\ Shelled' /\ Found'
      /\ session' = Len(object) + 1 /\ session' # None
      /\ ~Running(session)' /\ object'[session'].lines = file
  BY <1>2, <1>3, <1>4, <1>5, SessionAdded
<1>7. Locked'
  BY <1>5, <1>6 DEF Locked, Running
<1>8. DiskTypes'
  BY <1>4, CallFacts DEF DiskTypes
<1>9. DiskOK'
  <2> SUFFICES ASSUME mislaid = {}
               PROVE  Latest' = file
    BY <1>4, <1>5, <1>6 DEF DiskOK
  <2>1. Drained
    BY <1>1, CallFacts DEF DiskOK
  <2> QED
    BY <1>4, <2>1 DEF Drained, Latest
<1> QED
  BY <1>6, <1>7, <1>8, <1>9 DEF IInv

\* restart of a terminal that has no session.
LEMMA ByRestartNew ==
  ASSUME IInv, RestartNew
  PROVE  IInv'
<1>1. 0 \in Histories
  BY LimitsAssumption DEF Histories
<1>2. /\ session = None /\ PutSession(0) /\ queued' = 0
      /\ call' = [op |-> "restart", at |-> "persist", session |-> Len(object) + 1]
      /\ UNCHANGED <<drains, condemned, owner, alive, reported, forgotten, mislaid>>
      /\ UNCHANGED <<writing, file, unsaved>>
  BY DEF RestartNew, kills, Wait, processes, history
<1>3. /\ call' \in CallShapes /\ call'.session = Len(object) + 1
      /\ call'.at = "persist" /\ call'.op = "restart" /\ call' # Idle
  BY <1>2, AddedCall
<1>4. /\ Types' /\ Named' /\ Sessions' /\ Shelled' /\ Found'
      /\ session' = Len(object) + 1 /\ session' # None
      /\ ~Running(session)' /\ object'[session'].lines = 0
  BY <1>1, <1>2, <1>3, SessionAdded
<1>5. Locked'
  BY <1>3, <1>4 DEF Locked, Running
<1>6. DiskTypes' /\ DiskOK'
  BY <1>1, <1>2, <1>3, <1>4, DiskQueued
<1> QED
  BY <1>4, <1>5, <1>6 DEF IInv

\* A shell is spawned for the session that starts.
LEMMA BySpawn ==
  ASSUME IInv, Spawn
  PROVE  IInv'
<1> DEFINE p == Len(owner) + 1
<1>1. /\ call.at = "spawn" /\ call # Idle /\ call' = Idle /\ call'.at = "idle"
      /\ alive' = alive \cup {p} /\ owner' = Append(owner, call.session)
      /\ drains' = Append(drains, NoDrains)
      /\ UNCHANGED <<session, condemned, reported, forgotten, mislaid>>
      /\ UNCHANGED disk
  BY CallFacts DEF Spawn, kills, Return, history
<1>2. PICK o \in Objects : o = call.session
  BY <1>1, CallFacts DEF Locked
<1>3. /\ ~Running(o) /\ object[o] \in Shapes /\ Still(object[o])
      /\ session \in {None, o}
      /\ session = None => o \in mislaid
  BY <1>1, <1>2, CallFacts, SessionFacts, IsStill DEF Locked
<1>4. Types /\ Named /\ Shelled /\ Found
  BY DEF IInv
<1>5. p \in Nat /\ p # None /\ p \notin Processes
  BY <1>4 DEF Types, None, Processes
<1> DEFINE s == [object[o] EXCEPT !.process = p, !.status = "running"]
<1>6. object' = [object EXCEPT ![o].process = p, ![o].status = "running"]
  BY <1>2 DEF Spawn, kills
<1>7. object' = [object EXCEPT ![o] = s]
  BY <1>6
<1>8. /\ s \in Shapes /\ s.process = p /\ s.status = "running"
      /\ s.lines = object[o].lines /\ s.pending = << >> /\ s.draining = FALSE
  BY <1>3, <1>5 DEF Shapes, Statuses, Still
<1> HIDE DEF s
<1>9. /\ object' \in Seq(Shapes) /\ Objects' = Objects /\ object'[o] = s
      /\ \A q \in Objects : q # o => object'[q] = object[q]
  BY <1>4, <1>7, <1>8, ObjectReplaced DEF Types
<1>10. NoDrains \in Counts /\ o \in Nat
  BY DEF NoDrains, Counts, Objects
<1>11. /\ owner' \in Seq(Nat) /\ Len(owner') = p /\ owner'[p] = o
       /\ \A q \in Processes : owner'[q] = owner[q]
  BY <1>1, <1>2, <1>4, <1>10, AppendProperties DEF Types, Processes
<1>12. /\ drains' \in Seq(Counts) /\ Len(drains') = p
       /\ \A q \in Processes : drains'[q] = drains[q]
  BY <1>1, <1>4, <1>10, AppendProperties DEF Types, Named, Processes
<1>13. Processes' = Processes \cup {p} /\ Processes \subseteq Processes'
  BY <1>4, <1>11 DEF Processes, Types
<1> HIDE DEF p
<1>14. Types'
  BY <1>1, <1>4, <1>9, <1>11, <1>12, CallFacts DEF Types
<1>15. Named'
  BY <1>1, <1>4, <1>9, <1>11, <1>12, <1>13, CallFacts DEF Named
<1>16. p \notin reported /\ p \notin condemned /\ p \notin forgotten
  BY <1>4, <1>5 DEF Named
<1>17. SessionOK(o)'
  <2>1. ~ExitPending(object[o])' /\ Running(o)'
    BY <1>5, <1>8, <1>9 DEF ExitPending, Running
  <2> QED
    BY <1>1, <1>8, <1>9, <1>11, <1>13, <1>16, <2>1 DEF SessionOK
<1>18. ASSUME NEW q \in Processes'
       PROVE  q \notin Processes \/ owner[q] = o => ProcessOK(q)'
  <2>1. CASE q = p
    BY <1>1, <1>8, <1>9, <1>11, <1>16, <2>1 DEF ProcessOK
  <2>2. CASE q # p /\ owner[q] = o
    <3>1. q \in Processes /\ q # object[o].process
      BY <1>3, <1>13, <2>2 DEF Still, Processes, None
    <3>2. (q \in alive <=> q \in condemned) /\ q \notin reported /\ q \notin forgotten
      BY <2>2, <3>1, SessionFacts
    <3> QED
      BY <1>1, <1>9, <1>11, <2>2, <3>1, <3>2 DEF ProcessOK
  <2> QED
    BY <1>13, <2>1, <2>2
<1>19. ASSUME NEW q \in Processes, owner[q] # o
       PROVE  Same(q)
  <2>1. q # p /\ owner'[q] = owner[q] /\ drains'[q] = drains[q]
    BY <1>5, <1>11, <1>12
  <2>2. q \in alive <=> q \in alive'
    BY <1>1, <2>1
  <2> QED
    BY <1>1, <2>1, <2>2 DEF Same
<1>20. Sessions' /\ Shelled'
  <2>1. reported' \subseteq Processes'
    BY <1>15 DEF Named
  <2> QED
    BY <1>7, <1>8, <1>13, <1>17, <1>18, <1>19, <2>1, OneSession
<1>21. Found'
  <2> SUFFICES ASSUME NEW q \in Objects, Running(q)'
               PROVE  q = session \/ q \in mislaid
    <3>1. Objects' = Objects /\ session' = session /\ mislaid' = mislaid
      BY <1>1, <1>9
    <3> QED
      BY <3>1 DEF Found
  <2>1. CASE q = o
    BY <1>3, <2>1
  <2>2. CASE q # o
    BY <1>4, <1>9, <2>2 DEF Found, Running
  <2> QED
    BY <2>1, <2>2
<1>22. Locked'
  BY <1>1, ReturnLocked
<1>23. DiskTypes' /\ DiskOK'
  <2>1. call'.at # "read" /\ mislaid' = mislaid /\ session' = session
    BY <1>1
  <2>2. session # None => object'[session].lines = object[session].lines
    BY <1>3, <1>8, <1>9
  <2>3. mislaid \subseteq mislaid' /\ UNCHANGED disk
    BY <1>1
  <2> QED
    BY <2>1, <2>2, <2>3, DiskAside
<1> QED
  BY <1>14, <1>15, <1>20, <1>21, <1>22, <1>23 DEF IInv

-----------------------------------------------------------------------------
(* Shells, and the drains of their events                                  *)

\* A step of a shell or of a drain: neither the call nor the map changes, and no
\* session gets a process.
LEMMA ShellStep ==
  ASSUME IInv, NEW o \in Objects, NEW s \in Shapes,
         object' = [object EXCEPT ![o] = s], s.process # None => Running(o),
         UNCHANGED <<session, call, owner, mislaid>>,
         drains' \in Seq(Counts), Len(drains') = Len(drains),
         alive' \subseteq Processes, condemned' \subseteq Processes,
         reported' \subseteq Processes, forgotten' \subseteq Processes
  PROVE  Types' /\ Named' /\ Found' /\ Locked'
<1>1. Types /\ Named /\ Locked
  BY DEF IInv
<1>2. Types' /\ Named'
  BY <1>1, OneObject DEF Types, Named
<1>3. Found'
  BY StillFound
<1>4. /\ object'[o] = s
      /\ \A q \in Objects : q # o => object'[q] = object[q]
  BY <1>1, ObjectReplaced DEF Types
<1>5. \A q \in Objects : Running(q)' => Running(q)
  BY <1>4 DEF Running
<1>6. call.session # None /\ ~Running(call.session) => ~Running(call.session)'
  <2> SUFFICES ASSUME call.session # None
               PROVE  ~Running(call.session) => ~Running(call.session)'
    OBVIOUS
  <2>1. PICK q \in Objects : q = call.session
    BY CallFacts
  <2>2. Running(call.session)' => Running(q)'
    BY <2>1 DEF Running
  <2> QED
    BY <1>5, <2>1, <2>2
<1>7. UNCHANGED <<session, call, mislaid>>
  OBVIOUS
<1>8. Locked'
  BY <1>1, <1>6, <1>7 DEF Locked
<1> QED
  BY <1>2, <1>3, <1>8

\* The drains of one process change.
LEMMA DrainsReplaced ==
  ASSUME IInv, NEW p \in Processes, NEW d \in Counts, drains' = [drains EXCEPT ![p] = d]
  PROVE  /\ drains' \in Seq(Counts) /\ Len(drains') = Len(drains)
         /\ DrainsOf(p)' = d.start + d.publish
         /\ \A q \in Processes : q # p => drains'[q] = drains[q]
<1>1. drains \in Seq(Counts) /\ Processes = 1 .. Len(drains)
  BY DEF IInv, Types, Named, Processes
<1>2. /\ drains' \in Seq(Counts) /\ Len(drains') = Len(drains) /\ drains'[p] = d
      /\ \A q \in Processes : q # p => drains'[q] = drains[q]
  BY <1>1
<1> QED
  BY <1>2 DEF DrainsOf

\* A drain that is under way goes on from where it waits.
LEMMA LeavesFacts ==
  ASSUME IInv, NEW p \in Processes, NEW at \in Points, drains[p][at] > 0
  PROVE  /\ DrainsOf(p) > 0
         /\ \E d \in Counts : Leaves(p, at) = [drains EXCEPT ![p] = d]
         /\ \E d \in Counts :
              /\ [Leaves(p, at) EXCEPT ![p].publish = @ + 1] = [drains EXCEPT ![p] = d]
              /\ d.start + d.publish > 0
<1>1. drains \in Seq(Counts) /\ Processes = 1 .. Len(drains)
  BY DEF IInv, Types, Named, Processes
<1>2. /\ drains[p] \in Counts
      /\ drains[p].start \in Nat /\ drains[p].publish \in Nat
  <2>1. drains[p] \in Counts
    BY <1>1
  <2> QED
    BY <2>1 DEF Counts
<1>3. CASE at = "start"
  <2> DEFINE d == [drains[p] EXCEPT !.start = @ - 1]
  <2>1. d \in Counts /\ d.publish = drains[p].publish /\ drains[p].start > 0
    BY <1>2, <1>3 DEF Counts
  <2>2. Leaves(p, at) = [drains EXCEPT ![p] = d]
    BY <1>1, <1>3 DEF Leaves
  <2> HIDE DEF d
  <2> DEFINE e == [d EXCEPT !.publish = @ + 1]
  <2>3. e \in Counts /\ e.start + e.publish > 0
    BY <1>2, <2>1 DEF Counts
  <2>4. [Leaves(p, at) EXCEPT ![p].publish = @ + 1] = [drains EXCEPT ![p] = e]
    BY <1>1, <2>2
  <2>5. DrainsOf(p) > 0
    BY <1>2, <2>1 DEF DrainsOf
  <2> HIDE DEF e
  <2> QED
    BY <2>1, <2>2, <2>3, <2>4, <2>5
<1>4. CASE at = "publish"
  <2> DEFINE d == [drains[p] EXCEPT !.publish = @ - 1]
  <2>1. d \in Counts /\ d.start = drains[p].start /\ drains[p].publish > 0
    BY <1>2, <1>4 DEF Counts
  <2>2. Leaves(p, at) = [drains EXCEPT ![p] = d]
    BY <1>1, <1>4 DEF Leaves
  <2> HIDE DEF d
  <2> DEFINE e == [d EXCEPT !.publish = @ + 1]
  <2>3. e \in Counts /\ e.start + e.publish > 0
    BY <1>2, <2>1 DEF Counts
  <2>4. [Leaves(p, at) EXCEPT ![p].publish = @ + 1] = [drains EXCEPT ![p] = e]
    BY <1>1, <2>2
  <2>5. DrainsOf(p) > 0
    BY <1>2, <2>1 DEF DrainsOf
  <2> HIDE DEF e
  <2> QED
    BY <2>1, <2>2, <2>3, <2>4, <2>5
<1> QED
  BY <1>3, <1>4 DEF Points

\* The session of a process.
LEMMA OwnerFacts ==
  ASSUME IInv, NEW p \in Processes
  PROVE  /\ owner[p] \in Objects /\ object[owner[p]] \in Shapes
         /\ SessionOK(owner[p]) /\ ProcessOK(p)
         /\ \A q \in Processes : owner[q] # owner[p] => q # p
         /\ Current(p) => Running(owner[p]) /\ object[owner[p]].process = p
<1>1. ProcessOK(p) /\ owner[p] \in Objects
  BY DEF IInv, Shelled, ProcessOK
<1>2. object[owner[p]] \in Shapes /\ SessionOK(owner[p])
  BY <1>1, SessionFacts
<1>3. Current(p) => Running(owner[p]) /\ object[owner[p]].process = p
  BY DEF Current, Running, Processes, None
<1> QED
  BY <1>1, <1>2, <1>3

\* An event of a process that is its session's is pending, and drained.
LEMMA EnqueueFacts ==
  ASSUME IInv, NEW p \in Processes, NEW o \in Objects, o = owner[p],
         NEW event \in Events, Enqueue(p, event)
  PROVE  /\ Running(o) /\ object[o].process = p
         /\ drains' \in Seq(Counts) /\ Len(drains') = Len(drains)
         /\ DrainsOf(p)' > 0
         /\ \A q \in Processes : owner[q] # o => drains'[q] = drains[q]
         /\ \E s \in Shapes :
              /\ object' = [object EXCEPT ![o] = s]
              /\ s.process = p /\ s.status = object[o].status
              /\ s.lines = object[o].lines
              /\ s.pending # << >> /\ s.draining
              /\ ExitPending(s) <=> event = "exit" \/ ExitPending(object[o])
<1>1. /\ Running(o) /\ object[o].process = p /\ object[o] \in Shapes /\ SessionOK(o)
      /\ \A q \in Processes : owner[q] # o => q # p
  BY OwnerFacts DEF Enqueue
<1> DEFINE s == [object[o] EXCEPT !.pending = Append(@, event), !.draining = TRUE]
<1>2. /\ object[o].pending \in Seq(Events)
      /\ Append(object[o].pending, event) \in Seq(Events)
      /\ Append(object[o].pending, event) # << >>
  BY <1>1 DEF Shapes
<1>3. /\ s \in Shapes /\ s.process = p /\ s.status = object[o].status
      /\ s.lines = object[o].lines /\ s.draining
      /\ s.pending = Append(object[o].pending, event)
  BY <1>1, <1>2 DEF Shapes
<1>4. object' = [object EXCEPT ![o] = s]
  BY DEF Enqueue
<1> HIDE DEF s
<1>5. ExitPending(s) <=> event = "exit" \/ ExitPending(object[o])
  <2> DEFINE pending == object[o].pending
  <2>1. pending \in Seq(Events)
    BY <1>2
  <2> HIDE DEF pending
  <2>2. (\E i \in DOMAIN Append(pending, event) : Append(pending, event)[i] = "exit")
          <=> event = "exit" \/ \E i \in DOMAIN pending : pending[i] = "exit"
    <3>1. /\ DOMAIN Append(pending, event) = 1 .. Len(pending) + 1
          /\ DOMAIN pending = 1 .. Len(pending) /\ Len(pending) \in Nat
          /\ Append(pending, event)[Len(pending) + 1] = event
          /\ \A i \in 1 .. Len(pending) : Append(pending, event)[i] = pending[i]
      BY <2>1, AppendProperties
    <3>2. DOMAIN Append(pending, event) = DOMAIN pending \cup {Len(pending) + 1}
      BY <3>1
    <3> QED
      BY <3>1, <3>2
  <2> QED
    BY <1>3, <2>2 DEF ExitPending, pending
<1>6. /\ drains' \in Seq(Counts) /\ Len(drains') = Len(drains) /\ DrainsOf(p)' > 0
      /\ \A q \in Processes : owner[q] # o => drains'[q] = drains[q]
  <2>1. CASE object[o].draining
    <3>1. drains' = drains
      BY <2>1 DEF Enqueue
    <3>2. DrainsOf(p) > 0 /\ DrainsOf(p)' = DrainsOf(p)
      BY <1>1, <2>1, <3>1 DEF SessionOK, DrainsOf
    <3> QED
      BY <3>1, <3>2 DEF IInv, Types
  <2>2. CASE ~object[o].draining
    <3>1. drains \in Seq(Counts) /\ Processes = 1 .. Len(drains)
      BY DEF IInv, Types, Named, Processes
    <3>2. drains[p] \in Counts
      BY <3>1
    <3> DEFINE d == [drains[p] EXCEPT !.start = @ + 1]
    <3>3. drains' = [drains EXCEPT ![p] = d]
      BY <2>2 DEF Enqueue
    <3>4. d \in Counts /\ d.start + d.publish > 0
      BY <3>2 DEF Counts
    <3> HIDE DEF d
    <3> QED
      BY <1>1, <3>3, <3>4, DrainsReplaced
  <2> QED
    BY <2>1, <2>2
<1> QED
  BY <1>1, <1>2, <1>3, <1>4, <1>5, <1>6

\* Output of a shell.
LEMMA ByOutput ==
  ASSUME IInv, NEW p \in Processes, Output(p)
  PROVE  IInv'
<1>1. PICK o \in Objects : o = owner[p]
  BY OwnerFacts
<1>2. /\ p \in alive /\ Enqueue(p, "output")
      /\ UNCHANGED <<session, call, condemned, owner, alive, reported, forgotten, mislaid>>
      /\ UNCHANGED disk
  BY DEF Output, kills, processes, history
<1>3. /\ Running(o) /\ object[o].process = p
      /\ drains' \in Seq(Counts) /\ Len(drains') = Len(drains)
      /\ DrainsOf(p)' > 0
      /\ \A q \in Processes : owner[q] # o => drains'[q] = drains[q]
  BY <1>1, <1>2, EnqueueFacts DEF Events
<1>4. PICK s \in Shapes :
        /\ object' = [object EXCEPT ![o] = s]
        /\ s.process = p /\ s.status = object[o].status
        /\ s.lines = object[o].lines
        /\ s.pending # << >> /\ s.draining
        /\ ExitPending(s) <=> ExitPending(object[o])
  BY <1>1, <1>2, EnqueueFacts DEF Events
<1>5. SessionOK(o) /\ Types /\ Named /\ forgotten \subseteq reported
  BY SessionFacts, ThrownAway DEF IInv
<1>6. Sessions' /\ Shelled'
  <2>1. \A q \in Processes : owner[q] # o =>
          /\ drains'[q] = drains[q]
          /\ (q \in reported') = (q \in reported)
          /\ (q \in forgotten') = (q \in forgotten)
    BY <1>2, <1>3
  <2>2. /\ reported' \subseteq Processes /\ forgotten' \subseteq reported'
        /\ \A q \in reported' : q \in reported
    BY <1>2, <1>5 DEF Named
  <2>3. /\ s.process # None /\ DrainsOf(s.process)' > 0
    BY <1>3, <1>4 DEF Running, DrainsOf
  <2>4. /\ ExitPending(s) => s.process \in reported'
        /\ s.process \in reported' => ExitPending(s) \/ s.process \in forgotten'
    BY <1>2, <1>3, <1>4, <1>5 DEF SessionOK
  <2>5. /\ s.process = object[o].process /\ s.status = object[o].status
        /\ s.pending # << >> /\ s.draining
        /\ object' = [object EXCEPT ![o] = s]
    BY <1>3, <1>4
  <2>6. UNCHANGED <<owner, alive, condemned>>
    BY <1>2
  <2> QED
    BY <2>1, <2>2, <2>3, <2>4, <2>5, <2>6, HeldOn
<1>7. Types' /\ Named' /\ Found' /\ Locked'
  BY <1>2, <1>3, <1>4, <1>5, ShellStep DEF Named
<1>8. DiskTypes' /\ DiskOK'
  <2>1. \A q \in Objects : object'[q].lines = object[q].lines
    BY <1>4, <1>5, ObjectReplaced DEF Types
  <2> QED
    BY <1>2, <2>1, CallFacts, DiskAside
<1> QED
  BY <1>6, <1>7, <1>8 DEF IInv

\* The exit of a shell.
LEMMA ByExits ==
  ASSUME IInv, NEW p \in Processes, Exits(p)
  PROVE  IInv'
<1>1. PICK o \in Objects : o = owner[p]
  BY OwnerFacts
<1>2. /\ p \notin alive /\ Enqueue(p, "exit") /\ reported' = reported \cup {p}
      /\ UNCHANGED <<session, call, condemned, owner, alive, forgotten, mislaid>>
      /\ UNCHANGED disk
  BY DEF Exits, kills, history
<1>3. /\ Running(o) /\ object[o].process = p
      /\ drains' \in Seq(Counts) /\ Len(drains') = Len(drains)
      /\ DrainsOf(p)' > 0
      /\ \A q \in Processes : owner[q] # o => drains'[q] = drains[q]
  BY <1>1, <1>2, EnqueueFacts DEF Events
<1>4. PICK s \in Shapes :
        /\ object' = [object EXCEPT ![o] = s]
        /\ s.process = p /\ s.status = object[o].status
        /\ s.lines = object[o].lines
        /\ s.pending # << >> /\ s.draining
        /\ ExitPending(s)
  BY <1>1, <1>2, EnqueueFacts DEF Events
<1>5. SessionOK(o) /\ Types /\ Named /\ forgotten \subseteq reported
  BY SessionFacts, ThrownAway DEF IInv
<1>6. reported' \subseteq Processes /\ forgotten' \subseteq reported'
  BY <1>2, <1>5 DEF Named
<1>7. Sessions' /\ Shelled'
  <2>1. \A q \in Processes : owner[q] # o =>
          /\ drains'[q] = drains[q]
          /\ (q \in reported') = (q \in reported)
          /\ (q \in forgotten') = (q \in forgotten)
    BY <1>1, <1>2, <1>3
  <2>2. \A q \in reported' : q \in reported \/ (q = s.process /\ q \notin alive)
    BY <1>2, <1>4
  <2>3. /\ s.process # None /\ DrainsOf(s.process)' > 0
    BY <1>3, <1>4 DEF Running, DrainsOf
  <2>4. s.process \in reported'
    BY <1>2, <1>4
  <2>5. /\ s.process = object[o].process /\ s.status = object[o].status
        /\ s.pending # << >> /\ s.draining /\ ExitPending(s)
        /\ object' = [object EXCEPT ![o] = s]
    BY <1>3, <1>4
  <2>6. UNCHANGED <<owner, alive, condemned>>
    BY <1>2
  <2> QED
    BY <1>6, <2>1, <2>2, <2>3, <2>4, <2>5, <2>6, HeldOn
<1>8. Types' /\ Named' /\ Found' /\ Locked'
  BY <1>2, <1>3, <1>4, <1>5, <1>6, ShellStep DEF Named
<1>9. DiskTypes' /\ DiskOK'
  <2>1. \A q \in Objects : object'[q].lines = object[q].lines
    BY <1>4, <1>5, ObjectReplaced DEF Types
  <2> QED
    BY <1>2, <2>1, CallFacts, DiskAside
<1> QED
  BY <1>7, <1>8, <1>9 DEF IInv

\* A shell ends, by itself or killed.
LEMMA ByDeath ==
  ASSUME IInv, NEW p \in Processes,
         alive' = alive \ {p}, condemned' = condemned \ {p},
         UNCHANGED <<session, object, call, drains, owner, reported, disk, history>>
  PROVE  IInv'
<1>1. /\ UNCHANGED <<session, object, call, drains, owner, reported, forgotten, mislaid>>
      /\ UNCHANGED <<queued, writing, file, unsaved>>
  BY DEF disk, history
<1>2. Objects' = Objects /\ Processes' = Processes
  BY <1>1 DEF Objects, Processes
<1>3. Types'
  BY <1>1 DEF IInv, Types
<1>4. DiskTypes'
  BY <1>1 DEF IInv, DiskTypes
<1>5. Named'
  BY <1>1, <1>2 DEF IInv, Named
<1>6. Sessions'
  BY <1>1, <1>2 DEF IInv, Sessions, SessionOK, Running, DrainsOf, ExitPending
<1>7. Shelled'
  <2> SUFFICES ASSUME NEW q \in Processes
               PROVE  ProcessOK(q)'
    BY <1>2 DEF Shelled
  <2>1. ProcessOK(q)
    BY DEF IInv, Shelled
  <2> QED
    BY <1>1, <1>2, <2>1 DEF ProcessOK
<1>8. Found'
  BY <1>1, <1>2 DEF IInv, Found, Running
<1>9. Locked'
  BY <1>1 DEF IInv, Locked, Running
<1>10. DiskOK'
  BY <1>1 DEF IInv, DiskOK, Drained, Latest
<1> QED
  BY <1>3, <1>4, <1>5, <1>6, <1>7, <1>8, <1>9, <1>10 DEF IInv

\* The first step of a drain, or its next one, finds nothing to do.
LEMMA ByDrainStops ==
  ASSUME IInv, NEW p \in Processes, NEW at \in Points, drains[p][at] > 0,
         DrainStops(p, at),
         UNCHANGED <<session, call, condemned, owner, alive, writing, file, unsaved, mislaid>>
  PROVE  IInv'
<1>1. PICK o \in Objects : o = owner[p]
  BY OwnerFacts
<1> DEFINE s == Emptied(object[o])
<1>2. object[o] \in Shapes /\ Types /\ Named
  BY SessionFacts DEF IInv
<1>3. /\ s \in Shapes /\ s.process = object[o].process
      /\ s.status = object[o].status /\ s.lines = object[o].lines
      /\ s.pending = << >> /\ s.draining = FALSE
  BY <1>2, ShapeFacts
<1>4. object' = [object EXCEPT ![o] = s]
  BY <1>1 DEF DrainStops
<1> HIDE DEF s
<1>5. /\ forgotten' = forgotten \cup Dropped(object[o])
      /\ UNCHANGED <<queued, reported>> /\ drains' = Leaves(p, at)
  BY <1>1 DEF DrainStops
<1>6. PICK d \in Counts : drains' = [drains EXCEPT ![p] = d]
  <2>1. \E d \in Counts : Leaves(p, at) = [drains EXCEPT ![p] = d]
    BY LeavesFacts
  <2> QED
    BY <1>5, <2>1
<1>7. /\ drains' \in Seq(Counts) /\ Len(drains') = Len(drains)
      /\ \A q \in Processes : owner[q] # o => drains'[q] = drains[q]
  BY <1>1, <1>6, DrainsReplaced
<1>8. forgotten' \subseteq reported' /\ reported' \subseteq Processes
  BY <1>2, <1>5, ThrownAway DEF Named
<1>9. Sessions' /\ Shelled'
  <2>1. \A q \in Processes : owner[q] # o =>
          /\ drains'[q] = drains[q]
          /\ (q \in reported') = (q \in reported)
          /\ (q \in forgotten') = (q \in forgotten)
    BY <1>5, <1>7, ThrownAway
  <2>2. s.process \in reported' => s.process \in forgotten'
    BY <1>3, <1>5, ThrownAway
  <2>3. ~ExitPending(s)
    BY <1>3 DEF ExitPending
  <2>4. \A q \in reported' : q \in reported
    BY <1>5
  <2> QED
    BY <1>3, <1>4, <1>8, <2>1, <2>2, <2>3, <2>4, HeldOn
<1>10. Types' /\ Named' /\ Found' /\ Locked'
  <2>1. alive' \subseteq Processes /\ condemned' \subseteq Processes
    BY <1>2 DEF Named
  <2>2. reported' \subseteq Processes /\ forgotten' \subseteq Processes
    BY <1>8
  <2>3. s.process # None => Running(o)
    BY <1>3 DEF Running
  <2> QED
    BY <1>3, <1>4, <1>7, <2>1, <2>2, <2>3, ShellStep
<1>11. DiskTypes' /\ DiskOK'
  <2>1. \A q \in Objects : object'[q].lines = object[q].lines
    BY <1>2, <1>3, <1>4, ObjectReplaced DEF Types
  <2>2. UNCHANGED disk
    BY <1>5 DEF disk
  <2> QED
    BY <2>1, <2>2, CallFacts, DiskAside
<1> QED
  BY <1>9, <1>10, <1>11 DEF IInv

\* A drain adds an output to the history.
LEMMA ByDrainOutput ==
  ASSUME IInv, NEW p \in Processes, NEW at \in Points, drains[p][at] > 0,
         DrainOutput(p, at),
         UNCHANGED <<session, call, condemned, owner, alive, writing, file, unsaved, mislaid>>
  PROVE  IInv'
<1>1. PICK o \in Objects : o = owner[p]
  BY OwnerFacts
<1>2. /\ object[o] \in Shapes /\ Types /\ Named /\ SessionOK(o)
      /\ forgotten \subseteq reported
  BY SessionFacts, ThrownAway DEF IInv
<1>3. Running(o) /\ object[o].process = p
  BY <1>1, OwnerFacts DEF DrainOutput, Stale
<1> DEFINE lines == CapHistory(object[o].lines + 1)
           pending == object[o].pending
           next == [object[o] EXCEPT !.pending = Tail(pending), !.lines = lines]
<1>4. lines \in Histories
  BY <1>2, LimitsAssumption DEF Shapes, Histories, CapHistory
<1>5. /\ pending \in Seq(Events) /\ pending # << >> /\ Head(pending) = "output"
      /\ Tail(pending) \in Seq(Events)
  <2>1. pending \in Seq(Events) /\ pending # << >> /\ Head(pending) = "output"
    BY <1>1, <1>2 DEF DrainOutput, Shapes
  <2> QED
    BY <2>1, HeadTailProperties
<1>6. /\ object' = [object EXCEPT ![o] = next] /\ queued' = lines
      /\ UNCHANGED <<reported, forgotten>>
      /\ drains' = [Leaves(p, at) EXCEPT ![p].publish = @ + 1]
  BY <1>1 DEF DrainOutput
<1> HIDE DEF lines, pending
<1>7. PICK s \in Shapes :
        /\ object' = [object EXCEPT ![o] = s]
        /\ s.process = p /\ s.status = object[o].status /\ s.lines = lines
        /\ s.pending = Tail(pending) /\ s.draining = object[o].draining
  <2>1. /\ next \in Shapes /\ next.process = p /\ next.status = object[o].status
        /\ next.lines = lines /\ next.pending = Tail(pending)
        /\ next.draining = object[o].draining
    BY <1>2, <1>3, <1>4, <1>5 DEF Shapes
  <2> HIDE DEF next
  <2> QED
    BY <1>6, <2>1
<1> HIDE DEF next
<1>8. ExitPending(s) <=> ExitPending(object[o])
  <2>1. /\ Len(pending) \in Nat /\ Len(Tail(pending)) = Len(pending) - 1
        /\ \A i \in 1 .. Len(Tail(pending)) : Tail(pending)[i] = pending[i + 1]
        /\ pending[1] = "output"
    BY <1>5, HeadTailProperties
  <2>2. DOMAIN pending = 1 .. Len(pending) /\ DOMAIN Tail(pending) = 1 .. Len(pending) - 1
    BY <1>5, <2>1
  <2>3. ASSUME NEW i \in DOMAIN pending, pending[i] = "exit"
        PROVE  \E j \in DOMAIN Tail(pending) : Tail(pending)[j] = "exit"
    <3>1. i # 1 /\ i - 1 \in 1 .. Len(pending) - 1
      BY <2>1, <2>2, <2>3
    <3>2. Tail(pending)[i - 1] = pending[i]
      BY <2>1, <3>1
    <3> QED
      BY <2>2, <2>3, <3>1, <3>2
  <2>4. ASSUME NEW j \in DOMAIN Tail(pending), Tail(pending)[j] = "exit"
        PROVE  \E i \in DOMAIN pending : pending[i] = "exit"
    <3>1. j + 1 \in DOMAIN pending /\ pending[j + 1] = "exit"
      BY <2>1, <2>2, <2>4
    <3> QED
      BY <3>1
  <2> QED
    BY <1>7, <2>3, <2>4 DEF ExitPending, pending
<1>9. PICK d \in Counts :
        drains' = [drains EXCEPT ![p] = d] /\ d.start + d.publish > 0
  BY <1>6, LeavesFacts
<1>10. /\ drains' \in Seq(Counts) /\ Len(drains') = Len(drains) /\ DrainsOf(p)' > 0
       /\ \A q \in Processes : owner[q] # o => drains'[q] = drains[q]
  BY <1>1, <1>9, DrainsReplaced
<1>11. Sessions' /\ Shelled'
  <2>1. \A q \in Processes : owner[q] # o =>
          /\ drains'[q] = drains[q]
          /\ (q \in reported') = (q \in reported)
          /\ (q \in forgotten') = (q \in forgotten)
    BY <1>6, <1>10
  <2>2. /\ reported' \subseteq Processes /\ forgotten' \subseteq reported'
        /\ \A q \in reported' : q \in reported
    BY <1>2, <1>6 DEF Named
  <2>3. s.draining /\ s.process # None /\ DrainsOf(s.process)' > 0
    <3>1. object[o].draining
      BY <1>2, <1>5 DEF SessionOK, pending
    <3> QED
      BY <1>3, <1>7, <1>10, <3>1 DEF Running, DrainsOf
  <2>4. /\ ExitPending(s) => s.process \in reported'
        /\ s.process \in reported' => ExitPending(s) \/ s.process \in forgotten'
    BY <1>2, <1>3, <1>6, <1>7, <1>8 DEF SessionOK
  <2>5. s.process = object[o].process /\ s.status = object[o].status
    BY <1>3, <1>7
  <2> QED
    BY <1>7, <2>1, <2>2, <2>3, <2>4, <2>5, HeldOn
<1>12. Types' /\ Named' /\ Found' /\ Locked'
  <2>1. alive' \subseteq Processes /\ condemned' \subseteq Processes
    BY <1>2 DEF Named
  <2>2. reported' \subseteq Processes /\ forgotten' \subseteq Processes
    BY <1>2, <1>6 DEF Named
  <2> QED
    BY <1>3, <1>7, <1>10, <2>1, <2>2, ShellStep
<1>13. DiskTypes'
  BY <1>4, <1>6, CallFacts DEF DiskTypes
<1>14. DiskOK'
  <2> SUFFICES ASSUME mislaid = {}
               PROVE  call.at # "read" /\ session = o /\ Latest' = object'[session].lines
    BY DEF DiskOK
  <2>1. session = o
    BY <1>3 DEF IInv, Found
  <2>2. call.at # "read"
    BY <2>1, CallFacts DEF Locked
  <2>3. object'[session].lines = lines
    <3>1. object'[o] = s
      BY <1>2, <1>7, ObjectReplaced DEF Types
    <3> QED
      BY <1>7, <2>1, <3>1
  <2>4. lines # Nothing
    BY <1>4, LimitsAssumption DEF Histories, Nothing
  <2> QED
    BY <1>6, <2>1, <2>2, <2>3, <2>4 DEF Latest
<1> QED
  BY <1>11, <1>12, <1>13, <1>14 DEF IInv

\* A drain ends the session.
LEMMA ByDrainExit ==
  ASSUME IInv, NEW p \in Processes, NEW at \in Points, drains[p][at] > 0,
         DrainExit(p, at),
         UNCHANGED <<session, call, condemned, owner, alive, writing, file, unsaved, mislaid>>
  PROVE  IInv'
<1>1. PICK o \in Objects : o = owner[p]
  BY OwnerFacts
<1>2. object[o] \in Shapes /\ Types /\ Named /\ SessionOK(o)
  BY SessionFacts DEF IInv
<1>3. object[o].process = p /\ ProcessOK(p)
  BY <1>1, OwnerFacts DEF DrainExit, Stale
<1>4. p \notin alive
  <2>1. /\ object[o].pending \in Seq(Events) /\ object[o].pending # << >>
        /\ Head(object[o].pending) = "exit"
    BY <1>1, <1>2 DEF DrainExit, Shapes
  <2>2. 1 \in DOMAIN object[o].pending /\ object[o].pending[1] = "exit"
    BY <2>1, HeadTailProperties
  <2>3. ExitPending(object[o])
    BY <2>2 DEF ExitPending
  <2> QED
    BY <1>2, <1>3, <2>3 DEF SessionOK, ProcessOK
<1> DEFINE s == Off(object[o], "exited")
<1>5. s \in Shapes /\ Still(s) /\ s.lines = object[o].lines
  BY <1>2, ShapeFacts
<1>6. s.process = None
  BY <1>5 DEF Still
<1>7. object' = [object EXCEPT ![o] = s]
  BY <1>1 DEF DrainExit
<1> HIDE DEF s
<1>8. /\ reported' = reported \ {p} /\ forgotten' = forgotten \ {p}
      /\ queued' = queued /\ drains' = Leaves(p, at)
  BY DEF DrainExit, Unheard
<1>9. PICK d \in Counts : drains' = [drains EXCEPT ![p] = d]
  <2>1. \E d \in Counts : Leaves(p, at) = [drains EXCEPT ![p] = d]
    BY LeavesFacts
  <2> QED
    BY <1>8, <2>1
<1>10. /\ drains' \in Seq(Counts) /\ Len(drains') = Len(drains)
       /\ \A q \in Processes : owner[q] # o => drains'[q] = drains[q]
  BY <1>1, <1>9, DrainsReplaced
<1>11. Sessions' /\ Shelled'
  <2>1. condemned' = condemned \cup ({object[o].process} \cap alive)
    BY <1>3, <1>4
  <2>2. /\ reported' = reported \ {object[o].process}
        /\ forgotten' = forgotten \ {object[o].process}
    BY <1>3, <1>8
  <2> QED
    BY <1>5, <1>7, <1>10, <2>1, <2>2, Parted
<1>12. Types' /\ Named' /\ Found' /\ Locked'
  <2>1. alive' \subseteq Processes /\ condemned' \subseteq Processes
    BY <1>2 DEF Named
  <2>2. reported' \subseteq Processes /\ forgotten' \subseteq Processes
    BY <1>2, <1>8 DEF Named
  <2> QED
    BY <1>5, <1>6, <1>7, <1>10, <2>1, <2>2, ShellStep
<1>13. DiskTypes' /\ DiskOK'
  <2>1. \A q \in Objects : object'[q].lines = object[q].lines
    BY <1>2, <1>5, <1>7, ObjectReplaced DEF Types
  <2>2. UNCHANGED disk
    BY <1>8 DEF disk
  <2> QED
    BY <2>1, <2>2, CallFacts, DiskAside
<1> QED
  BY <1>11, <1>12, <1>13 DEF IInv

-----------------------------------------------------------------------------
(* The theorems                                                            *)

\* Every step keeps the invariant.
\* A signal that is sent, or that throws, ends no process by itself.
LEMMA StillThere ==
  ASSUME IInv, UNCHANGED <<session, object, call, drains, condemned, processes, disk, history>>
  PROVE  IInv'
<1>1. /\ UNCHANGED <<session, mislaid>> /\ UNCHANGED sessions
      /\ UNCHANGED call /\ UNCHANGED object /\ UNCHANGED disk
  BY DEF sessions, processes, history
<1>2. Types' /\ Named' /\ Sessions' /\ Shelled' /\ Found'
  BY <1>1, CallFacts, Aside
<1>3. Locked'
  BY <1>1, CallFacts DEF Locked, Running
<1>4. DiskTypes' /\ DiskOK'
  BY <1>1, DiskAside
<1> QED
  BY <1>2, <1>3, <1>4 DEF IInv

LEMMA InvariantStep ==
  ASSUME IInv, [Next]_vars
  PROVE  IInv'
<1>1. CASE Calls
  <2>1. CASE OpenNew
    BY <2>1, ByOpenNew
  <2>2. CASE OpenAgain
    BY <2>2, ByRenew DEF OpenAgain
  <2>3. CASE OpenUnstarted
    BY <2>3, ByOpenUnstarted
  <2>4. CASE Clear
    BY <2>4, ByClear
  <2>5. CASE RestartNew
    BY <2>5, ByRestartNew
  <2>6. CASE Restart
    BY <2>6, ByRenew DEF Restart
  <2>7. CASE Close
    BY <2>7, ByClose
  <2> QED
    BY <1>1, <2>1, <2>2, <2>3, <2>4, <2>5, <2>6, <2>7 DEF Calls
<1>2. CASE Progress
  <2>1. CASE Flushed
    BY <2>1, ByFlushed
  <2>2. CASE ReadHistory
    BY <2>2, ByReadHistory
  <2>3. CASE Persisted
    BY <2>3, ByPersisted
  <2>4. CASE RemoveHistory
    BY <2>4, ByRemoveHistory
  <2>5. CASE Spawn
    BY <2>5, BySpawn
  <2>6. CASE SpawnFails
    BY <2>6, BySpawnFails
  <2> QED
    BY <1>2, <2>1, <2>2, <2>3, <2>4, <2>5, <2>6 DEF Progress
<1>3. CASE Interrupted \/ Evict \/ Worker
  BY <1>3, ByInterrupted, ByEvict, ByTakeHistory, ByWriteHistory DEF Worker
<1>4. CASE Shells
  <2>1. PICK p \in Processes : Output(p) \/ Dies(p) \/ Exits(p)
    BY <1>4 DEF Shells
  <2>2. CASE Output(p)
    BY <2>2, ByOutput
  <2>3. CASE Dies(p)
    BY <2>3, ByDeath DEF Dies, Ended
  <2>4. CASE Exits(p)
    BY <2>4, ByExits
  <2> QED
    BY <2>1, <2>2, <2>3, <2>4
<1>5. CASE \E p \in Processes : Terminate(p) \/ ForceKill(p) \/ Drain(p)
  <2>1. PICK p \in Processes : Terminate(p) \/ ForceKill(p) \/ Drain(p)
    BY <1>5
  <2>2. CASE Terminate(p) \/ ForceKill(p)
    <3>1. UNCHANGED <<session, object, call, drains, owner, reported, disk, history>>
      BY <2>2 DEF Terminate, ForceKill
    <3>2. CASE Ended(p)
      BY <3>1, <3>2, ByDeath DEF Ended
    <3>3. CASE UNCHANGED <<condemned, alive>>
      BY <3>1, <3>3, StillThere DEF processes
    <3> QED
      BY <2>2, <3>2, <3>3 DEF Terminate, ForceKill, SignalThrows
  <2>3. CASE Drain(p)
    <3>1. PICK at \in Points :
            /\ drains[p][at] > 0
            /\ DrainStops(p, at) \/ DrainOutput(p, at) \/ DrainExit(p, at)
      BY <2>3 DEF Drain
    <3>2. UNCHANGED <<session, call, condemned, owner, alive, writing, file, unsaved, mislaid>>
      BY <2>3 DEF Drain, kills
    <3> QED
      BY <3>1, <3>2, ByDrainStops, ByDrainOutput, ByDrainExit
  <2> QED
    BY <2>1, <2>2, <2>3
<1>6. CASE UNCHANGED vars
  BY <1>6, StillThere DEF vars, kills
<1> QED
  BY <1>1, <1>2, <1>3, <1>4, <1>5, <1>6 DEF Next

\* The invariant holds of every state.
THEOREM Invariant == Spec => []IInv
<1>1. Init => IInv
  BY InvariantInit
<1>2. IInv /\ [Next]_vars => IInv'
  BY InvariantStep
<1> QED
  BY <1>1, <1>2, PTL DEF Spec

\* What an escalation has come to.
SignalsOK == spared \subseteq condemned /\ grace \subseteq Escalating

\* Only a process that an escalation is under way for is sent a signal.
LEMMA Signals == Spec => []SignalsOK
<1>1. Init => SignalsOK
  BY DEF Init, SignalsOK, Escalating
<1>2. ASSUME SignalsOK, [Next]_vars
      PROVE  SignalsOK'
  <2>1. ASSUME condemned \subseteq condemned', UNCHANGED <<grace, spared>>
        PROVE  SignalsOK'
    BY <1>2, <2>1 DEF SignalsOK, Escalating
  <2>2. ASSUME NEW p, Terminate(p) \/ ForceKill(p) \/ Dies(p)
        PROVE  SignalsOK'
    BY <1>2, <2>2 DEF SignalsOK, Escalating, Terminate, ForceKill, Dies, Ended, SignalThrows
  <2>3. CASE Calls
    BY <2>1, <2>3 DEF Calls, OpenNew, OpenAgain, OpenUnstarted, Clear, RestartNew, Restart,
                      Close, Renew, StopProcess, kills
  <2>4. CASE Progress \/ Interrupted \/ Evict \/ Worker
    BY <2>1, <2>4 DEF Progress, Flushed, ReadHistory, Persisted, RemoveHistory, Spawn,
                      SpawnFails, Interrupted, Evict, Worker, TakeHistory, WriteHistory, kills
  <2>5. CASE Shells
    BY <2>1, <2>2, <2>5 DEF Shells, Output, Exits, kills
  <2>6. CASE \E p \in Processes : Terminate(p) \/ ForceKill(p) \/ Drain(p)
    BY <2>1, <2>2, <2>6 DEF Drain, kills
  <2>7. CASE UNCHANGED vars
    BY <2>1, <2>7 DEF vars, kills
  <2> QED
    BY <1>2, <2>3, <2>4, <2>5, <2>6, <2>7 DEF Next
<1> QED
  BY <1>1, <1>2, PTL DEF Spec

\* No shell process is left to itself, for any number of sessions, shells and
\* drains: a living one is behind the session that calls find or is being killed,
\* up to a session that was evicted while a call was at work on it and a process
\* that was spared because a signal threw.
THEOREM OwnedCorrect == Spec => []ProcessesOwned
<1>1. IInv => ProcessesOwned
  BY Implied
<1> QED
  BY <1>1, Invariant, PTL

\* The exit of a shell whose session is shown as running is pending and a drain is
\* under way, or it was thrown away while it was pending.
THEOREM ExitsCorrect == Spec => []ExitsHandled
<1>1. IInv => ExitsHandled
  BY Implied
<1> QED
  BY <1>1, Invariant, PTL

\* What a terminal shows is what is kept of it on disk, once nothing waits to be
\* written, for every limit of the history.
THEOREM DiskCorrect == Spec => []DiskFollowsTerminal
<1>1. IInv => DiskFollowsTerminal
  BY Implied
<1> QED
  BY <1>1, Invariant, PTL

\* Every variable keeps its type: a session has a process exactly while it is
\* running, which is its own, and only a dead one of a running session is reported.
THEOREM TypeCorrect == Spec => []TypeOK
<1>1. ASSUME IInv, SignalsOK
      PROVE  TypeOK
  <2>1. Types /\ DiskTypes /\ Named /\ Sessions /\ Shelled
    BY <1>1 DEF IInv
  <2>2. ASSUME NEW o \in Objects
        PROVE  /\ object[o].status \in Statuses
               /\ object[o].process \in Processes \cup {None}
               /\ object[o].process # None <=> object[o].status = "running"
               /\ object[o].process # None => owner[object[o].process] = o
               /\ object[o].lines \in Histories
               /\ object[o].pending \in Seq({"output", "exit"})
               /\ object[o].draining \in BOOLEAN
    BY <1>1, SessionFacts DEF Shapes, SessionOK, Running, Events
  <2>3. /\ call.op \in {"none", "open", "clear", "restart", "close", "delete"}
        /\ call.at \in {"idle", "flush", "read", "persist", "spawn", "remove"}
    BY <2>1 DEF Types, CallShapes
  <2>4. owner \in Seq(Objects)
    <3>1. owner \in Seq(Nat) /\ \A p \in 1 .. Len(owner) : owner[p] \in Objects
      BY <2>1 DEF Types, Shelled, ProcessOK, Processes
    <3> QED
      BY <3>1
  <2>5. DOMAIN drains = Processes /\ \A p \in Processes : drains[p] \in [Points -> Nat]
    <3>1. drains \in Seq(Counts) /\ Len(drains) = Len(owner)
      BY <2>1 DEF Types, Named
    <3>2. DOMAIN drains = Processes /\ \A p \in Processes : drains[p] \in Counts
      BY <3>1 DEF Processes
    <3>3. Counts \subseteq [Points -> Nat]
      BY DEF Counts, Points
    <3> QED
      BY <3>2, <3>3
  <2>6. reported \subseteq {p \in Processes \ alive : Current(p)}
    <3> SUFFICES ASSUME NEW p \in reported
                 PROVE  p \in Processes \ alive /\ Current(p)
      OBVIOUS
    <3>1. p \in Processes /\ ProcessOK(p)
      BY <2>1 DEF Named, Shelled
    <3>2. owner[p] \in Objects /\ SessionOK(owner[p])
      BY <2>1, <3>1 DEF ProcessOK, Sessions
    <3> QED
      BY <3>1, <3>2 DEF ProcessOK, SessionOK, Running, Current, Processes, None
  <2>7. condemned \subseteq alive /\ forgotten \subseteq reported
    BY <2>1 DEF Named, Shelled, ProcessOK
  <2> QED
    BY <2>1, <2>2, <2>3, <2>4, <2>5, <2>6, <2>7, <1>1 DEF TypeOK, Named, DiskTypes, SignalsOK
<1> QED
  BY <1>1, Invariant, Signals, PTL

=============================================================================
