--------------------------- MODULE DesktopShellProofs ---------------------------
(***************************************************************************)
(* Theorems about the desktop application, for every limit of crashes and  *)
(* any number of server processes and installs.                            *)
(***************************************************************************)
EXTENDS DesktopShell, TLAPS

-----------------------------------------------------------------------------
(* The inductive invariant                                                 *)

\* Before bootstrap there is nothing of a server.
Fresh == ~booted => backendProcess = None /\ ~restartTimer /\ exits = 0

\* The end of a process that nobody expects is the server's.
Accounted == unheard \subseteq {backendProcess} \cup expected
Unexpected == backendProcess \notin expected

\* A restart is only due while there is no server.
OneDue == restartTimer => backendProcess = None

\* The two halves of TypeOK.
TypeServer ==
  /\ booted \in BOOLEAN /\ isQuitting \in BOOLEAN /\ restartTimer \in BOOLEAN
  /\ gaveUp \in BOOLEAN /\ stranded \in BOOLEAN
  /\ backendProcess \in unheard \cup {None} /\ healthyTimer \in Children \cup {None}
  /\ exits \in 0 .. MaxExits
  /\ started \in 0 .. MaxChildren
  /\ alive \subseteq Children /\ killed \subseteq Children
  /\ expected \subseteq killed /\ unheard \subseteq Children
TypeUpdates ==
  /\ install \in BOOLEAN /\ stopping \in 0 .. MaxInstalls
  /\ status \in Statuses /\ version \in {"none", "available", "downloaded"}
  /\ check \in {"none", "asked", "told"} /\ download \in {"none", "asked", "told"}

IInv ==
  /\ TypeServer /\ Fresh /\ Accounted /\ Unexpected /\ OneDue
  /\ BackendWatched /\ NoStrayServer /\ CrashLoopStops

\* What the bounds are worth.
LEMMA Limits ==
  /\ MaxExits \in Nat /\ MaxChildren \in Nat /\ MaxInstalls \in Nat
  /\ 0 < MaxExits /\ 0 \in 0 .. MaxExits /\ 0 \in 0 .. MaxChildren /\ 0 \in 0 .. MaxInstalls
BY LimitsAssumption

\* The application starts with nothing.
LEMMA InitInv == Init => IInv
<1> SUFFICES ASSUME Init PROVE IInv
  OBVIOUS
<1>1. TypeServer
  BY Limits DEF Init, TypeServer, None, Children
<1>2. Fresh /\ Accounted /\ Unexpected /\ OneDue /\ BackendWatched /\ NoStrayServer
  BY DEF Init, Fresh, Accounted, Unexpected, OneDue, BackendWatched, NoStrayServer, None
<1>3. CrashLoopStops
  BY Limits DEF Init, CrashLoopStops, None
<1> QED
  BY <1>1, <1>2, <1>3 DEF IInv

-----------------------------------------------------------------------------
(* Steps                                                                   *)

\* What a step that leaves the server and its processes alone has to keep.
LEMMA ServerAlone ==
  ASSUME IInv, isQuitting' \in BOOLEAN, stranded' \in BOOLEAN,
         UNCHANGED <<server, processes, booted, gaveUp>>,
         ~isQuitting' => ~isQuitting \/ stranded',
         stranded => stranded'
  PROVE  IInv'
<1>1. TypeServer'
  BY DEF IInv, TypeServer, server, processes, Children
<1> QED
  BY <1>1 DEF IInv, Fresh, Accounted, Unexpected, OneDue, BackendWatched, NoStrayServer,
              CrashLoopStops, server, processes

\* stopBackend, before the application quits.
LEMMA StopInv ==
  ASSUME IInv, StopBackend, isQuitting' = TRUE, UNCHANGED <<booted, gaveUp, stranded>>
  PROVE  IInv'
<1>1. SignalledServer \subseteq Children /\ SignalledServer \subseteq {backendProcess}
  BY DEF IInv, TypeServer, SignalledServer
<1>2. unheard \cap {backendProcess} \subseteq SignalledServer
  BY DEF SignalledServer
<1>3. 0 \notin expected \cup unheard \cup SignalledServer
  BY <1>1, LimitsAssumption DEF IInv, TypeServer, Children
<1>4. backendProcess' = 0 /\ UNCHANGED <<exits, started, alive, unheard>>
  BY DEF StopBackend, None
<1>5. expected' = expected \cup SignalledServer /\ killed' = killed \cup SignalledServer
  BY DEF StopBackend
<1>6. TypeServer'
  BY <1>1, <1>3, <1>4, <1>5 DEF StopBackend, IInv, TypeServer, Children, None
<1>7. Accounted' /\ Unexpected'
  BY <1>2, <1>3, <1>4, <1>5 DEF IInv, Accounted, Unexpected
<1>8. NoStrayServer'
  BY <1>2, <1>4, <1>5 DEF IInv, TypeServer, NoStrayServer, SignalledServer, None
<1>9. Fresh' /\ OneDue' /\ BackendWatched' /\ CrashLoopStops'
  BY <1>4 DEF StopBackend, IInv, Fresh, OneDue, BackendWatched, CrashLoopStops, None
<1> QED
  BY <1>6, <1>7, <1>8, <1>9 DEF IInv

\* Updates touch the server only when they install.
LEMMA UpdatesInv == IInv /\ Updates => IInv'
<1> SUFFICES ASSUME IInv, Updates PROVE IInv'
  OBVIOUS
<1>1. isQuitting \in BOOLEAN /\ stranded \in BOOLEAN
  BY DEF IInv, TypeServer
<1>2. CASE \/ CheckForUpdates \/ Checked \/ CheckReturns \/ CheckFails
           \/ DownloadAvailableUpdate \/ Downloaded \/ DownloadReturns \/ DownloadFails
  <2>1. UNCHANGED <<server, processes, booted, gaveUp, isQuitting, stranded>>
    BY <1>2 DEF CheckForUpdates, Checked, CheckReturns, CheckFails, DownloadAvailableUpdate,
                Downloaded, DownloadReturns, DownloadFails, Updating, installing
  <2> QED
    BY <1>1, <2>1, ServerAlone
<1>3. CASE HandOver \/ UpdaterFails
  <2>1. /\ UNCHANGED <<server, processes, booted, gaveUp>>
        /\ \/ UNCHANGED <<isQuitting, stranded>>
           \/ isQuitting' = FALSE /\ stranded' = TRUE
    BY <1>3 DEF HandOver, UpdaterFails, InstallFailed
  <2> QED
    BY <1>1, <2>1, ServerAlone
<1>4. CASE InstallDownloadedUpdate
  BY <1>4, StopInv DEF InstallDownloadedUpdate
<1> QED
  BY <1>2, <1>3, <1>4 DEF Updates

\* Quitting stops the server.
LEMMA QuitInv == IInv /\ Quit => IInv'
BY StopInv DEF Quit

\* startBackend when no restart is due any longer, and no crash loop was found.
LEMMA StartInv ==
  ASSUME IInv, StartBackend, booted' = TRUE, exits < MaxExits,
         UNCHANGED <<isQuitting, exits, stranded, gaveUp>>
  PROVE  IInv'
<1> USE DEF Children, None
<1>0. UNCHANGED <<isQuitting, exits, stranded, gaveUp>>
  OBVIOUS
<1>1. CASE isQuitting \/ backendProcess # None
  <2>1. restartTimer' = FALSE /\ UNCHANGED <<backendProcess, healthyTimer, processes>>
    BY <1>1 DEF StartBackend
  <2>2. TypeServer'
    BY <1>0, <2>1 DEF IInv, TypeServer, processes
  <2> QED
    BY <1>0, <1>1, <2>1, <2>2 DEF IInv, Fresh, Accounted, Unexpected, OneDue, BackendWatched,
         NoStrayServer, CrashLoopStops, processes
<1>2. CASE ~isQuitting /\ backendProcess = None /\ Unstarted
  <2>1. restartTimer' = TRUE /\ UNCHANGED <<backendProcess, healthyTimer, processes>>
    BY <1>2 DEF Unstarted
  <2>2. TypeServer'
    BY <1>0, <2>1 DEF IInv, TypeServer, processes
  <2>3. exits \in Nat /\ MaxExits \in Nat
    BY LimitsAssumption DEF IInv, TypeServer
  <2> QED
    BY <1>0, <1>2, <2>1, <2>2, <2>3 DEF IInv, Fresh, Accounted, Unexpected, OneDue,
         BackendWatched, NoStrayServer, CrashLoopStops, processes
<1>3. CASE /\ ~isQuitting /\ backendProcess = None
           /\ started < MaxChildren /\ started' = started + 1 /\ UNCHANGED expected
           /\ Spawned(started') \/ Abandoned(started')
  <2> DEFINE new == started + 1
  <2>1. /\ started \in Nat /\ started < new /\ new \in 1 .. new /\ new # 0
        /\ new \in 0 .. MaxChildren
        /\ started' = new
    BY <1>3, Limits DEF IInv, TypeServer
  <2>2. 1 .. started \subseteq 1 .. new /\ new \notin 1 .. started
    BY <2>1
  <2>3. /\ unheard' \subseteq unheard \cup {new} /\ alive' \subseteq alive \cup {new}
        /\ \/ backendProcess' = new /\ unheard' = unheard \cup {new} /\ restartTimer' = FALSE
              /\ killed' = killed
           \/ backendProcess' = 0 /\ unheard' = unheard /\ restartTimer' = TRUE
              /\ killed' = killed \cup {new}
        /\ healthyTimer' \in {healthyTimer, new}
    BY <1>3, <2>1 DEF Spawned, Abandoned
  <2> HIDE DEF new
  <2>4. /\ unheard \subseteq 1 .. started /\ expected \subseteq 1 .. started
        /\ killed \subseteq 1 .. started /\ alive \subseteq 1 .. started
        /\ expected \subseteq killed /\ healthyTimer \in 1 .. started \cup {0}
    BY DEF IInv, TypeServer
  <2>5. /\ unheard' \subseteq 1 .. new /\ alive' \subseteq 1 .. new /\ killed' \subseteq 1 .. new
        /\ expected' \subseteq killed' /\ healthyTimer' \in 1 .. new \cup {0}
        /\ backendProcess' \in unheard' \cup {0}
    BY <1>3, <2>1, <2>2, <2>3, <2>4
  <2>6. TypeServer'
    <3>1. booted' \in BOOLEAN /\ isQuitting' \in BOOLEAN /\ restartTimer' \in BOOLEAN
          /\ gaveUp' \in BOOLEAN /\ stranded' \in BOOLEAN /\ exits' \in 0 .. MaxExits
      BY <1>0, <2>3 DEF IInv, TypeServer
    <3> QED
      BY <2>1, <2>5, <3>1 DEF TypeServer
  <2>7. Fresh' /\ OneDue' /\ BackendWatched'
    BY <2>1, <2>3 DEF Fresh, OneDue, BackendWatched
  <2>8. CrashLoopStops'
    BY <1>0, Limits DEF IInv, TypeServer, CrashLoopStops
  <2>9. Accounted' /\ NoStrayServer' /\ Unexpected'
    BY <1>3, <2>1, <2>2, <2>3, <2>4 DEF IInv, Accounted, NoStrayServer, Unexpected
  <2> QED
    BY <2>6, <2>7, <2>8, <2>9 DEF IInv
<1> QED
  BY <1>1, <1>2, <1>3 DEF StartBackend

\* The end of a process: of one that was stopped, or of the server.
LEMMA EndedInv ==
  ASSUME IInv, NEW child \in Children, Ended(child)
  PROVE  IInv'
<1> USE DEF Children, None
<1>1. child \in unheard /\ child # 0
  BY DEF Ended, IInv, TypeServer
<1>2. /\ unheard' = unheard \ {child} /\ healthyTimer' = 0 /\ child \notin alive
      /\ backendProcess' = IF backendProcess = child THEN 0 ELSE backendProcess
      /\ UNCHANGED <<booted, isQuitting, started, alive, killed, expected, stranded>>
  BY DEF Ended, installing
<1>3. Accounted' /\ Unexpected' /\ NoStrayServer'
  BY <1>1, <1>2 DEF IInv, TypeServer, Accounted, Unexpected, NoStrayServer
<1>4. ASSUME exits' \in 0 .. MaxExits, restartTimer' \in BOOLEAN, gaveUp' \in BOOLEAN
      PROVE  TypeServer'
  BY <1>2, <1>4 DEF IInv, TypeServer
<1>5. CASE isQuitting \/ child \in expected
  <2>1. UNCHANGED <<restartTimer, exits, gaveUp>>
    BY <1>5 DEF Ended
  <2>2. TypeServer'
    BY <1>4, <2>1 DEF IInv, TypeServer
  <2>3. isQuitting \/ backendProcess' = backendProcess
    BY <1>2, <1>5 DEF IInv, Unexpected
  <2> QED
    BY <1>2, <1>3, <2>1, <2>2, <2>3 DEF IInv, Fresh, OneDue, BackendWatched, CrashLoopStops
<1>6. CASE ~isQuitting /\ child \notin expected
  <2>1. child = backendProcess /\ backendProcess' = 0 /\ ~restartTimer /\ booted
    BY <1>1, <1>2, <1>6 DEF IInv, Accounted, OneDue, Fresh
  <2>2. exits < MaxExits /\ exits \in Nat
    BY <1>1, <2>1, Limits DEF IInv, TypeServer, CrashLoopStops
  <2>3. /\ exits' \in 0 .. MaxExits /\ restartTimer' \in BOOLEAN /\ gaveUp' \in BOOLEAN
        /\ gaveUp' \/ restartTimer'
        /\ exits' >= MaxExits => ~restartTimer'
    <3>1. CASE LongLived
      <4>1. exits' \in 0 .. MaxExits /\ ~(exits' >= MaxExits)
        BY <3>1, Limits DEF LongLived
      <4>2. restartTimer' \in BOOLEAN /\ (gaveUp' \/ restartTimer')
        BY <3>1 DEF LongLived
      <4>3. gaveUp' \in BOOLEAN
        BY <3>1 DEF LongLived, IInv, TypeServer
      <4> QED
        BY <4>1, <4>2, <4>3
    <3>2. CASE ShortLived
      <4>1. PICK recent \in 0 .. exits :
              /\ exits' = recent + 1
              /\ IF StopsRestarting(recent + 1) THEN gaveUp' = TRUE /\ UNCHANGED restartTimer
                 ELSE restartTimer' = TRUE /\ UNCHANGED gaveUp
        BY <3>2 DEF ShortLived
      <4>2. exits' \in 0 .. MaxExits
        BY <2>2, <4>1, Limits
      <4>3. CASE exits' >= MaxExits
        <5>1. gaveUp' = TRUE /\ restartTimer' = restartTimer
          BY <4>1, <4>3 DEF StopsRestarting
        <5>2. restartTimer' \in BOOLEAN /\ ~restartTimer' /\ gaveUp' /\ gaveUp' \in BOOLEAN
          BY <2>1, <5>1 DEF IInv, TypeServer
        <5> QED
          BY <4>2, <5>2
      <4>4. CASE ~(exits' >= MaxExits)
        <5>1. restartTimer' = TRUE /\ gaveUp' = gaveUp
          BY <4>1, <4>4 DEF StopsRestarting
        <5>2. restartTimer' \in BOOLEAN /\ restartTimer' /\ gaveUp' \in BOOLEAN
          BY <5>1 DEF IInv, TypeServer
        <5> QED
          BY <4>2, <4>4, <5>2
      <4> QED
        BY <4>3, <4>4
    <3> QED
      BY <1>6, <3>1, <3>2 DEF Ended
  <2>4. TypeServer'
    BY <1>4, <2>3
  <2>5. Fresh' /\ OneDue' /\ BackendWatched' /\ CrashLoopStops'
    BY <1>2, <2>1, <2>3 DEF Fresh, OneDue, BackendWatched, CrashLoopStops
  <2> QED
    BY <1>3, <2>4, <2>5 DEF IInv
<1> QED
  BY <1>5, <1>6

\* The callbacks of the server.
LEMMA BackendInv == IInv /\ Backend => IInv'
<1> SUFFICES ASSUME IInv, Backend PROVE IInv'
  OBVIOUS
<1>1. CASE Bootstrap
  <2>1. exits < MaxExits /\ backendProcess = None
    BY <1>1, LimitsAssumption DEF Bootstrap, IInv, Fresh
  <2> QED
    BY <1>1, <2>1, StartInv DEF Bootstrap, installing
<1>2. CASE Restart
  <2>1. exits < MaxExits /\ booted
    BY <1>2, LimitsAssumption DEF Restart, IInv, TypeServer, Fresh, CrashLoopStops
  <2>2. booted' = TRUE
    BY <1>2, <2>1 DEF Restart, IInv, TypeServer
  <2> QED
    BY <1>2, <2>1, <2>2, StartInv DEF Restart, installing
<1>3. CASE Healthy
  <2>1. /\ UNCHANGED <<booted, isQuitting, backendProcess, restartTimer, processes, gaveUp, stranded>>
        /\ healthyTimer' = None /\ healthyTimer # None
        /\ exits' = IF backendProcess = healthyTimer THEN 0 ELSE exits
    BY <1>3 DEF Healthy, installing
  <2>2. TypeServer'
    BY <2>1, LimitsAssumption DEF IInv, TypeServer, processes, Children
  <2> QED
    BY <2>1, <2>2, LimitsAssumption
       DEF IInv, Fresh, Accounted, Unexpected, OneDue, BackendWatched, NoStrayServer,
           CrashLoopStops, processes
<1>4. ASSUME NEW child \in Children, Dies(child) PROVE IInv'
  <2>1. /\ alive' \subseteq alive
        /\ UNCHANGED <<booted, isQuitting, server, started, killed, expected, unheard, gaveUp, stranded>>
    BY <1>4 DEF Dies, installing
  <2>2. TypeServer'
    BY <2>1 DEF IInv, TypeServer, server, Children
  <2> QED
    BY <2>1, <2>2
       DEF IInv, Fresh, Accounted, Unexpected, OneDue, BackendWatched, NoStrayServer,
           CrashLoopStops, server
<1>5. CASE RestartThrows
  <2>1. /\ restartTimer' = FALSE /\ gaveUp' = TRUE
        /\ UNCHANGED <<booted, isQuitting, backendProcess, healthyTimer, exits, processes, stranded>>
    BY <1>5 DEF RestartThrows, installing
  <2>2. TypeServer'
    BY <2>1 DEF IInv, TypeServer, processes, Children
  <2> QED
    BY <2>1, <2>2
       DEF IInv, Fresh, Accounted, Unexpected, OneDue, BackendWatched, NoStrayServer,
           CrashLoopStops, processes
<1> QED
  BY <1>1, <1>2, <1>3, <1>4, <1>5, EndedInv DEF Backend, Children

\* Nothing happens.
LEMMA StutterInv == IInv /\ UNCHANGED vars => IInv'
<1> SUFFICES ASSUME IInv, UNCHANGED vars PROVE IInv'
  OBVIOUS
<1>1. UNCHANGED <<server, processes, booted, gaveUp, isQuitting, stranded>>
  BY DEF vars, installing
<1> QED
  BY <1>1, ServerAlone DEF IInv, TypeServer

-----------------------------------------------------------------------------
(* Theorems                                                                *)

\* The invariant holds of every reachable state.
THEOREM Invariance == Spec => []IInv
<1>1. IInv /\ [Next]_vars => IInv'
  BY UpdatesInv, QuitInv, BackendInv, StutterInv DEF Next
<1> QED
  BY InitInv, <1>1, PTL DEF Spec

\* Every variable keeps its type: at most as many exits are held as are put up with.
THEOREM TypeCorrect == Spec => []TypeOK
<1>1. Init => TypeUpdates
  BY Limits DEF Init, TypeUpdates, Statuses
<1>2. TypeUpdates /\ [Next]_vars => TypeUpdates'
  <2> SUFFICES ASSUME TypeUpdates, [Next]_vars PROVE TypeUpdates'
    OBVIOUS
  <2>1. CASE Updates
    <3>1. CASE InstallDownloadedUpdate
      <4>1. stopping' = stopping + 1 /\ stopping < MaxInstalls /\ install' = TRUE
        BY <3>1 DEF InstallDownloadedUpdate
      <4>2. stopping' \in 0 .. MaxInstalls
        BY <4>1, Limits DEF TypeUpdates
      <4> QED
        BY <3>1, <4>1, <4>2 DEF InstallDownloadedUpdate, TypeUpdates, updater
    <3>2. CASE HandOver
      <4>1. stopping' = stopping - 1 /\ stopping > 0
        BY <3>2 DEF HandOver
      <4>2. stopping' \in 0 .. MaxInstalls
        BY <4>1, Limits DEF TypeUpdates
      <4> QED
        BY <3>2, <4>2 DEF HandOver, InstallFailed, TypeUpdates, Statuses
    <3>3. CASE UpdaterFails
      BY <3>3 DEF UpdaterFails, InstallFailed, TypeUpdates, Statuses
    <3>4. CASE ~InstallDownloadedUpdate /\ ~HandOver /\ ~UpdaterFails
      BY <2>1, <3>4
         DEF Updates, CheckForUpdates, Checked, CheckReturns, CheckFails,
             DownloadAvailableUpdate, Downloaded, DownloadReturns, DownloadFails,
             DownloadFailed, TypeUpdates, Statuses, Updating, installing
    <3> QED
      BY <3>1, <3>2, <3>3, <3>4
  <2>2. CASE Backend \/ UNCHANGED vars
    <3>1. UNCHANGED <<updater, install, stopping>>
      BY <2>2 DEF Backend, Bootstrap, Restart, RestartThrows, Healthy, Dies, Ended, vars, updater, installing
    <3> QED
      BY <3>1 DEF TypeUpdates, updater
  <2>3. CASE Quit
    BY <2>3 DEF Quit, TypeUpdates, updater
  <2> QED
    BY <2>1, <2>2, <2>3 DEF Next
<1>3. TypeServer /\ TypeUpdates => TypeOK
  BY DEF TypeServer, TypeUpdates, TypeOK
<1> QED
  BY <1>1, <1>2, <1>3, Invariance, PTL DEF Spec, IInv

\* While it is not quitting the application has a server or a restart is due, up to crash
\* loops and failed installs.
THEOREM WatchedCorrect == Spec => []BackendWatched
BY Invariance, PTL DEF IInv

\* A process that lives is the application's server or was sent a signal.
THEOREM StrayCorrect == Spec => []NoStrayServer
BY Invariance, PTL DEF IInv

\* A server that crashed as often as is put up with is not started again.
THEOREM CrashLoopCorrect == Spec => []CrashLoopStops
BY Invariance, PTL DEF IInv

\* What windows show of an update is what goes on.
THEOREM StatusCorrect == Spec => []StatusIsTrue
<1>1. Init => StatusIsTrue
  BY DEF Init, StatusIsTrue
<1>2. StatusIsTrue /\ [Next]_vars => StatusIsTrue'
  <2> SUFFICES ASSUME StatusIsTrue, [Next]_vars PROVE StatusIsTrue'
    OBVIOUS
  <2>1. CASE Updates
    BY <2>1 DEF Updates, CheckForUpdates, Checked, CheckReturns, CheckFails,
                DownloadAvailableUpdate, Downloaded, DownloadReturns, DownloadFails,
                DownloadFailed, InstallDownloadedUpdate, HandOver, UpdaterFails, InstallFailed,
                StatusIsTrue, Updating, installing, updater
  <2>2. CASE Backend \/ Quit \/ UNCHANGED vars
    <3>1. UNCHANGED <<updater, stranded>>
      BY <2>2 DEF Backend, Bootstrap, Restart, RestartThrows, Healthy, Dies, Ended, Quit, vars, updater, installing
    <3> QED
      BY <3>1 DEF StatusIsTrue, updater
  <2> QED
    BY <2>1, <2>2 DEF Next
<1> QED
  BY <1>1, <1>2, PTL DEF Spec

=============================================================================
