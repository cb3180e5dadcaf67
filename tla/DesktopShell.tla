----------------------------- MODULE DesktopShell -----------------------------
(***************************************************************************)
(* The desktop application (apps/desktop/src/main.ts): the server process  *)
(* it keeps running behind its windows, started again when it ends         *)
(* unexpectedly and given up when it crashes in a loop                     *)
(* (backendCrashLoop.ts), and its updates (updateMachine.ts), whose        *)
(* installation stops the server and quits the application, or fails.      *)
(*                                                                         *)
(* An action is a callback of the main process: a timer, an event of a     *)
(* child or of the updater, a request of a window, or what follows an      *)
(* await.  The server process and the updater are the environment.         *)
(***************************************************************************)
EXTENDS Integers

CONSTANTS
  MaxExits,        \* BACKEND_CRASH_LOOP_MAX_EXITS
  MaxChildren,     \* bound: processes that are started
  MaxInstalls      \* bound: installs that wait for the server at once

ASSUME LimitsAssumption == MaxExits \in Nat \ {0} /\ MaxChildren \in Nat /\ MaxInstalls \in Nat

VARIABLES
  booted,          \* bootstrap has started the server
  isQuitting,
  \* the server
  backendProcess,  \* the child that is the server, or None
  restartTimer,    \* whether it is set
  healthyTimer,    \* the child it was set for, or None
  exits,           \* unexpected exits that backendCrashLoopState holds
  \* its processes
  started,         \* how many have been
  alive,
  killed,          \* those that were sent a signal
  expected,        \* expectedBackendExitChildren
  unheard,         \* those whose end is still to be heard of
  \* updates
  status,          \* updateState.status
  version,         \* whether updateState has an availableVersion, or a downloadedVersion
  check, download, \* what the updater was asked for, and has told
  install,         \* updateInstallInFlight
  stopping,        \* how many installs wait for the server to end
  \* history
  gaveUp,          \* nothing starts the server again: a crash loop was shown, or a start threw
  stranded         \* an install has failed

processes == <<started, alive, killed, expected, unheard>>
server == <<backendProcess, restartTimer, healthyTimer, exits>>
updater == <<status, version, check, download>>
installing == <<install, stopping, stranded>>
vars == <<booted, isQuitting, server, processes, updater, installing, gaveUp>>

None == 0

Init ==
  /\ booted = FALSE /\ isQuitting = FALSE
  /\ backendProcess = None /\ restartTimer = FALSE /\ healthyTimer = None /\ exits = 0
  /\ started = 0 /\ alive = {} /\ killed = {} /\ expected = {} /\ unheard = {}
  /\ status = "idle" /\ version = "none"
  /\ check = "none" /\ download = "none"
  /\ install = FALSE /\ stopping = 0
  /\ gaveUp = FALSE /\ stranded = FALSE

-----------------------------------------------------------------------------
(* The server                                                              *)

\* A process, and what keeps it: it may end before it is one.
Spawned(child) ==
  /\ backendProcess' = child
  /\ unheard' = unheard \cup {child}
  /\ \/ alive' = alive \cup {child} /\ healthyTimer' = child
     \/ UNCHANGED <<alive, healthyTimer>>
  /\ restartTimer' = FALSE
  /\ UNCHANGED killed

\* There is no pipe to tell it what it needs: it is killed, and not listened to.
Abandoned(child) ==
  /\ alive' = alive \cup {child} /\ killed' = killed \cup {child}
  /\ restartTimer' = TRUE
  /\ UNCHANGED <<backendProcess, healthyTimer, unheard>>

\* Mutation: without the server's file nothing is tried again.
Unstarted_Forgotten ==
  /\ restartTimer' = FALSE
  /\ UNCHANGED <<backendProcess, healthyTimer, processes>>

\* The server's file is missing.
Unstarted ==
  /\ restartTimer' = TRUE
  /\ UNCHANGED <<backendProcess, healthyTimer, processes>>

\* startBackend, with no restart scheduled.
StartBackend ==
  IF isQuitting \/ backendProcess # None
  THEN restartTimer' = FALSE /\ UNCHANGED <<backendProcess, healthyTimer, processes>>
  ELSE \/ Unstarted
       \/ /\ started < MaxChildren
          /\ started' = started + 1
          /\ Spawned(started') \/ Abandoned(started')
          /\ UNCHANGED expected

\* Mutation: the server is no longer the application's, and is left to itself.
SignalledServer_Never == {}

\* The server, unless its end has been heard of.
SignalledServer == {backendProcess} \cap unheard

\* stopBackend; stopBackendAndWaitForExit does the same and waits.
StopBackend ==
  /\ restartTimer' = FALSE /\ healthyTimer' = None
  /\ backendProcess' = None
  /\ expected' = expected \cup SignalledServer
  /\ killed' = killed \cup SignalledServer
  /\ UNCHANGED <<exits, started, alive, unheard>>

\* A start that throws here is fatal: the application quits.
Bootstrap ==
  /\ ~booted
  /\ booted' = TRUE
  /\ StartBackend
  /\ UNCHANGED <<isQuitting, exits, updater, installing, gaveUp>>

Restart ==
  /\ restartTimer
  /\ StartBackend
  /\ UNCHANGED <<booted, isQuitting, exits, updater, installing, gaveUp>>

\* ChildProcess.spawn throws.  Nobody catches what a timer throws: the user is told, and
\* the application goes on.
RestartThrows ==
  /\ restartTimer /\ ~isQuitting /\ backendProcess = None
  /\ restartTimer' = FALSE
  /\ gaveUp' = TRUE
  /\ UNCHANGED <<booted, isQuitting, backendProcess, healthyTimer, exits, processes,
                 updater, installing>>

\* A process ends when it likes, and at the latest after a signal.
Dies(child) ==
  /\ child \in alive
  /\ alive' = alive \ {child}
  /\ UNCHANGED <<booted, isQuitting, server, started, killed, expected, unheard,
                 updater, installing, gaveUp>>

\* markBackendHealthy
Healthy ==
  /\ healthyTimer # None
  /\ healthyTimer' = None
  /\ exits' = IF backendProcess = healthyTimer THEN 0 ELSE exits
  /\ UNCHANGED <<booted, isQuitting, backendProcess, restartTimer, processes,
                 updater, installing, gaveUp>>

\* Mutation: one exit more is put up with.
StopsRestarting_Late(n) == n > MaxExits

StopsRestarting(n) == n >= MaxExits

\* recordUnexpectedBackendExit of a process that lived long enough.
LongLived ==
  /\ exits' = 0
  /\ restartTimer' = TRUE
  /\ UNCHANGED gaveUp

\* Of one that did not; exits that are too long ago are dropped.
ShortLived ==
  \E recent \in 0 .. exits :
    /\ exits' = recent + 1
    /\ IF StopsRestarting(recent + 1) THEN gaveUp' = TRUE /\ UNCHANGED restartTimer
       ELSE restartTimer' = TRUE /\ UNCHANGED gaveUp

\* The first of the error and exit events of a child.
Ended(child) ==
  /\ child \in unheard \ alive
  /\ unheard' = unheard \ {child}
  /\ healthyTimer' = None
  /\ backendProcess' = IF backendProcess = child THEN None ELSE backendProcess
  /\ IF isQuitting \/ child \in expected THEN UNCHANGED <<restartTimer, exits, gaveUp>>
     ELSE LongLived \/ ShortLived
  /\ UNCHANGED <<booted, isQuitting, started, alive, killed, expected, updater, installing>>

\* before-quit, and signals that the application is sent.
Quit ==
  /\ isQuitting' = TRUE
  /\ install' = FALSE
  /\ StopBackend
  /\ UNCHANGED <<booted, updater, stopping, stranded, gaveUp>>

-----------------------------------------------------------------------------
(* Updates                                                                 *)

Updating == <<booted, isQuitting, server, processes, installing, gaveUp>>

CheckForUpdates ==
  /\ ~isQuitting /\ check = "none"
  /\ status \notin {"downloading", "downloaded"}
  /\ check' = "asked" /\ status' = "checking"
  /\ UNCHANGED <<version, download, Updating>>

\* update-available, update-not-available
Checked ==
  /\ check = "asked"
  /\ check' = "told"
  /\ \/ status' = "available" /\ version' = "available"
     \/ status' = "up-to-date" /\ version' = "none"
  /\ UNCHANGED <<download, Updating>>

CheckReturns ==
  /\ check = "told"
  /\ check' = "none"
  /\ UNCHANGED <<status, version, download, Updating>>

CheckFails ==
  /\ check = "asked"
  /\ check' = "none" /\ status' = "error"
  /\ UNCHANGED <<version, download, Updating>>

DownloadAvailableUpdate ==
  /\ download = "none" /\ status = "available"
  /\ download' = "asked" /\ status' = "downloading"
  /\ UNCHANGED <<version, check, Updating>>

\* update-downloaded
Downloaded ==
  /\ download = "asked"
  /\ download' = "told"
  /\ status' = "downloaded" /\ version' = "downloaded"
  /\ UNCHANGED <<check, Updating>>

DownloadReturns ==
  /\ download = "told"
  /\ download' = "none"
  /\ UNCHANGED <<status, version, check, Updating>>

\* Mutation: the failure is only logged.
DownloadFailed_Logged == UNCHANGED status

\* nextStatusAfterDownloadFailure
DownloadFailed == status' = IF version # "none" THEN "available" ELSE "error"

DownloadFails ==
  /\ download = "asked"
  /\ download' = "none"
  /\ DownloadFailed
  /\ UNCHANGED <<version, check, Updating>>

InstallDownloadedUpdate ==
  /\ ~isQuitting /\ status = "downloaded" /\ stopping < MaxInstalls
  /\ isQuitting' = TRUE
  /\ install' = TRUE /\ stopping' = stopping + 1
  /\ StopBackend
  /\ UNCHANGED <<booted, updater, stranded, gaveUp>>

\* The application goes on as if it had not been about to quit.
InstallFailed ==
  /\ install' = FALSE /\ isQuitting' = FALSE
  /\ status' = "downloaded"
  /\ stranded' = TRUE

\* The server has ended, or is not waited for any longer: the updater is told to quit the
\* application and install.
HandOver ==
  /\ stopping > 0
  /\ stopping' = stopping - 1
  /\ \/ UNCHANGED <<install, isQuitting, status, stranded>>
     \/ InstallFailed
  /\ UNCHANGED <<booted, server, processes, version, check, download, gaveUp>>

\* An error event of the updater; what was asked for reports its own.
UpdaterFails ==
  /\ IF install THEN InstallFailed
     ELSE /\ status' = IF check = "none" /\ download = "none" THEN "error" ELSE status
          /\ UNCHANGED <<install, isQuitting, stranded>>
  /\ UNCHANGED <<booted, server, processes, version, check, download, stopping, gaveUp>>

-----------------------------------------------------------------------------

Backend ==
  \/ Bootstrap \/ Restart \/ RestartThrows \/ Healthy
  \/ \E child \in 1 .. started : Dies(child) \/ Ended(child)
Updates ==
  \/ CheckForUpdates \/ Checked \/ CheckReturns \/ CheckFails
  \/ DownloadAvailableUpdate \/ Downloaded \/ DownloadReturns \/ DownloadFails
  \/ InstallDownloadedUpdate \/ HandOver \/ UpdaterFails

Next == Backend \/ Quit \/ Updates

Spec == Init /\ [][Next]_vars

-----------------------------------------------------------------------------
(* Properties                                                              *)

Children == 1 .. started
Statuses == {"idle", "checking", "available", "up-to-date", "downloading", "downloaded", "error"}

TypeOK ==
  /\ booted \in BOOLEAN /\ isQuitting \in BOOLEAN /\ restartTimer \in BOOLEAN
  /\ install \in BOOLEAN /\ gaveUp \in BOOLEAN /\ stranded \in BOOLEAN
  /\ backendProcess \in unheard \cup {None} /\ healthyTimer \in Children \cup {None}
  /\ exits \in 0 .. MaxExits
  /\ stopping \in 0 .. MaxInstalls
  /\ started \in 0 .. MaxChildren
  /\ alive \subseteq Children /\ killed \subseteq Children
  /\ expected \subseteq killed /\ unheard \subseteq Children
  /\ status \in Statuses /\ version \in {"none", "available", "downloaded"}
  /\ check \in {"none", "asked", "told"} /\ download \in {"none", "asked", "told"}

\* The application does not go on without a server: while it is not quitting there is
\* one whose end will be heard of, or a restart is due, however failing starts, ends
\* and quits overlap.  Unless it crashed in a loop, a restart threw, or an install has
\* failed, which leaves the application without the server that the install stopped.
BackendWatched ==
  booted /\ ~isQuitting /\ ~gaveUp /\ ~stranded =>
    backendProcess # None \/ restartTimer

\* No server is left to itself, to hold the port for as long as it likes: one that lives
\* is the application's, or it was sent a signal.  One that was may still be about to end
\* when the next is started.
NoStrayServer == alive \subseteq {backendProcess} \cup killed

\* A server that crashed as often as is put up with, none of them long enough ago and
\* none healthy in between, stays down (backendCrashLoop.ts): no restart that was due
\* survives it, and no process that was started meanwhile.
CrashLoopStops == exits >= MaxExits => backendProcess = None /\ ~restartTimer

\* What windows show of an update is what goes on, whatever the updater reports while
\* it checks, downloads and installs: they do not wait for what is over, are not told
\* that nothing goes on while something does, and are not offered to install what is
\* not there.  The last two up to installs that have failed, which may report at any time.
StatusIsTrue ==
  /\ status = "checking" => check = "asked"
  /\ status = "downloading" => download = "asked"
  /\ ~stranded =>
       /\ check = "asked" => status = "checking"
       /\ download = "asked" => status = "downloading"
       /\ status = "downloaded" => version = "downloaded"

=============================================================================
