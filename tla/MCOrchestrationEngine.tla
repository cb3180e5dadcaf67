------------------------ MODULE MCOrchestrationEngine ------------------------
(***************************************************************************)
(* What is dispatched in an instance of the engine, and by whom.  Two      *)
(* callers race for the creations of one thread, or for a creation and a   *)
(* turn; or one caller dispatches the commands whose guards depend on a    *)
(* session or on a plan, and the revert that ends both; or a caller and a  *)
(* reactor's worker have events published that a client reads at its pace. *)
(***************************************************************************)
EXTENDS OrchestrationEngine, TLC

CONSTANTS theProject, theThread,
          newProject, newThread, newThreadAgain, startTurn,
          sessionRuns, savePlan, startFromPlan, reverted

OnThread(type, arg) ==
  [type |-> type, project |-> theProject, thread |-> theThread,
   source |-> NoThread, arg |-> arg]

\* Two creations of the same thread under different identifiers compete, and
\* starting a turn stands for two events; a session, a plan and a revert change
\* what later commands are allowed to do.
CommandTable ==
  newProject     :> [OnThread("project.create", "none") EXCEPT !.thread = NoThread]
  @@ newThread      :> OnThread("thread.create", "none")
  @@ newThreadAgain :> OnThread("thread.create", "none")
  @@ startTurn      :> OnThread("thread.turn.start", "none")
  @@ sessionRuns    :> OnThread("thread.session.set", "running")
  @@ savePlan       :> OnThread("thread.proposed-plan.upsert", "none")
  @@ startFromPlan  :> [OnThread("thread.turn.start", "none") EXCEPT !.source = theThread]
  @@ reverted       :> OnThread("thread.revert.complete", "dropsPlan")

MCCommandOf == [c \in Commands |-> CommandTable[c]]

-----------------------------------------------------------------------------

VARIABLE offered      \* offered[k]: the commands fiber k may dispatch

Raced == {{newProject, newThread, newThreadAgain}, {newProject, newThread, startTurn}}
Guarded == {{newProject, newThread, sessionRuns, reverted, startTurn},
            {newProject, newThread, savePlan, reverted, startFromPlan}}
Published == {newProject, newThread, savePlan}

To(fibers, commands) ==
  [k \in Fibers |-> IF k \in fibers THEN commands ELSE {}]

\* Nothing tells the callers apart.
aCaller == CHOOSE k \in Callers : TRUE

Races == {To(Callers, commands) : commands \in Raced}
Guards == {To({aCaller}, commands) : commands \in Guarded}
Publications == {To({aCaller} \cup Reactors, Published)}

\* Where it is not the races that matter, the project and the thread are created
\* first, and a command is only dispatched until it is answered.
Due(c) ==
  offered \notin Races =>
    /\ receipts[c] = NoReceipt
    /\ c # newProject => receipts[newProject] # NoReceipt
    /\ c \notin {newProject, newThread} => receipts[newThread] # NoReceipt

\* Where it is not the publication that matters, no client is connected, and
\* reactors are through with an event before anything else happens.
Lagging ==
  /\ offered \notin Publications
  /\ \E r \in Reactors : inbox[r] # << >> \/ backlog[r] > 0

MCNext ==
  /\ IF Lagging THEN \E r \in Reactors : Consume(r) \/ Handled(r) ELSE Next
  /\ \A k \in Fibers :
       call'[k] \notin {call[k], Nobody} => call'[k] \in offered[k] /\ Due(call'[k])
  /\ offered \notin Publications => clients' = {}
  /\ UNCHANGED offered

MCInit == Init /\ offered \in Races \cup Guards \cup Publications

MCFairSpec == MCInit /\ [][MCNext]_<<vars, offered>> /\ Fairness

=============================================================================
