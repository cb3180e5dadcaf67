---------------------------- MODULE RequestsProofs ----------------------------
(***************************************************************************)
(* Theorems about the gate of commands and the bootstrap of first turns,   *)
(* for every set of requests and threads, whatever the bootstraps ask for, *)
(* and any number of faults.                                               *)
(***************************************************************************)
EXTENDS Requests, TLAPS

-----------------------------------------------------------------------------
(* The steps of a bootstrap                                                *)

StepNames == {"create", "worktree", "meta", "setup", "turn"}

\* A set of steps that ends with the last one has a first one.
LEMMA FirstOfFive ==
  ASSUME NEW asked \in SUBSET (1 .. 5), 5 \in asked
  PROVE  \E j \in asked : \A k \in asked : j <= k
<1>1. CASE 1 \in asked
  BY <1>1
<1>2. CASE 1 \notin asked /\ 2 \in asked
  BY <1>2
<1>3. CASE 1 \notin asked /\ 2 \notin asked /\ 3 \in asked
  BY <1>3
<1>4. CASE 1 \notin asked /\ 2 \notin asked /\ 3 \notin asked /\ 4 \in asked
  BY <1>4
<1>5. CASE 1 \notin asked /\ 2 \notin asked /\ 3 \notin asked /\ 4 \notin asked
  BY <1>5
<1> QED
  BY <1>1, <1>2, <1>3, <1>4, <1>5

\* Every bootstrap ends with the start of the turn, so that there is always a next step.
LEMMA FromIsStep ==
  ASSUME NEW r \in Requests, NEW i \in 1 .. 5
  PROVE  From(r, i) \in {Steps[j] : j \in i .. 5}
<1> DEFINE asked == {j \in i .. Len(Steps) : Asked(r, Steps[j])}
<1>1. Len(Steps) = 5 /\ Steps[5] = "turn"
  BY DEF Steps
<1>2. asked \in SUBSET (1 .. 5) /\ 5 \in asked
  BY <1>1 DEF Asked
<1>3. \E j \in asked : \A k \in asked : j <= k
  BY <1>2, FirstOfFive
<1>4. (CHOOSE j \in asked : \A k \in asked : j <= k) \in asked
  BY <1>3
<1> QED
  BY <1>1, <1>4 DEF From

\* What follows a step is another one, of the bootstrap, and never its first.
LEMMA NextStep ==
  ASSUME NEW r \in Requests
  PROVE  /\ First(r) \in StepNames
         /\ \A step \in {"create", "worktree", "meta", "setup"} :
              From(r, StepNumber(step) + 1) \in StepNames \ {"create"}
<1>1. /\ Steps[1] = "create" /\ Steps[2] = "worktree" /\ Steps[3] = "meta"
      /\ Steps[4] = "setup" /\ Steps[5] = "turn"
      /\ DOMAIN Steps = 1 .. 5
  BY DEF Steps
<1>2. First(r) \in StepNames
  BY <1>1, FromIsStep DEF First, StepNames
<1>3. ASSUME NEW i \in 1 .. 4
      PROVE  StepNumber(Steps[i]) = i
  BY <1>1 DEF StepNumber
<1>4. ASSUME NEW i \in 1 .. 4
      PROVE  From(r, i + 1) \in StepNames \ {"create"}
  BY <1>1, FromIsStep, i + 1 \in 1 .. 5 DEF StepNames
<1> QED
  BY <1>1, <1>2, <1>3, <1>4

-----------------------------------------------------------------------------
(* The inductive invariant                                                 *)

\* A request is held back once, in the queue or by the worker, and was sent before.
HeldOnce ==
  /\ \A i, j \in DOMAIN queue : queue[i] = queue[j] => i = j
  /\ \A i \in DOMAIN queue : queue[i] # worker
  /\ worker \in Requests => at[worker] # "unsent"

MadeIsThere ==
  \A t \in Threads : maker[t] # NoRequest => thread[t] # "absent" /\ ThreadOf[maker[t]] = t

\* What has become of a thread its bootstrap made, unless a fault struck it.
Fate(d) ==
  \A t \in Threads : maker[t] = d /\ d \notin faulted =>
    /\ at[d] \notin {"unsent", "held", "create"}
    /\ at[d] \in StepNames => d \in created /\ thread[t] = "present" /\ d \notin turns
    /\ at[d] = "cleanup" => thread[t] = "present" /\ d \notin turns
    /\ at[d] = "done" => (thread[t] = "present" <=> d \in turns)

\* Only a request that created its thread cleans up.
Careful(d) ==
  /\ d \in created => maker[ThreadOf[d]] = d
  /\ at[d] = "cleanup" => d \in created
  /\ d \in turns => at[d] \in {"cleanup", "done"}
  /\ Fate(d)

IInv ==
  TypeOK /\ HeldOnce /\ NothingBeforeReady /\ MadeIsThere /\ \A d \in Requests : Careful(d)

\* Where a request can be: at a step, or somewhere else.
LEMMA PlacesSplit == Places = {"unsent", "held", "cleanup", "done"} \cup StepNames
BY DEF Places, StepNames, Steps

-----------------------------------------------------------------------------
(* What a committed command does                                           *)

\* To a request whose command it is not, nothing.
Aside(d) ==
  /\ \A t \in Threads : /\ maker'[t] = d <=> maker[t] = d
                        /\ maker[t] = d => thread'[t] = thread[t]
  /\ d \in turns' <=> d \in turns

\* A commit for one request changes nothing that another is responsible for.
LEMMA CommitAside ==
  ASSUME IInv, NEW r \in Requests, Commit(r), NEW d \in Requests, d # r
  PROVE  Aside(d)
<1> DEFINE t == ThreadOf[r]
<1>1. t \in Threads /\ d # NoRequest
  BY RequestsAssumption
<1>2. at[r] = "create" => maker[t] = NoRequest
  BY <1>1 DEF Commit, Allowed, IInv, MadeIsThere
<1>3. at[r] = "cleanup" => maker[t] = r
  BY DEF IInv, Careful
<1>4. maker \in [Threads -> Requests \cup {NoRequest}] /\ thread \in [Threads -> {"absent", "present", "deleted"}]
  BY DEF IInv, TypeOK
<1>5. /\ maker' = IF at[r] = "create" THEN [maker EXCEPT ![t] = r] ELSE maker
      /\ thread' = [thread EXCEPT ![t] = CASE at[r] = "create" -> "present"
                                           [] at[r] = "cleanup" -> "deleted"
                                           [] OTHER -> @]
      /\ turns' = IF at[r] = "turn" THEN turns \cup {r} ELSE turns
  BY DEF Commit
<1>6. CASE at[r] = "create"
  BY <1>1, <1>2, <1>4, <1>5, <1>6 DEF Aside
<1>7. CASE at[r] = "cleanup"
  BY <1>1, <1>3, <1>4, <1>5, <1>7 DEF Aside
<1>8. CASE at[r] \notin {"create", "cleanup"}
  BY <1>1, <1>4, <1>5, <1>8 DEF Aside
<1> QED
  BY <1>6, <1>7, <1>8

\* To its own thread, what it says; and whatever is made is there.
LEMMA CommitOwn ==
  ASSUME IInv, NEW r \in Requests, Commit(r)
  PROVE  LET t == ThreadOf[r]
         IN /\ t \in Threads
            /\ thread' \in [Threads -> {"absent", "present", "deleted"}]
            /\ maker' \in [Threads -> Requests \cup {NoRequest}]
            /\ turns' \subseteq Requests
            /\ MadeIsThere'
            /\ at[r] = "create" => maker'[t] = r /\ thread'[t] = "present" /\ r \notin turns'
            /\ at[r] = "cleanup" => thread'[t] = "deleted" /\ maker' = maker /\ turns' = turns
            /\ at[r] = "turn" => thread' = thread /\ maker' = maker /\ r \in turns'
            /\ at[r] = "meta" => thread' = thread /\ maker' = maker /\ turns' = turns
<1> DEFINE t == ThreadOf[r]
<1>1. t \in Threads /\ r # NoRequest
  BY RequestsAssumption
<1>2. /\ maker \in [Threads -> Requests \cup {NoRequest}]
      /\ thread \in [Threads -> {"absent", "present", "deleted"}]
      /\ turns \subseteq Requests
      /\ r \in turns => at[r] \in {"cleanup", "done"}
  BY DEF IInv, TypeOK, Careful
<1>3. /\ maker' = IF at[r] = "create" THEN [maker EXCEPT ![t] = r] ELSE maker
      /\ thread' = [thread EXCEPT ![t] = CASE at[r] = "create" -> "present"
                                           [] at[r] = "cleanup" -> "deleted"
                                           [] OTHER -> @]
      /\ turns' = IF at[r] = "turn" THEN turns \cup {r} ELSE turns
  BY DEF Commit
<1>4. at[r] \in {"create", "meta", "turn", "cleanup"}
  BY DEF Commit, Allowed
<1>5. MadeIsThere
  BY DEF IInv
<1>6. at[r] = "create" =>
        /\ maker' = [maker EXCEPT ![t] = r] /\ thread' = [thread EXCEPT ![t] = "present"]
        /\ turns' = turns /\ r \notin turns
  BY <1>2, <1>3
<1>7. at[r] = "cleanup" =>
        maker' = maker /\ thread' = [thread EXCEPT ![t] = "deleted"] /\ turns' = turns
  BY <1>3
<1>8. at[r] = "turn" => maker' = maker /\ thread' = thread /\ turns' = turns \cup {r}
  BY <1>2, <1>3
<1>9. at[r] = "meta" => maker' = maker /\ thread' = thread /\ turns' = turns
  BY <1>2, <1>3
<1> HIDE DEF t
<1>10. /\ thread' \in [Threads -> {"absent", "present", "deleted"}]
       /\ maker' \in [Threads -> Requests \cup {NoRequest}]
       /\ turns' \subseteq Requests
  BY <1>1, <1>2, <1>4, <1>6, <1>7, <1>8, <1>9
<1>11. MadeIsThere'
  <2>1. CASE at[r] = "create"
    BY <1>1, <1>2, <1>5, <1>6, <2>1 DEF MadeIsThere, t
  <2>2. CASE at[r] = "cleanup"
    BY <1>1, <1>2, <1>5, <1>7, <2>2 DEF MadeIsThere
  <2>3. CASE at[r] \in {"turn", "meta"}
    BY <1>5, <1>8, <1>9, <2>3 DEF MadeIsThere
  <2> QED
    BY <1>4, <2>1, <2>2, <2>3
<1>12. at[r] = "create" => maker'[t] = r /\ thread'[t] = "present" /\ r \notin turns'
  BY <1>1, <1>2, <1>6
<1>13. at[r] = "cleanup" => thread'[t] = "deleted"
  BY <1>1, <1>2, <1>7
<1> QED
  BY <1>1, <1>7, <1>8, <1>9, <1>10, <1>11, <1>12, <1>13 DEF t

\* A request that is where it was, and whose thread is as it was, is still careful.
LEMMA StillCareful ==
  ASSUME IInv, NEW d \in Requests, Aside(d), at'[d] = at[d],
         d \in created' <=> d \in created,
         d \in faulted => d \in faulted'
  PROVE  Careful(d)'
<1>1. ThreadOf[d] \in Threads /\ Careful(d)
  BY RequestsAssumption DEF IInv
<1> QED
  BY <1>1 DEF Careful, Fate, Aside

-----------------------------------------------------------------------------
(* Steps of a request that is carried out                                  *)

\* What a step may set, but for the gate.
DataOK ==
  /\ answer \in [Requests -> {"none", "accepted", "failed"}]
  /\ created \subseteq Requests /\ gone \subseteq Requests /\ turns \subseteq Requests
  /\ thread \in [Threads -> {"absent", "present", "deleted"}]
  /\ maker \in [Threads -> Requests \cup {NoRequest}]
  /\ faulted \subseteq Requests /\ left \in 0 .. MaxFaults

\* A request that runs moves on, and leaves gate and other requests alone.
LEMMA RunnerMoves ==
  ASSUME IInv, NEW r \in Requests, at[r] \notin {"unsent", "held", "done"},
         NEW p \in Places \ {"unsent"}, GoTo(r, p), UNCHANGED <<gate, parts>>, DataOK', MadeIsThere',
         Careful(r)', \A d \in Requests \ {r} : Careful(d)'
  PROVE  IInv'
<1>1. /\ at \in [Requests -> Places] /\ queue \in Seq(Requests)
      /\ \A i \in DOMAIN queue : queue[i] \in Requests /\ at[queue[i]] = "held"
  BY DEF IInv, TypeOK
<1>2. at' \in [Requests -> Places] /\ \A i \in DOMAIN queue' : at'[queue'[i]] = "held"
  BY <1>1 DEF GoTo, gate
<1>3. TypeOK'
  BY <1>2 DEF IInv, TypeOK, DataOK, gate
<1>4. HeldOnce'
  BY <1>1 DEF IInv, HeldOnce, gate, GoTo
<1>5. NothingBeforeReady'
  BY DEF IInv, NothingBeforeReady, Running, gate
<1> QED
  BY <1>3, <1>4, <1>5 DEF IInv

\* Where a step leads: to the next one, or where it failed.
LEMMA Leads ==
  ASSUME IInv, NEW r \in Requests
  PROVE  /\ Fails(r) /\ r \in created => GoTo(r, "cleanup") /\ answer' = answer
         /\ Fails(r) /\ r \notin created => Finish(r, "failed")
         /\ at[r] \in {"create", "worktree", "meta", "setup"} /\ Proceed(r) =>
              answer' = answer /\ \E p \in StepNames \ {"create"} : GoTo(r, p)
BY NextStep DEF Fails, CleanedUp, Proceed

\* An answer that is given, or not, has its type.
LEMMA AnswerType ==
  ASSUME IInv, NEW r \in Requests, NEW x \in {"accepted", "failed"},
         answer' = answer \/ Finish(r, x)
  PROVE  answer' \in [Requests -> {"none", "accepted", "failed"}]
BY DEF IInv, TypeOK, Finish

\* A request that goes somewhere is there, and the others are where they were.
LEMMA Moved ==
  ASSUME IInv, NEW r \in Requests, NEW p, GoTo(r, p)
  PROVE  at'[r] = p /\ \A d \in Requests \ {r} : at'[d] = at[d]
BY DEF IInv, TypeOK, GoTo

\* A fault is counted, and whom it strikes is remembered.
LEMMA FaultType ==
  ASSUME IInv, NEW struck \in SUBSET Requests, Fault(struck)
  PROVE  /\ faulted' \subseteq Requests /\ struck \subseteq faulted' /\ faulted \subseteq faulted'
         /\ left' \in 0 .. MaxFaults
BY RequestsAssumption DEF IInv, TypeOK, Fault

\* A step without a commit leaves every request aside.
LEMMA NothingCommitted ==
  ASSUME IInv, UNCHANGED engine
  PROVE  /\ MadeIsThere' /\ \A d \in Requests : Aside(d)
         /\ thread' \in [Threads -> {"absent", "present", "deleted"}]
         /\ maker' \in [Threads -> Requests \cup {NoRequest}] /\ turns' \subseteq Requests
BY DEF IInv, TypeOK, MadeIsThere, Aside, engine

\* A command that is committed and acknowledged (dispatch in bootstrapProgram).
LEMMA DispatchedKeeps ==
  ASSUME IInv, NEW r \in Requests, Dispatched(r)
  PROVE  IInv'
<1> DEFINE t == ThreadOf[r]
<1>1. at[r] \in {"create", "meta", "turn"} /\ Commit(r)
  BY DEF Dispatched, Dispatching
<1>2. \A d \in Requests \ {r} : Aside(d)
  BY <1>1, CommitAside
<1>3. /\ t \in Threads /\ MadeIsThere'
      /\ thread' \in [Threads -> {"absent", "present", "deleted"}]
      /\ maker' \in [Threads -> Requests \cup {NoRequest}] /\ turns' \subseteq Requests
      /\ at[r] = "create" => maker'[t] = r /\ thread'[t] = "present" /\ r \notin turns'
      /\ at[r] = "turn" => thread' = thread /\ maker' = maker /\ r \in turns'
      /\ at[r] = "meta" => thread' = thread /\ maker' = maker /\ turns' = turns
  BY <1>1, CommitOwn
<1>4. /\ created' = IF at[r] = "create" THEN created \cup {r} ELSE created
      /\ UNCHANGED <<gate, parts, gone, faulted, left>>
  BY DEF Dispatched, faults
<1>5. PICK p \in (StepNames \ {"create"}) \cup {"done"} :
        /\ GoTo(r, p)
        /\ p = "done" <=> at[r] = "turn"
        /\ answer' = answer \/ Finish(r, "accepted")
  <2>1. CASE at[r] = "turn"
    BY <2>1 DEF Dispatched, Finish
  <2>2. CASE at[r] # "turn"
    BY <1>1, <2>2, Leads DEF Dispatched, StepNames
  <2> QED
    BY <2>1, <2>2
<1>6. at'[r] = p /\ \A d \in Requests \ {r} : at'[d] = at[d]
  BY <1>5, Moved
<1>7. DataOK'
  BY <1>3, <1>4, <1>5, AnswerType DEF DataOK, IInv, TypeOK
<1>8. \A d \in Requests \ {r} : Careful(d)'
  BY <1>2, <1>4, <1>6, StillCareful
<1>9. Careful(r) /\ MadeIsThere
  BY DEF IInv
<1>10. Careful(r)'
  <2>1. CASE at[r] = "create"
    <3>1. \A u \in Threads : maker'[u] = r => u = t
      BY <1>3, RequestsAssumption DEF MadeIsThere
    <3>2. p \in StepNames /\ p # "create" /\ r \in created'
      BY <1>4, <1>5, <2>1
    <3> QED
      BY <1>3, <1>6, <2>1, <3>1, <3>2 DEF Careful, Fate, StepNames
  <2>2. CASE at[r] = "meta"
    BY <1>3, <1>4, <1>5, <1>6, <1>9, <2>2 DEF Careful, Fate, StepNames
  <2>3. CASE at[r] = "turn"
    BY <1>3, <1>4, <1>5, <1>6, <1>9, <2>3 DEF Careful, Fate, StepNames
  <2> QED
    BY <1>1, <2>1, <2>2, <2>3
<1>11. p \in Places \ {"unsent"}
  BY PlacesSplit DEF StepNames
<1> QED
  BY <1>1, <1>3, <1>4, <1>5, <1>7, <1>8, <1>10, <1>11, RunnerMoves

\* A step that fails, and had no effect.
LEMMA FailedKeeps ==
  ASSUME IInv, NEW r \in Requests, at[r] \in StepNames, Fails(r),
         UNCHANGED <<gate, parts, created, gone, engine, faults>>
  PROVE  IInv'
<1>1. /\ MadeIsThere' /\ Aside(r) /\ \A d \in Requests \ {r} : Aside(d)
      /\ thread' \in [Threads -> {"absent", "present", "deleted"}]
      /\ maker' \in [Threads -> Requests \cup {NoRequest}] /\ turns' \subseteq Requests
  BY NothingCommitted
<1>2. PICK p \in {"cleanup", "done"} :
        /\ GoTo(r, p)
        /\ p = "cleanup" <=> r \in created
        /\ answer' = answer \/ Finish(r, "failed")
  BY Leads DEF Finish
<1>3. at'[r] = p /\ \A d \in Requests \ {r} : at'[d] = at[d]
  BY <1>2, Moved
<1>4. DataOK'
  BY <1>1, <1>2, AnswerType DEF DataOK, IInv, TypeOK, faults
<1>5. \A d \in Requests \ {r} : Careful(d)'
  BY <1>1, <1>3, StillCareful DEF faults
<1>6. Careful(r)'
  BY <1>1, <1>2, <1>3 DEF IInv, Careful, Fate, StepNames, Aside, engine, faults
<1>7. p \in Places \ {"unsent"}
  BY PlacesSplit DEF StepNames
<1> QED
  BY <1>1, <1>2, <1>4, <1>5, <1>6, <1>7, RunnerMoves DEF StepNames

\* A step that succeeds, and says nothing to the engine.
LEMMA ProceedKeeps ==
  ASSUME IInv, NEW r \in Requests, at[r] \in {"worktree", "setup"}, Proceed(r),
         UNCHANGED <<gate, parts, created, gone, engine, faults>>
  PROVE  IInv'
<1>1. /\ MadeIsThere' /\ Aside(r) /\ \A d \in Requests \ {r} : Aside(d)
      /\ thread' \in [Threads -> {"absent", "present", "deleted"}]
      /\ maker' \in [Threads -> Requests \cup {NoRequest}] /\ turns' \subseteq Requests
  BY NothingCommitted
<1>2. PICK p \in StepNames \ {"create"} : GoTo(r, p) /\ answer' = answer
  BY Leads
<1>3. at'[r] = p /\ \A d \in Requests \ {r} : at'[d] = at[d]
  BY <1>2, Moved
<1>4. DataOK'
  BY <1>1, <1>2 DEF DataOK, IInv, TypeOK, faults
<1>5. \A d \in Requests \ {r} : Careful(d)'
  BY <1>1, <1>3, StillCareful DEF faults
<1>6. Careful(r)'
  BY <1>1, <1>2, <1>3 DEF IInv, Careful, Fate, StepNames, Aside, engine, faults
<1>7. p \in Places \ {"unsent"}
  BY PlacesSplit DEF StepNames
<1> QED
  BY <1>1, <1>2, <1>4, <1>5, <1>6, <1>7, RunnerMoves

\* A fault strikes a request: whatever the engine made of its command, it ends there or
\* cleans up.
LEMMA StruckKeeps ==
  ASSUME IInv, NEW r \in Requests, at[r] \notin {"unsent", "held", "done"},
         NEW p \in {"cleanup", "done"}, GoTo(r, p), p = "cleanup" => r \in created,
         answer' = answer \/ Finish(r, "failed"),
         gone' \in SUBSET Requests,
         Fault({r}), Commit(r) \/ UNCHANGED engine,
         UNCHANGED <<gate, parts, created>>
  PROVE  IInv'
<1>1. /\ MadeIsThere' /\ \A d \in Requests \ {r} : Aside(d)
      /\ thread' \in [Threads -> {"absent", "present", "deleted"}]
      /\ maker' \in [Threads -> Requests \cup {NoRequest}] /\ turns' \subseteq Requests
  BY NothingCommitted, CommitOwn, CommitAside
<1>2. r \in created => maker'[ThreadOf[r]] = r
  <2>1. CASE Commit(r)
    <3>1. at[r] = "create" => maker'[ThreadOf[r]] = r
      BY <2>1, CommitOwn
    <3>2. at[r] # "create" => maker' = maker
      BY <2>1 DEF Commit
    <3> QED
      BY <3>1, <3>2 DEF IInv, Careful
  <2>2. CASE UNCHANGED engine
    BY <2>2 DEF engine, IInv, Careful
  <2> QED
    BY <2>1, <2>2
<1>3. /\ faulted' \subseteq Requests /\ r \in faulted' /\ faulted \subseteq faulted'
      /\ left' \in 0 .. MaxFaults
  BY FaultType
<1>4. at'[r] = p /\ \A d \in Requests \ {r} : at'[d] = at[d]
  BY Moved
<1>5. answer' \in [Requests -> {"none", "accepted", "failed"}]
  BY AnswerType
<1>6. DataOK'
  BY <1>1, <1>3, <1>5 DEF DataOK, IInv, TypeOK
<1>7. \A d \in Requests \ {r} : Careful(d)'
  BY <1>1, <1>3, <1>4, StillCareful
<1>8. Careful(r)'
  BY <1>2, <1>3, <1>4 DEF Careful, Fate
<1>9. p \in Places \ {"unsent"}
  BY PlacesSplit
<1> QED
  BY <1>1, <1>6, <1>7, <1>8, <1>9, RunnerMoves

\* A command that is committed although its caller is told that it failed.
LEMMA UnacknowledgedKeeps ==
  ASSUME IInv, NEW r \in Requests, Unacknowledged(r)
  PROVE  IInv'
<1>1. at[r] \in {"create", "meta", "turn"} /\ Fails(r) /\ Fault({r}) /\ Commit(r)
  BY DEF Unacknowledged, Dispatching
<1>2. UNCHANGED <<gate, parts, created, gone>>
  BY DEF Unacknowledged
<1>3. gone' \in SUBSET Requests
  BY <1>2 DEF IInv, TypeOK
<1>4. PICK p \in {"cleanup", "done"} :
        /\ GoTo(r, p)
        /\ p = "cleanup" => r \in created
        /\ answer' = answer \/ Finish(r, "failed")
  BY <1>1, Leads DEF Finish
<1> QED
  BY <1>1, <1>2, <1>3, <1>4, StruckKeeps

\* A request whose connection is closed ends, with its command committed or not.
LEMMA InterruptedKeeps ==
  ASSUME IInv, NEW r \in Requests, Interrupted(r)
  PROVE  IInv'
<1>1. /\ at[r] \notin {"unsent", "held", "done"}
      /\ Fault({r}) /\ GoTo(r, "done")
      /\ Commit(r) \/ UNCHANGED engine
      /\ gone' = gone \cup {r} /\ UNCHANGED <<gate, parts, created, answer>>
  BY DEF Interrupted, Running
<1>2. gone' \in SUBSET Requests
  BY <1>1 DEF IInv, TypeOK
<1> QED
  BY <1>1, <1>2, StruckKeeps

\* The deletion of the created thread, whether it succeeds or not (cleanupCreatedThread).
LEMMA CleanupKeeps ==
  ASSUME IInv, NEW r \in Requests, Cleanup(r)
  PROVE  IInv'
<1> DEFINE t == ThreadOf[r]
<1>1. /\ at[r] = "cleanup" /\ Finish(r, "failed") /\ GoTo(r, "done")
      /\ UNCHANGED <<gate, parts, created, gone>>
  BY DEF Cleanup, Finish
<1>2. CASE Fault({r}) /\ UNCHANGED engine
  <2>1. gone' \in SUBSET Requests
    BY <1>1 DEF IInv, TypeOK
  <2> QED
    BY <1>1, <1>2, <2>1, StruckKeeps
<1>3. CASE Commit(r) /\ UNCHANGED faults
  <2>1. /\ t \in Threads /\ MadeIsThere'
        /\ thread' \in [Threads -> {"absent", "present", "deleted"}]
        /\ maker' \in [Threads -> Requests \cup {NoRequest}] /\ turns' \subseteq Requests
        /\ thread'[t] = "deleted" /\ maker' = maker /\ turns' = turns
    BY <1>1, <1>3, CommitOwn
  <2>2. \A d \in Requests \ {r} : Aside(d)
    BY <1>3, CommitAside
  <2>3. at'[r] = "done" /\ \A d \in Requests \ {r} : at'[d] = at[d]
    BY <1>1, Moved
  <2>4. answer' \in [Requests -> {"none", "accepted", "failed"}]
    BY <1>1, AnswerType
  <2>5. DataOK'
    BY <1>1, <1>3, <2>1, <2>4 DEF DataOK, IInv, TypeOK, faults
  <2>6. \A d \in Requests \ {r} : Careful(d)'
    BY <1>1, <1>3, <2>2, <2>3, StillCareful DEF faults
  <2>7. \A u \in Threads : maker[u] = r => u = t
    BY RequestsAssumption DEF IInv, MadeIsThere
  <2>8. Careful(r)'
    BY <1>1, <1>3, <2>1, <2>3, <2>7 DEF IInv, Careful, Fate, StepNames, faults
  <2>9. "done" \in Places \ {"unsent"}
    BY PlacesSplit
  <2> QED
    BY <1>1, <2>1, <2>5, <2>6, <2>8, <2>9, RunnerMoves
<1> QED
  BY <1>2, <1>3 DEF Cleanup

-----------------------------------------------------------------------------
(* Steps of the gate                                                       *)

\* A request that is sent is refused, begun or held back (enqueueCommand).
LEMMA SendKeeps ==
  ASSUME IInv, NEW r \in Requests, Send(r)
  PROVE  IInv'
<1>1. /\ at[r] = "unsent"
      /\ UNCHANGED <<readiness, worker, parts, created, gone, engine, faults>>
  BY DEF Send
<1>2. PICK p \in StepNames \cup {"held", "done"} :
        /\ GoTo(r, p)
        /\ answer' = answer \/ Finish(r, "failed")
        /\ queue' = IF p = "held" THEN Append(queue, r) ELSE queue
        /\ p \in StepNames => readiness = "ready"
  <2>1. First(r) \in StepNames
    BY NextStep
  <2> QED
    BY <2>1 DEF Send, Finish, StepNames
<1>3. at'[r] = p /\ \A d \in Requests \ {r} : at'[d] = at[d]
  BY <1>2, Moved
<1>4. p \in Places
  BY PlacesSplit
<1>5. /\ MadeIsThere' /\ \A d \in Requests : Aside(d)
      /\ thread' \in [Threads -> {"absent", "present", "deleted"}]
      /\ maker' \in [Threads -> Requests \cup {NoRequest}] /\ turns' \subseteq Requests
  BY <1>1, NothingCommitted
<1>6. answer' \in [Requests -> {"none", "accepted", "failed"}]
  BY <1>2, AnswerType
<1>7. /\ queue \in Seq(Requests) /\ Len(queue) \in Nat
      /\ \A i \in 1 .. Len(queue) : queue[i] \in Requests /\ at[queue[i]] = "held"
      /\ \A i \in 1 .. Len(queue) : queue[i] # r
  BY <1>1 DEF IInv, TypeOK
<1>8. /\ queue' \in Seq(Requests)
      /\ Len(queue') = IF p = "held" THEN Len(queue) + 1 ELSE Len(queue)
      /\ \A i \in 1 .. Len(queue) : queue'[i] = queue[i]
      /\ p = "held" => queue'[Len(queue) + 1] = r
  BY <1>2, <1>7
<1>9. \A i \in DOMAIN queue' : at'[queue'[i]] = "held"
  BY <1>3, <1>7, <1>8
<1>10. at' \in [Requests -> Places]
  BY <1>2, <1>4 DEF IInv, TypeOK, GoTo
<1>11. TypeOK'
  BY <1>1, <1>5, <1>6, <1>8, <1>9, <1>10 DEF IInv, TypeOK, faults
<1>12. worker # r
  BY <1>1 DEF IInv, HeldOnce
<1>13. HeldOnce'
  <2>1. /\ DOMAIN queue' = 1 .. Len(queue') /\ DOMAIN queue = 1 .. Len(queue)
        /\ \A i, j \in 1 .. Len(queue) : queue[i] = queue[j] => i = j
        /\ \A i \in 1 .. Len(queue) : queue[i] # worker
    BY <1>7, <1>8 DEF IInv, HeldOnce
  <2>2. \A i \in 1 .. Len(queue') : i \in 1 .. Len(queue) \/ (i = Len(queue) + 1 /\ queue'[i] = r)
    BY <1>7, <1>8
  <2>3. worker \in Requests => at'[worker] # "unsent"
    BY <1>3, <1>12 DEF IInv, HeldOnce
  <2> QED
    BY <1>1, <1>7, <1>8, <1>12, <2>1, <2>2, <2>3 DEF HeldOnce
<1>14. NothingBeforeReady'
  BY <1>1, <1>2, <1>3 DEF IInv, NothingBeforeReady, Running, StepNames
<1>15. \A d \in Requests \ {r} : Careful(d)'
  BY <1>1, <1>3, <1>5, StillCareful DEF faults
<1>16. Careful(r)'
  BY <1>1, <1>2, <1>3, <1>5 DEF IInv, Careful, Fate, engine, faults, StepNames
<1> QED
  BY <1>5, <1>11, <1>13, <1>14, <1>15, <1>16 DEF IInv

\* A step that leaves the requests and the engine alone.
LEMMA GateKeeps ==
  ASSUME IInv, TypeOK', HeldOnce', NothingBeforeReady',
         UNCHANGED <<at, created, engine, faulted>>
  PROVE  IInv'
<1>1. MadeIsThere' /\ \A d \in Requests : Aside(d)
  BY NothingCommitted
<1>2. \A d \in Requests : Careful(d)'
  BY <1>1, StillCareful
<1> QED
  BY <1>1, <1>2 DEF IInv

\* A client that is gone leaves the gate and the engine as they were.
LEMMA AbandonedKeeps ==
  ASSUME IInv, NEW r \in Requests, Abandoned(r)
  PROVE  IInv'
<1>1. /\ faulted' = faulted /\ left' \in 0 .. MaxFaults
  BY FaultType, {} \in SUBSET Requests DEF Abandoned, Fault
<1>2. TypeOK'
  BY <1>1 DEF IInv, TypeOK, Abandoned, gate, engine
<1>3. HeldOnce' /\ NothingBeforeReady'
  BY DEF IInv, HeldOnce, NothingBeforeReady, Running, Abandoned, gate
<1> QED
  BY <1>1, <1>2, <1>3, GateKeeps DEF Abandoned

\* The worker of the gate takes the request that was queued first.
LEMMA TakeKeeps ==
  ASSUME IInv, Take
  PROVE  IInv'
<1>1. /\ queue \in Seq(Requests) /\ queue # << >> /\ DOMAIN queue = 1 .. Len(queue)
      /\ \A i \in 1 .. Len(queue) : at[queue[i]] = "held"
      /\ \A i, j \in 1 .. Len(queue) : queue[i] = queue[j] => i = j
  BY DEF IInv, TypeOK, HeldOnce, Take
<1>2. /\ queue' = Tail(queue) /\ worker' = Head(queue)
      /\ UNCHANGED <<readiness, parts, at, created, answer, gone, engine, faults>>
  BY DEF Take
<1>3. /\ queue' \in Seq(Requests) /\ Len(queue') = Len(queue) - 1 /\ DOMAIN queue' = 1 .. Len(queue')
      /\ \A i \in 1 .. Len(queue') : queue'[i] = queue[i + 1]
      /\ Len(queue) \in Nat /\ Len(queue) > 0 /\ Head(queue) = queue[1] /\ queue[1] \in Requests
  BY <1>1, <1>2
<1>4. /\ \A i \in 1 .. Len(queue') : i + 1 \in 1 .. Len(queue)
      /\ 1 \in 1 .. Len(queue)
  BY <1>3
<1>5. TypeOK'
  <2>1. \A i \in DOMAIN queue' : at'[queue'[i]] = "held"
    BY <1>1, <1>2, <1>3, <1>4
  <2> QED
    BY <1>2, <1>3, <2>1 DEF IInv, TypeOK, engine, faults
<1>6. HeldOnce'
  <2>1. \A i, j \in DOMAIN queue' : queue'[i] = queue'[j] => i = j
    <3> SUFFICES ASSUME NEW i \in 1 .. Len(queue'), NEW j \in 1 .. Len(queue'), queue'[i] = queue'[j]
                 PROVE  i = j
      BY <1>3
    <3>1. i + 1 = j + 1
      BY <1>1, <1>3, <1>4
    <3> QED
      BY <3>1
  <2>2. \A i \in DOMAIN queue' : queue'[i] # worker'
    <3> SUFFICES ASSUME NEW i \in 1 .. Len(queue'), queue[i + 1] = queue[1]
                 PROVE  FALSE
      BY <1>2, <1>3
    <3>1. i + 1 = 1
      BY <1>1, <1>4
    <3> QED
      BY <3>1
  <2>3. at'[worker'] # "unsent"
    BY <1>1, <1>2, <1>3, <1>4
  <2> QED
    BY <2>1, <2>2, <2>3 DEF HeldOnce
<1>7. NothingBeforeReady'
  BY <1>2 DEF IInv, NothingBeforeReady, Running
<1> QED
  BY <1>2, <1>5, <1>6, <1>7, GateKeeps DEF faults

\* The worker begins with the request it took, or refuses it.
LEMMA WorkerKeeps ==
  ASSUME IInv, Begin \/ RefuseHeld
  PROVE  IInv'
<1>1. PICK r \in Requests : r = worker
  BY DEF IInv, TypeOK, Begin, RefuseHeld
<1>2. /\ at[r] = "held" /\ worker' = r
      /\ UNCHANGED <<gate, parts, created, gone, engine, faults>>
  BY <1>1 DEF Begin, RefuseHeld, gate
<1>3. PICK p \in StepNames \cup {"done"} :
        /\ GoTo(r, p)
        /\ answer' = answer \/ Finish(r, "failed")
        /\ p \in StepNames => readiness = "ready"
  <2>1. First(r) \in StepNames
    BY NextStep
  <2> QED
    BY <1>1, <2>1 DEF Begin, RefuseHeld, MayBegin, Finish, StepNames
<1>4. at'[r] = p /\ \A d \in Requests \ {r} : at'[d] = at[d]
  BY <1>2, <1>3, Moved
<1>5. p \in Places \ {"unsent"}
  BY PlacesSplit DEF StepNames
<1>6. /\ MadeIsThere' /\ \A d \in Requests : Aside(d)
      /\ thread' \in [Threads -> {"absent", "present", "deleted"}]
      /\ maker' \in [Threads -> Requests \cup {NoRequest}] /\ turns' \subseteq Requests
  BY <1>2, NothingCommitted
<1>7. answer' \in [Requests -> {"none", "accepted", "failed"}]
  BY <1>2, <1>3, AnswerType
<1>8. /\ queue \in Seq(Requests)
      /\ \A i \in DOMAIN queue : /\ queue[i] \in Requests /\ at[queue[i]] = "held"
                                 /\ queue[i] # r
  BY <1>1 DEF IInv, TypeOK, HeldOnce
<1>9. at' \in [Requests -> Places] /\ \A i \in DOMAIN queue' : at'[queue'[i]] = "held"
  BY <1>2, <1>3, <1>4, <1>5, <1>8 DEF IInv, TypeOK, GoTo, gate
<1>10. TypeOK'
  BY <1>2, <1>6, <1>7, <1>9 DEF IInv, TypeOK, gate, faults
<1>11. HeldOnce'
  BY <1>1, <1>2, <1>4, <1>5 DEF IInv, HeldOnce, gate
<1>12. NothingBeforeReady'
  BY <1>2, <1>3, <1>4 DEF IInv, NothingBeforeReady, Running, StepNames, gate
<1>13. \A d \in Requests \ {r} : Careful(d)'
  BY <1>2, <1>4, <1>6, StillCareful DEF faults
<1>14. Careful(r)'
  BY <1>2, <1>3, <1>4, <1>6 DEF IInv, Careful, Fate, engine, faults, StepNames
<1> QED
  BY <1>2, <1>6, <1>10, <1>11, <1>12, <1>13, <1>14 DEF IInv

\* The worker is free again when its request is done (settleQueuedCommand).
LEMMA SettleKeeps ==
  ASSUME IInv, Settle
  PROVE  IInv'
<1>1. worker' = NoRequest /\ UNCHANGED <<readiness, queue, parts, at, created, answer, gone, engine, faults>>
  BY DEF Settle
<1>2. TypeOK'
  BY <1>1 DEF IInv, TypeOK, engine, faults
<1>3. HeldOnce'
  <2>1. \A i \in DOMAIN queue : queue[i] # NoRequest
    BY RequestsAssumption DEF IInv, TypeOK
  <2> QED
    BY <1>1, <2>1, RequestsAssumption DEF IInv, HeldOnce
<1>4. NothingBeforeReady'
  BY <1>1 DEF IInv, NothingBeforeReady, Running
<1> QED
  BY <1>1, <1>2, <1>3, <1>4, GateKeeps DEF faults

\* The startup ends before anything runs (signalCommandReady, failCommandReady).
LEMMA StartupEndsKeeps ==
  ASSUME IInv, StartupEnds
  PROVE  IInv'
<1>1. /\ readiness = "pending" /\ readiness' \in {"ready", "failed"}
      /\ UNCHANGED <<queue, worker, parts, at, created, answer, gone, engine, faults>>
  BY DEF StartupEnds
<1>2. TypeOK' /\ HeldOnce'
  BY <1>1 DEF IInv, TypeOK, HeldOnce, engine, faults
<1>3. NothingBeforeReady'
  BY <1>1 DEF IInv, NothingBeforeReady, Running
<1> QED
  BY <1>1, <1>2, <1>3, GateKeeps DEF faults

\* After a restart nothing runs, and whoever was under way was struck by it.
LEMMA RestartKeeps ==
  ASSUME IInv, Restart
  PROVE  IInv'
<1> DEFINE lost == {r \in Requests : at[r] \notin {"unsent", "done"}}
<1>1. /\ Fault(lost) /\ lost \in SUBSET Requests
      /\ at' = [r \in Requests |-> IF r \in lost THEN "done" ELSE at[r]]
      /\ gone' = gone \cup lost
      /\ readiness' = "pending" /\ queue' = << >> /\ worker' = NoRequest /\ created' = {}
      /\ UNCHANGED <<parts, answer, engine>>
  BY DEF Restart
<1>2. /\ faulted' \subseteq Requests /\ lost \subseteq faulted' /\ faulted \subseteq faulted'
      /\ left' \in 0 .. MaxFaults
  BY <1>1, FaultType
<1>3. /\ MadeIsThere' /\ \A d \in Requests : Aside(d)
      /\ thread' \in [Threads -> {"absent", "present", "deleted"}]
      /\ maker' \in [Threads -> Requests \cup {NoRequest}] /\ turns' \subseteq Requests
  BY <1>1, NothingCommitted
<1>4. \A r \in Requests : at'[r] \in {"unsent", "done"}
  BY <1>1
<1>5. TypeOK'
  <2>1. at' \in [Requests -> Places]
    BY <1>1, PlacesSplit DEF IInv, TypeOK
  <2>2. queue' \in Seq(Requests) /\ DOMAIN queue' = {}
    BY <1>1
  <2>3. gone' \subseteq Requests
    BY <1>1 DEF IInv, TypeOK
  <2> QED
    BY <1>1, <1>2, <1>3, <2>1, <2>2, <2>3 DEF IInv, TypeOK
<1>6. HeldOnce'
  BY <1>1, RequestsAssumption DEF HeldOnce
<1>7. NothingBeforeReady'
  BY <1>4 DEF NothingBeforeReady, Running
<1>8. \A d \in Requests : Careful(d)'
  <2> SUFFICES ASSUME NEW d \in Requests
               PROVE  Careful(d)'
    OBVIOUS
  <2>1. CASE d \in lost
    BY <1>1, <1>2, <1>4, <2>1 DEF Careful, Fate
  <2>2. CASE d \notin lost
    BY <1>1, <1>2, <1>3, <2>2 DEF IInv, Careful, Fate, Aside, StepNames
  <2> QED
    BY <2>1, <2>2
<1> QED
  BY <1>3, <1>5, <1>6, <1>7, <1>8 DEF IInv

-----------------------------------------------------------------------------
(* The theorems                                                            *)

\* The invariant holds when the server starts for the first time.
LEMMA InductiveInit == Init => IInv
<1> SUFFICES ASSUME Init
             PROVE  IInv
  OBVIOUS
<1>1. queue \in Seq(Requests) /\ DOMAIN queue = {}
  BY DEF Init
<1>2. \A r \in Requests : at[r] = "unsent"
  BY DEF Init
<1>3. TypeOK
  BY <1>1, PlacesSplit, RequestsAssumption DEF Init, TypeOK
<1>4. HeldOnce
  BY <1>1, RequestsAssumption DEF Init, HeldOnce
<1>5. NothingBeforeReady
  BY <1>2 DEF NothingBeforeReady, Running
<1>6. MadeIsThere
  BY DEF Init, MadeIsThere
<1>7. \A d \in Requests : Careful(d)
  BY <1>2, RequestsAssumption DEF Init, Careful, Fate
<1> QED
  BY <1>3, <1>4, <1>5, <1>6, <1>7 DEF IInv

\* Every step keeps the invariant.
LEMMA InductiveStep ==
  ASSUME IInv, [Next]_vars
  PROVE  IInv'
<1>1. ASSUME NEW r \in Requests, Step(r)
      PROVE  IInv'
  <2>1. CASE Refused(r) \/ PrepareWorktree(r) \/ RunSetupScript(r)
    BY <2>1, FailedKeeps, ProceedKeeps
       DEF Refused, Dispatching, PrepareWorktree, RunSetupScript, StepNames
  <2> QED
    BY <1>1, <2>1, DispatchedKeeps, CleanupKeeps DEF Step
<1>2. ASSUME NEW r \in Requests,
             Send(r) \/ Unacknowledged(r) \/ Interrupted(r) \/ Abandoned(r)
      PROVE  IInv'
  BY <1>2, SendKeeps, UnacknowledgedKeeps, InterruptedKeeps, AbandonedKeeps
<1>3. CASE Gate
  BY <1>3, TakeKeeps, WorkerKeeps, SettleKeeps DEF Gate
<1>4. CASE StartupEnds \/ Restart
  BY <1>4, StartupEndsKeeps, RestartKeeps
<1>5. CASE UNCHANGED vars
  <2>1. TypeOK' /\ HeldOnce' /\ NothingBeforeReady'
    BY <1>5 DEF IInv, TypeOK, HeldOnce, NothingBeforeReady, Running, vars, gate, engine, faults
  <2> QED
    BY <1>5, <2>1, GateKeeps DEF vars, faults
<1> QED
  BY <1>1, <1>2, <1>3, <1>4, <1>5 DEF Next

\* The invariant that the other theorems rest on holds in every reachable state of the
\* gate and of the bootstraps (makeCommandGate, _dispatchBootstrapTurnStart).
THEOREM Inductive == Spec => []IInv
BY InductiveInit, InductiveStep, PTL DEF Spec

\* Every variable of the gate and of the requests keeps its type, and whatever is in
\* the queue is being held back.
THEOREM TypeCorrect == Spec => []TypeOK
<1>1. IInv => TypeOK
  BY DEF IInv
<1> QED
  BY <1>1, Inductive, PTL

\* No command is carried out before the startup has signalled that the server is ready
\* for commands, nor after it has failed (makeCommandGate).
THEOREM GateCorrect == Spec => []NothingBeforeReady
<1>1. IInv => NothingBeforeReady
  BY DEF IInv
<1> QED
  BY <1>1, Inductive, PTL

\* A bootstrap that was not struck by a fault leaves its thread exactly if its turn was
\* started (bootstrapProgram and cleanupCreatedThread).
THEOREM BootstrapCorrect == Spec => []AllOrNothing
<1>1. IInv => AllOrNothing
  BY DEF IInv, TypeOK, Careful, Fate, AllOrNothing
<1> QED
  BY <1>1, Inductive, PTL

\* The threads that failing bootstraps delete are their own, with several under way for
\* the same thread, and whichever answers of the engine are lost.
THEOREM CleanupCorrect == Spec => DeletesOnlyItsOwn
<1> DEFINE Own == \A t \in Threads :
                    thread[t] = "present" /\ thread'[t] = "deleted"
                      => \E r \in Requests : at[r] = "cleanup" /\ at'[r] = "done" /\ maker[t] = r
<1>1. IInv /\ [Next]_vars => [Own]_vars
  <2> SUFFICES ASSUME IInv, Next, NEW t \in Threads, thread[t] = "present", thread'[t] = "deleted"
               PROVE  \E r \in Requests : at[r] = "cleanup" /\ at'[r] = "done" /\ maker[t] = r
    OBVIOUS
  <2>1. PICK r \in Requests : /\ Commit(r)
                              /\ Dispatched(r) \/ Unacknowledged(r) \/ Cleanup(r) \/ Interrupted(r)
    BY DEF Next, Step, Gate, Send, Refused, PrepareWorktree, RunSetupScript, Cleanup, Dispatched,
           Unacknowledged, Interrupted, Abandoned, Take, Begin, RefuseHeld, Settle, StartupEnds,
           Restart, engine
  <2>2. at[r] = "cleanup" /\ t = ThreadOf[r]
    BY <2>1, RequestsAssumption DEF Commit, IInv, TypeOK
  <2>3. at'[r] = "done"
    BY <2>1, <2>2, Moved DEF Dispatched, Dispatching, Unacknowledged, Cleanup, Finish, Interrupted
  <2>4. maker[t] = r
    BY <2>2 DEF IInv, Careful
  <2> QED
    BY <2>2, <2>3, <2>4
<1> QED
  BY <1>1, Inductive, PTL DEF Spec, DeletesOnlyItsOwn

=============================================================================
