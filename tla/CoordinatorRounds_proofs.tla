---------------------- MODULE CoordinatorRounds_proofs ----------------------
(***************************************************************************)
(* What GraphCoordinator lets through its natural-order gate, for every    *)
(* plan and every mixture of callers, and what its thread may leave behind *)
(* when it goes to sleep or ends, for runs that are submitted once.        *)
(***************************************************************************)
EXTENDS CoordinatorOrder_proofs

-----------------------------------------------------------------------------
(* What a step does to the tasks.                                          *)

\* A task changes in a run that was taken up, and it ends, starts or is queued;
\* only a commit ends one well.
Moved ==
    \A u \in Tasks :
        \/ state'[u] = state[u]
        \/ /\ \/ phase[RunOf[u]] \in {"context", "resolved"}
              \/ phase'[RunOf[u]] = "context"
           /\ \/ /\ state'[u] \in Terminal
                 /\ state'[u] = "succeeded" => state[u] = "succeeded" \/ u \in todo
              \/ state[u] = "queued" /\ state'[u] = "running" /\ u \in updates
              \/ state[u] = "ready" /\ state'[u] = "queued" /\ u \in ready'

\* A task enters a queue from the state that waits for it.
Enqueued == \A u \in ready' \ ready : state[u] = "ready" /\ state'[u] = "queued"

\* A task is let go of when it ended, or its run did.
Released ==
    \A u \in Holding \ Holding' :
        state'[u] \in Terminal \/ phase'[RunOf[u]] # "context"

\* A plan's dependencies stay in one run, and so does what a failure stops.
LEMMA StoppedOwn ==
    ASSUME NEW st, NEW t \in Tasks, NEW u \in Stopped(st, t)
    PROVE  u \in Tasks /\ RunOf[u] = RunOf[t]
PROOF
<1> DEFINE B == {v \in Tasks : RunOf[v] = RunOf[t]}
<1>1. \A v \in Tasks :
          st[v] \notin Terminal /\ DependsOn[v] \cap (B \cup {t}) # {} => v \in B
  BY PlanAssumption
<1>2. B \in SUBSET Tasks
  OBVIOUS
<1> HIDE DEF B
<1>3. u \in B
  BY <1>1, <1>2 DEF Stopped
<1> QED
  BY <1>3 DEF B

\* _finish_error ends its task, touches no other run, and ends whatever it drops.
LEMMA FinishErrorEnds ==
    ASSUME TypeOK, NEW t \in Tasks, NEW active, NEW unsaved \in BOOLEAN,
           FinishError(t, active, unsaved)
    PROVE  /\ state'[t] \in Terminal
           /\ \A u \in Tasks : state'[u] # state[u] => RunOf[u] = RunOf[t]
           /\ ready' \subseteq ready
           /\ \A u \in Tasks \ active :
                 \/ u \in ready \ ready' \/ u \in held \ held'
                 \/ u \in waiting \ waiting' \/ u \in due \ due'
                 => state'[u] \in Terminal
PROOF
<1> DEFINE st == IF RunOf[t] \in cancelled THEN CancelAll(state, {t})
                 ELSE Fail(state, t)
<1>1. state \in [Tasks -> TaskStates]
  BY DEF TypeOK, GraphTypeOK
<1>2. /\ st \in [Tasks -> TaskStates] /\ st[t] \in Terminal
      /\ \A u \in Tasks : st[u] # state[u] => RunOf[u] = RunOf[t]
  <2>1. CASE RunOf[t] \in cancelled
    BY <1>1, <2>1, TransitionStates DEF CancelAll, Terminal
  <2>2. CASE RunOf[t] \notin cancelled
    <3>1. \A u \in Stopped(state, t) : u \in Tasks /\ RunOf[u] = RunOf[t]
      BY StoppedOwn
    <3>2. st = Fail(state, t)
      BY <2>2
    <3>3. st \in [Tasks -> TaskStates]
      BY <1>1, <3>2, TransitionStates
    <3> QED
      BY <1>1, <3>1, <3>2, <3>3 DEF Fail, Terminal
  <2> QED
    BY <2>1, <2>2
<1>3. \/ /\ state' = st /\ UNCHANGED <<ready, held>>
         /\ waiting' = waiting \ {t} /\ due' = due \ {t}
      \/ state' = Block(st, RunOf[t], active) /\ Forget(TasksOf(RunOf[t]))
  BY DEF FinishError
<1> HIDE DEF st
<1>4. CASE /\ state' = st /\ UNCHANGED <<ready, held>>
           /\ waiting' = waiting \ {t} /\ due' = due \ {t}
  BY <1>2, <1>4
<1>5. CASE state' = Block(st, RunOf[t], active) /\ Forget(TasksOf(RunOf[t]))
  <2>1. \A u \in Tasks : state'[u] = IF /\ u \in TasksOf(RunOf[t]) \ active
                                        /\ st[u] \in Admissible \cup {"running"}
                                     THEN "blocked" ELSE st[u]
    BY <1>5 DEF Block
  <2>2. state'[t] \in Terminal
    BY <1>2, <2>1 DEF Terminal
  <2>3. \A u \in Tasks : state'[u] # state[u] => RunOf[u] = RunOf[t]
    BY <1>2, <2>1 DEF TasksOf
  <2>4. \A u \in TasksOf(RunOf[t]) \ active : state'[u] \in Terminal
    BY <1>2, <2>1 DEF TaskStates, Terminal, Admissible, TasksOf
  <2> QED
    BY <1>5, <2>2, <2>3, <2>4 DEF Forget
<1> QED
  BY <1>3, <1>4, <1>5

\* A collected future leaves its task ended, held back or on its way to a commit.
LEMMA CollectMoves ==
    ASSUME Known, NEW t \in Tasks, Collect(t) PROVE Moved /\ Enqueued /\ Released
PROOF
<1> DEFINE r == RunOf[t]
           active == Active(r) \ {t}
<1>1. /\ t \in Futures /\ todo = {} /\ state[t] # "succeeded" /\ TypeOK
      /\ phase' = phase
      /\ t \notin ready \cup held \cup Pending
  BY WorkTypes DEF Collect, Known, WorkInv, Collected, Apart, Entitled, LoopInv,
                   Futures, Holding, runVars
<1>2. Futures' = Futures \ {t} /\ active \subseteq Futures'
  BY WorkTypes DEF Collect, Futures, Active
<1>3. CASE r \notin Contexts /\ UNCHANGED <<todo, state, ready, held, waiting, due>>
  BY <1>1, <1>2, <1>3, WorkTypes DEF Moved, Enqueued, Released, Holding, Contexts
<1>4. ASSUME r \in Contexts, UNCHANGED todo,
             state'[t] \in Terminal, ready' \subseteq ready,
             \A u \in Tasks : state'[u] # state[u] =>
                  RunOf[u] = r /\ state'[u] \in Terminal \ {"succeeded"},
             \A u \in Tasks \ active :
                 \/ u \in ready \ ready' \/ u \in held \ held'
                 \/ u \in waiting \ waiting' \/ u \in due \ due'
                 => state'[u] \in Terminal
      PROVE  Moved /\ Enqueued /\ Released
  <2>1. Moved /\ Enqueued
    BY <1>4 DEF Moved, Enqueued, Contexts
  <2>2. Released
    <3> SUFFICES ASSUME NEW u \in Holding \ Holding' PROVE state'[u] \in Terminal
      BY DEF Released
    <3>1. u \in Tasks /\ u \notin active
      BY <1>2, WorkTypes DEF Holding
    <3> QED
      BY <1>1, <1>2, <1>4, <3>1 DEF Holding
  <2> QED
    BY <2>1, <2>2
<1>5. CASE /\ r \in Contexts /\ UNCHANGED todo
           /\ state' = CancelAll(state, {t}) /\ UNCHANGED <<ready, held, waiting, due>>
  BY <1>4, <1>5, WorkTypes DEF CancelAll, Terminal
<1>6. CASE r \in Contexts /\ FinishError(t, active, FALSE) /\ UNCHANGED todo
  <2>1. /\ state'[t] \in Terminal
        /\ \A u \in Tasks : state'[u] # state[u] => RunOf[u] = r
        /\ ready' \subseteq ready
        /\ \A u \in Tasks \ active :
              \/ u \in ready \ ready' \/ u \in held \ held'
              \/ u \in waiting \ waiting' \/ u \in due \ due'
              => state'[u] \in Terminal
    BY <1>1, <1>6, FinishErrorEnds
  <2>2. \A u \in Tasks : /\ state'[u] = "succeeded" <=> state[u] = "succeeded"
                         /\ state'[u] \notin Terminal => state'[u] = state[u]
    BY <1>1, <1>6, FinishErrorEffect
  <2> QED
    BY <1>4, <1>6, <2>1, <2>2
<1>7. CASE /\ r \in Contexts /\ UNCHANGED todo
           /\ state' = Block(CancelAll(state, {t}), r, active) /\ Forget(TasksOf(r))
  <2>1. \A u \in Tasks : state'[u] =
            IF /\ u \in TasksOf(r) \ active
               /\ CancelAll(state, {t})[u] \in Admissible \cup {"running"}
            THEN "blocked" ELSE CancelAll(state, {t})[u]
    BY <1>7 DEF Block
  <2>2. CancelAll(state, {t}) \in [Tasks -> TaskStates]
    BY WorkTypes, TransitionStates
  <2>3. \A u \in Tasks : \/ CancelAll(state, {t})[u] = state[u]
                         \/ u = t /\ CancelAll(state, {t})[u] = "cancelled"
    BY DEF CancelAll
  <2>4. state'[t] \in Terminal
    BY <2>1, <2>2 DEF CancelAll, Terminal, TaskStates, TasksOf
  <2>5. \A u \in TasksOf(r) \ active : state'[u] \in Terminal
    BY <2>1, <2>2 DEF TaskStates, Terminal, Admissible, TasksOf
  <2>6. \A u \in Tasks : state'[u] # state[u] =>
            RunOf[u] = r /\ state'[u] \in Terminal \ {"succeeded"}
    BY <2>1, <2>3 DEF Terminal, TasksOf
  <2> QED
    BY <1>4, <1>7, <2>4, <2>5, <2>6 DEF Forget
<1>8. CASE /\ UNCHANGED <<state, ready, waiting, due>>
           /\ \/ todo' = {t} /\ UNCHANGED held
              \/ held' = held \cup {t} /\ UNCHANGED todo
  BY <1>1, <1>2, <1>8 DEF Moved, Enqueued, Released, Holding
<1> QED
  BY <1>3, <1>5, <1>6, <1>7, <1>8 DEF Collect
\* A result on its way ends its task, or waits for its destination.
LEMMA CommitMoves ==
    ASSUME Known, NEW t \in Tasks, Commit(t) PROVE Moved /\ Enqueued /\ Released
PROOF
<1> DEFINE r == RunOf[t]
<1>1. /\ t \in todo /\ todo' = todo \ {t} /\ UNCHANGED <<phase, future>>
      /\ Futures' = Futures
  BY DEF Commit, runVars, workerVars, Futures
<1>2. /\ t \in Holding /\ state[t] # "succeeded" /\ TypeOK
      /\ t \notin ready \cup held \cup Futures
      /\ phase[r] \in {"context", "resolved"}
  BY <1>1 DEF Known, WorkInv, Entitled, Apart, Owned, Holding
<1>3. CASE Committed(t)
  <2>1. \A v \in Dependants(t) : v \in Tasks /\ RunOf[v] = r
    BY PlanAssumption DEF Dependants
  <2>2. /\ state'[t] = "succeeded" /\ ready \subseteq ready' /\ held' = held
        /\ waiting' = waiting \ {t} /\ due' = due \ {t}
        /\ \A u \in Tasks \ {t} :
              \/ state'[u] = state[u]
              \/ /\ u \in Dependants(t) /\ u \in ready'
                 /\ state[u] = "ready" /\ state'[u] = "queued"
        /\ \A u \in ready' \ ready : /\ u \in Dependants(t) /\ u # t
                                     /\ state[u] = "ready" /\ state'[u] = "queued"
    <3>1. t \notin Dependants(t) \/ state[t] # "ready"
      BY <1>2 DEF Known, WorkInv, Entitled
    <3> QED
      BY <1>3, <3>1, WorkTypes DEF Committed, Freed, Dependants
  <2>3. Moved
    <3> SUFFICES ASSUME NEW u \in Tasks, state'[u] # state[u]
                 PROVE  /\ phase[RunOf[u]] \in {"context", "resolved"}
                        /\ \/ u = t /\ state'[u] = "succeeded"
                           \/ state[u] = "ready" /\ state'[u] = "queued" /\ u \in ready'
      BY <1>1 DEF Moved, Terminal
    <3> QED
      BY <1>2, <2>1, <2>2
  <2>4. Enqueued
    BY <2>2 DEF Enqueued
  <2>5. Released
    BY <1>1, <2>2 DEF Released, Holding, Terminal
  <2> QED
    BY <2>3, <2>4, <2>5
<1>4. ASSUME NEW unsaved \in BOOLEAN, FinishError(t, Active(r), unsaved)
      PROVE  Moved /\ Enqueued /\ Released
  <2>1. /\ state'[t] \in Terminal
        /\ \A u \in Tasks : state'[u] # state[u] => RunOf[u] = r
        /\ ready' \subseteq ready
        /\ \A u \in Tasks \ Active(r) :
              \/ u \in ready \ ready' \/ u \in held \ held'
              \/ u \in waiting \ waiting' \/ u \in due \ due'
              => state'[u] \in Terminal
    BY <1>2, <1>4, FinishErrorEnds
  <2>2. \A u \in Tasks : /\ state'[u] = "succeeded" <=> state[u] = "succeeded"
                         /\ state'[u] \notin Terminal => state'[u] = state[u]
    BY <1>2, <1>4, FinishErrorEffect
  <2>3. Moved /\ Enqueued
    BY <1>2, <2>1, <2>2 DEF Moved, Enqueued
  <2>4. Released
    <3> SUFFICES ASSUME NEW u \in Holding \ Holding' PROVE state'[u] \in Terminal
      BY DEF Released
    <3>1. u \in Tasks /\ u \notin Active(r)
      BY <1>1, WorkTypes DEF Holding, Active
    <3> QED
      BY <1>1, <2>1, <3>1 DEF Holding
  <2> QED
    BY <2>3, <2>4
<1>5. CASE Deferred(t)
  BY <1>1, <1>5 DEF Deferred, Moved, Enqueued, Released, Holding
<1>6. CASE /\ state' = [state EXCEPT ![t] = "blocked"]
           /\ UNCHANGED <<ready, held, waiting, due>>
  BY <1>1, <1>2, <1>6, WorkTypes DEF Moved, Enqueued, Released, Holding, Terminal
<1> QED
  BY <1>3, <1>4, <1>5, <1>6 DEF Commit

\* An admitted task has its future, or failed with the journal.
LEMMA AdmitMoves ==
    ASSUME Known, NEW t \in Tasks, Admit(t) PROVE Moved /\ Enqueued /\ Released
PROOF
<1>1. /\ t \in ready /\ ready' = ready \ {t} /\ RunOf[t] \in Contexts
      /\ UNCHANGED <<phase, held, waiting, due, todo>> /\ state[t] # "succeeded"
  BY DEF Admit, Candidate, runVars, loopVars, Known, WorkInv, Entitled, Holding
<1>2. CASE future' = [future EXCEPT ![t] = "pending"] /\ state' = state
  <2>1. Futures' = Futures \cup {t}
    BY <1>2, WorkTypes DEF Futures
  <2> QED
    BY <1>1, <1>2, <2>1 DEF Moved, Enqueued, Released, Holding
<1>3. CASE state' = Fail(state, t) /\ future' = future
  <2>1. \A u \in Stopped(state, t) : u \in Tasks /\ RunOf[u] = RunOf[t]
    BY StoppedOwn
  <2>2. \A u \in Tasks : \/ state'[u] = state[u]
                         \/ RunOf[u] = RunOf[t] /\ state'[u] \in {"failed", "blocked"}
    BY <1>3, <2>1 DEF Fail
  <2>3. state'[t] = "failed" /\ Futures' = Futures
    BY <1>3 DEF Fail, Futures
  <2>4. Moved
    BY <1>1, <2>2 DEF Moved, Contexts, Terminal
  <2> QED
    BY <1>1, <2>3, <2>4 DEF Enqueued, Released, Holding, Terminal
<1> QED
  BY <1>2, <1>3 DEF Admit

\* What a cancelled run or a pause drops had not started.
LEMMA CancelMoves ==
    ASSUME Known, (\E r \in Runs : CancelUnfinished(r)) \/ PauseContext
    PROVE  Moved /\ Enqueued /\ (Unstarted => Released)
PROOF
<1>1. ASSUME NEW r \in Runs, NEW S \in SUBSET TasksOf(r), r \in Contexts,
             state' = CancelAll(state, S), phase' = phase, ready' \subseteq ready,
             Unstarted => \A u \in Holding \ Holding' : u \in S
      PROVE  Moved /\ Enqueued /\ (Unstarted => Released)
  <2>1. \A u \in Tasks : /\ state'[u] = state[u] \/ (u \in S /\ state'[u] = "cancelled")
                         /\ u \in S => state'[u] \in Terminal
    BY <1>1 DEF CancelAll, Terminal
  <2>2. Moved
    BY <1>1, <2>1 DEF Moved, Contexts, TasksOf, Terminal
  <2>3. Unstarted => Released
    BY <1>1, <2>1 DEF Released, TasksOf
  <2> QED
    BY <1>1, <2>2, <2>3 DEF Enqueued
<1>2. ASSUME NEW r \in Runs, CancelUnfinished(r)
      PROVE  Moved /\ Enqueued /\ (Unstarted => Released)
  <2> DEFINE mine == TasksOf(r)
             withdrawn == {t \in mine : future[t] = "pending"}
             active == Active(r) \ withdrawn
             idle == {t \in mine \ active : state[t] \in Admissible}
             stopped == idle \cup withdrawn \cup ((held \cup Pending) \cap mine)
  <2>1. /\ future' = [t \in Tasks |-> IF t \in withdrawn THEN "none" ELSE future[t]]
        /\ state' = CancelAll(state, stopped)
        /\ Forget(mine) /\ UNCHANGED <<phase, todo>>
        /\ r \in Contexts
    BY <1>2 DEF CancelUnfinished, runVars, Known, LoopInv
  <2>2. stopped \subseteq mine
    BY DEF TasksOf
  <2>3. Futures' = Futures \ withdrawn
    BY <2>1, WorkTypes DEF Futures, TasksOf
  <2>4. Unstarted => \A u \in ready \cap mine : u \in idle
    <3> SUFFICES ASSUME Unstarted, NEW u \in ready, u \in mine PROVE u \in idle
      OBVIOUS
    <3>1. state[u] = "queued" /\ u \notin Futures
      BY <2>1 DEF Unstarted, TasksOf, Contexts, Known, WorkInv, Apart
    <3> QED
      BY <3>1 DEF Active, Admissible
  <2>5. ASSUME Unstarted, NEW u \in Holding \ Holding' PROVE u \in stopped
    <3>1. u \in withdrawn \/ (u \in mine /\ u \in ready \cup held \cup Pending)
      BY <2>1, <2>3, <2>5 DEF Holding, Forget, Pending
    <3> QED
      BY <2>4, <2>5, <3>1
  <2> HIDE DEF stopped
  <2> QED
    BY <1>1, <2>1, <2>2, <2>5 DEF Forget
<1>3. CASE PauseContext
  <2> DEFINE idle == {t \in TasksOf(at) : state[t] \in Admissible}
  <2>1. /\ at \in Contexts /\ at \in Runs
        /\ UNCHANGED <<phase, held, waiting, due, todo, future>> /\ Futures' = Futures
    BY <1>3 DEF PauseContext, runVars, Futures, Known, Advancing, LoopInv
  <2>2. CASE UNCHANGED <<state, ready>>
    BY <2>1, <2>2 DEF Moved, Enqueued, Released, Holding
  <2>3. CASE state' = CancelAll(state, idle) /\ ready' = ready \ TasksOf(at)
    <3>1. idle \in SUBSET TasksOf(at)
      OBVIOUS
    <3>2. Unstarted => \A u \in Holding \ Holding' : u \in idle
      BY <2>1, <2>3 DEF Holding, Unstarted, TasksOf, Contexts, Admissible
    <3> HIDE DEF idle
    <3> QED
      BY <1>1, <2>1, <2>3, <3>1, <3>2
  <2> QED
    BY <1>3, <2>2, <2>3 DEF PauseContext
<1> QED
  BY <1>2, <1>3

\* The other steps of a round, but the first, move tasks between tables or leave
\* them alone.
LEMMA RoundMoves ==
    ASSUME Known,
           \/ ApplyUpdates \/ (\E r \in Runs : BeginRelease(r)) \/ ForwardHeld
           \/ EndAdmit \/ DrainCompletions \/ Settle \/ Finish \/ Fault \/ FailAll
    PROVE  Moved /\ Enqueued /\ Released
PROOF
<1>1. /\ ready' \subseteq ready
      /\ \A u \in Tasks : \/ state'[u] = state[u]
                          \/ /\ phase[RunOf[u]] = "context" /\ u \in updates
                             /\ state[u] = "queued" /\ state'[u] = "running"
  BY DEF ApplyUpdates, BeginRelease, ForwardHeld, EndAdmit, DrainCompletions,
         Settle, Finish, Fault, FailAll, Forget, graphVars, Contexts
<1>2. Released
  <2>1. CASE ApplyUpdates \/ EndAdmit \/ DrainCompletions \/ Fault
    <3>1. /\ Futures' = Futures /\ UNCHANGED <<phase, held, waiting, due, todo>>
          /\ \A u \in ready \ ready' : RunOf[u] \notin Contexts
      BY <2>1, WorkTypes DEF ApplyUpdates, EndAdmit, DrainCompletions, Fault, Futures,
                             workerVars, graphVars, loopVars, runVars
    <3> QED
      BY <3>1, WorkTypes DEF Released, Holding, Contexts
  <2>2. CASE (\E r \in Runs : BeginRelease(r)) \/ ForwardHeld
    <3>1. /\ Futures' = Futures /\ UNCHANGED <<ready, waiting, due>> /\ todo = {}
          /\ held \ todo' \subseteq held'
      BY <2>2 DEF BeginRelease, ForwardHeld, Futures, workerVars, graphVars, Known, LoopInv
    <3> QED
      BY <3>1 DEF Released, Holding
  <2>3. CASE Settle \/ Finish
    <3>1. /\ Futures' = Futures /\ todo = {} /\ at \in Runs
          /\ \/ UNCHANGED <<ready, held, waiting, due>>
             \/ /\ phase' = [phase EXCEPT ![at] = "resolved"]
                /\ ready \ TasksOf(at) \subseteq ready' /\ held \ TasksOf(at) \subseteq held'
                /\ waiting \ TasksOf(at) \subseteq waiting'
                /\ due \ TasksOf(at) \subseteq due'
      BY <2>3 DEF Settle, Finish, Futures, workerVars, Forget, Known, LoopInv, Advancing
    <3> QED
      BY <3>1, WorkTypes DEF Released, Holding, TasksOf
  <2>4. CASE FailAll
    <3> DEFINE known == {r \in Runs : phase[r] \in {"inbox", "context"}}
    <3>1. /\ Futures' = Futures /\ UNCHANGED <<ready, todo>>
          /\ \A u \in Tasks :
                (u \in held \ held' \/ u \in waiting \ waiting' \/ u \in due \ due')
                => RunOf[u] \in known
          /\ \A r \in known : phase'[r] = "resolved"
      BY <2>4 DEF FailAll, Futures, workerVars, loopVars
    <3> QED
      BY <3>1, WorkTypes DEF Released, Holding
  <2> QED
    BY <2>1, <2>2, <2>3, <2>4
<1>3. Moved /\ Enqueued
  BY <1>1 DEF Moved, Enqueued
<1> QED
  BY <1>2, <1>3

\* Every step but a submission moves tasks in this way.
LEMMA StepMoves ==
    ASSUME Known, [Next]_vars, ~(\E r \in Runs : Submit(r))
    PROVE  Moved /\ Enqueued /\ (Unstarted => Released)
PROOF
<1>1. ASSUME NEW t \in Tasks, Collect(t) \/ Commit(t) \/ Admit(t)
      PROVE  Moved /\ Enqueued /\ Released
  BY <1>1, CollectMoves, CommitMoves, AdmitMoves
<1>2. CASE \/ (\E r \in Runs : CancelUnfinished(r)) \/ PauseContext
           \/ ApplyUpdates \/ (\E r \in Runs : BeginRelease(r)) \/ ForwardHeld
           \/ EndAdmit \/ DrainCompletions \/ Settle \/ Finish \/ Fault \/ FailAll
  BY <1>2, CancelMoves, RoundMoves
<1>3. CASE Accept
  <2>1. FirstTasks({r \in Runs : phase[r] = "inbox"}) \subseteq Tasks
    BY DEF FirstTasks
  <2>2. /\ UNCHANGED <<held, waiting, due, todo, future>> /\ Futures' = Futures
        /\ ready \subseteq ready'
        /\ \A u \in Tasks : \/ state'[u] = state[u]
                            \/ /\ phase'[RunOf[u]] = "context" /\ u \in ready'
                               /\ state[u] = "ready" /\ state'[u] = "queued"
        /\ \A u \in ready' \ ready : state[u] = "ready" /\ state'[u] = "queued"
    BY <1>3, <2>1, WorkTypes DEF Accept, FirstTasks, loopVars, workerVars, Futures
  <2> QED
    BY <2>2 DEF Moved, Enqueued, Released, Holding
<1>4. ASSUME NEW t \in Tasks, Worker(t) \/ Elapse(t)
      PROVE  Moved /\ Enqueued /\ Released
  <2>1. /\ Futures' = Futures /\ UNCHANGED <<state, ready, held, todo>>
        /\ Pending' = Pending
    BY <1>4, WorkTypes DEF Worker, WorkerStart, WorkerEnd, Elapse, Futures, Pending,
                           graphVars, workerVars, loopVars
  <2> QED
    BY <2>1 DEF Moved, Enqueued, Released, Holding, Pending
<1>5. CASE \/ Observe \/ BeginAdvance \/ ReportGroups \/ EndAdvance \/ TakeLimits
           \/ Exit \/ WakeUp \/ (\E r \in Runs : Cancel(r)) \/ SetBackground
           \/ Drain \/ Pause \/ Resume \/ Close \/ UNCHANGED vars
  <2>1. UNCHANGED <<state, ready, held, waiting, due, todo, future>>
    BY <1>5 DEF Observe, BeginAdvance, ReportGroups, EndAdvance, TakeLimits, Exit,
                WakeUp, Cancel, SetBackground, Drain, Pause, Resume, Close, vars,
                graphVars, workerVars, loopVars
  <2> QED
    BY <2>1 DEF Moved, Enqueued, Released, Holding, Futures
<1> QED
  BY <1>1, <1>2, <1>3, <1>4, <1>5 DEF Next, Coordinator, Callers
-----------------------------------------------------------------------------
(* The natural-order gate.                                                 *)

\* The gate stops at the first position that is not resolved, and moves only over
\* groups that are (NaturalOrderGate.skip).
LEMMA SkipOpens ==
    ASSUME NEW r \in Runs, NEW resolved, gateIndex[r] \in 1 .. Len(GroupsOf[r]) + 1
    PROVE  /\ Skip(r, resolved) \in OpenPositions(r, resolved)
           /\ \A j \in OpenPositions(r, resolved) : Skip(r, resolved) <= j
PROOF
<1> DEFINE last == Len(GroupsOf[r]) + 1
           open == OpenPositions(r, resolved)
<1>1. GroupsOf[r] \in Seq(Groups) /\ DOMAIN GroupsOf[r] = 1 .. Len(GroupsOf[r])
  BY PlanAssumption
<1>2. last \in open /\ open \subseteq Nat
  BY <1>1 DEF OpenPositions
<1>3. PICK k \in open : \A j \in open : ~(<<j, k>> \in OpToRel(<, Nat))
  BY <1>2, NatLessThanWellFounded, WFMin
<1>4. \A j \in open : k <= j
  <2>1. \A a, b \in Nat : a < b => <<a, b>> \in OpToRel(<, Nat)
    BY DEF OpToRel
  <2>2. \A j \in open : ~(j < k)
    BY <1>2, <1>3, <2>1
  <2> QED
    BY <1>2, <2>2
<1> QED
  BY <1>4 DEF Skip

LEMMA SkipPasses ==
    ASSUME NEW r \in Runs, NEW resolved, gateIndex[r] \in 1 .. Len(GroupsOf[r]) + 1,
           NEW i \in gateIndex[r] .. Skip(r, resolved) - 1
    PROVE  i \in DOMAIN GroupsOf[r] /\ GroupsOf[r][i] \in resolved
PROOF
<1> DEFINE last == Len(GroupsOf[r]) + 1
           open == OpenPositions(r, resolved)
<1>1. GroupsOf[r] \in Seq(Groups) /\ DOMAIN GroupsOf[r] = 1 .. Len(GroupsOf[r])
  BY PlanAssumption
<1>2. open \subseteq Nat /\ \A j \in open : Skip(r, resolved) <= j
  BY <1>1, SkipOpens DEF OpenPositions
<1>3. i \in gateIndex[r] .. last /\ i < Skip(r, resolved)
  BY <1>1, SkipInOrder
<1>4. i \notin open
  BY <1>2, <1>3, SkipInOrder
<1> QED
  BY <1>3, <1>4 DEF OpenPositions

\* A group belongs to the tasks of one run, at one position of its order.
LEMMA GroupsApart ==
    ASSUME NEW r \in Runs, NEW i \in DOMAIN GroupsOf[r]
    PROVE  /\ GroupsOf[r][i] \in GroupSet(r)
           /\ \A t \in TasksIn(GroupsOf[r][i]) : RunOf[t] = r
           /\ \A j \in DOMAIN GroupsOf[r] : GroupsOf[r][j] = GroupsOf[r][i] => j = i
           /\ \A q \in Runs : GroupsOf[r][i] \in GroupSet(q) => q = r
PROOF
<1>1. GroupsOf[r][i] \in GroupSet(r)
  BY DEF GroupSet
<1>2. \A q \in Runs : GroupsOf[r][i] \in GroupSet(q) => q = r
  <2>1. \A q \in Runs : r # q => GroupSet(r) \cap GroupSet(q) = {}
    BY GroupsAssumption
  <2> QED
    BY <1>1, <2>1
<1>3. \A t \in TasksIn(GroupsOf[r][i]) : RunOf[t] = r
  <2> SUFFICES ASSUME NEW t \in TasksIn(GroupsOf[r][i]) PROVE RunOf[t] = r
    OBVIOUS
  <2>1. /\ t \in Tasks /\ GroupOf[t] = GroupsOf[r][i]
        /\ GroupOf[t] \in GroupSet(RunOf[t]) /\ RunOf[t] \in Runs
    BY PlanAssumption, GroupsAssumption DEF TasksIn
  <2> QED
    BY <1>2, <2>1
<1>4. \A j \in DOMAIN GroupsOf[r] : GroupsOf[r][j] = GroupsOf[r][i] => j = i
  BY GroupsAssumption
<1> QED
  BY <1>1, <1>2, <1>3, <1>4

\* What the gate lets through is at or behind its position.
LEMMA ReleasedPassed ==
    ASSUME NEW t \in Tasks, CanRelease(t) PROVE Passed(t)
PROOF
  BY PlanAssumption, GroupsAssumption DEF CanRelease, Current, Passed

\* A step that moves neither the gate nor its reports keeps what the gate rests on,
\* as long as it admits no other result to a commit.
LEMMA GateFrame ==
    ASSUME GateInv, UNCHANGED <<terminal, gateIndex>>,
           \A u \in Tasks : state[u] \in Terminal => state'[u] \in Terminal,
           \A u \in (Pending \cup todo)' : u \in Pending \cup todo \/ Passed(u)
    PROVE  GateInv'
PROOF
<1>1. \A g : Ended(g) => Ended(g)'
  BY DEF Ended, TasksIn
<1>2. \A u : Passed(u) => Passed(u)'
  BY DEF Passed
<1> QED
  BY <1>1, <1>2 DEF GateInv

\* _report_terminal_groups: groups are called terminal when they are, and the gate
\* goes over those.
LEMMA GateReports ==
    ASSUME Known, GateInv, ReportGroups
    PROVE  /\ GateInv'
           /\ \A r \in Natural : \A i \in DOMAIN GroupsOf[r] :
                 GroupsOf[r][i] \in reported' =>
                    \/ GroupsOf[r][i] \in reported
                    \/ \A j \in 1 .. i - 1 : Ended(GroupsOf[r][j])
PROOF
<1> DEFINE newly == {g \in GroupSet(at) \ terminal :
                        \A t \in TasksIn(g) : state[t] \in Terminal}
           index == IF at \in Natural /\ newly # {}
                    THEN Skip(at, terminal \cup newly) ELSE gateIndex[at]
<1>1. /\ at \in Runs /\ UNCHANGED <<state, waiting, due, todo>>
      /\ terminal' = terminal \cup newly
      /\ gateIndex' = [gateIndex EXCEPT ![at] = index]
      /\ reported' = reported \cup
             (IF at \in Natural THEN {GroupsOf[at][i] : i \in gateIndex[at] .. index - 1}
              ELSE newly)
  BY DEF ReportGroups, Known, Advancing, graphVars, loopVars
<1>2. /\ gateIndex \in [Runs -> Nat] /\ Natural \subseteq Runs
      /\ \A r \in Runs : gateIndex[r] \in 1 .. Len(GroupsOf[r]) + 1
      /\ \A r \in Runs : Len(GroupsOf[r]) \in Nat
      /\ \A r \in Runs : DOMAIN GroupsOf[r] = 1 .. Len(GroupsOf[r])
  BY PlanAssumption DEF Known, TypeOK, GateTypeOK
<1>3. \A g \in terminal \cup newly : Ended(g)
  BY DEF GateInv, Ended
<1>4. /\ index \in gateIndex[at] .. Len(GroupsOf[at]) + 1
      /\ \A i \in gateIndex[at] .. index - 1 :
            i \in DOMAIN GroupsOf[at] /\ Ended(GroupsOf[at][i])
  <2>1. CASE at \in Natural /\ newly # {}
    <3>1. index = Skip(at, terminal \cup newly)
      BY <2>1
    <3>2. index \in gateIndex[at] .. Len(GroupsOf[at]) + 1
      BY <1>1, <1>2, <3>1, SkipInOrder
    <3>3. \A i \in gateIndex[at] .. index - 1 :
              i \in DOMAIN GroupsOf[at] /\ GroupsOf[at][i] \in terminal \cup newly
      BY <1>1, <1>2, <3>1, SkipPasses
    <3> QED
      BY <1>3, <3>2, <3>3
  <2>2. CASE ~(at \in Natural /\ newly # {})
    <3>1. index = gateIndex[at] /\ gateIndex[at] .. gateIndex[at] - 1 = {}
      BY <1>1, <1>2, <2>2
    <3> HIDE DEF index
    <3> QED
      BY <1>1, <1>2, <3>1
  <2> QED
    BY <2>1, <2>2
<1> HIDE DEF newly, index
<1>5. ASSUME NEW r \in Natural, NEW i \in 1 .. gateIndex'[r] - 1
      PROVE  Ended(GroupsOf[r][i])
  <2>1. CASE i \in 1 .. gateIndex[r] - 1
    BY <2>1 DEF GateInv
  <2>2. CASE i \notin 1 .. gateIndex[r] - 1
    <3>1. r = at /\ gateIndex'[r] = index /\ i \in gateIndex[at] .. index - 1
      BY <1>1, <1>2, <1>4, <1>5, <2>2
    <3> QED
      BY <1>4, <3>1
  <2> QED
    BY <2>1, <2>2
<1>6. ASSUME NEW u \in (Pending \cup todo)'
      PROVE  Passed(u)'
  <2>1. Passed(u) /\ u \in Tasks
    BY <1>1, <1>6, WorkTypes DEF GateInv, Pending, Holding
  <2>2. \A r \in Runs : gateIndex[r] <= gateIndex'[r] /\ gateIndex'[r] \in Int
    BY <1>1, <1>2, <1>4
  <2>3. RunOf[u] \in Runs
    BY <2>1, WorkTypes
  <2> QED
    BY <1>2, <2>1, <2>2, <2>3 DEF Passed
<1>7. GateInv'
  <2>1. \A g : Ended(g) => Ended(g)'
    BY <1>1 DEF Ended
  <2> QED
    BY <1>1, <1>3, <1>5, <1>6, <2>1 DEF GateInv
<1>8. ASSUME NEW r \in Natural, NEW i \in DOMAIN GroupsOf[r],
             GroupsOf[r][i] \in reported', GroupsOf[r][i] \notin reported
      PROVE  \A j \in 1 .. i - 1 : Ended(GroupsOf[r][j])
  <2>1. newly \subseteq GroupSet(at)
    BY DEF newly
  <2>2. PICK k \in gateIndex[at] .. index - 1 :
            GroupsOf[r][i] = GroupsOf[at][k] /\ at \in Natural
    BY <1>1, <1>2, <1>8, <2>1, GroupsApart
  <2>3. k \in DOMAIN GroupsOf[at]
    BY <1>4, <2>2
  <2>4. r = at /\ i = k
    BY <1>1, <1>2, <2>2, <2>3, GroupsApart
  <2> SUFFICES ASSUME NEW j \in 1 .. i - 1 PROVE Ended(GroupsOf[r][j])
    OBVIOUS
  <2>5. j \in 1 .. gateIndex[r] - 1 \/ j \in gateIndex[at] .. index - 1
    BY <1>1, <1>2, <1>4, <2>2, <2>4
  <2> QED
    BY <1>4, <2>4, <2>5 DEF GateInv
<1> QED
  BY <1>7, <1>8

\* A run that is submitted starts its order anew, and shares no group with others.
LEMMA GateSubmit ==
    ASSUME Known, GateInv, NEW r \in Runs, Submit(r) PROVE GateInv'
PROOF
<1>1. /\ phase[r] = "new" \/ (phase[r] = "resolved" /\ "resubmit" \in Controls)
      /\ \A t \in Tasks : RunOf[t] # r => state'[t] = state[t]
      /\ terminal' = terminal \ GroupSet(r)
      /\ gateIndex' = [gateIndex EXCEPT ![r] = 1]
      /\ UNCHANGED <<waiting, due, todo>>
  BY DEF Submit, loopVars
<1>2. /\ gateIndex \in [Runs -> Nat] /\ Natural \subseteq Runs
      /\ \A q \in Runs : gateIndex[q] \in 1 .. Len(GroupsOf[q]) + 1
      /\ \A q \in Runs : /\ Len(GroupsOf[q]) \in Nat
                         /\ DOMAIN GroupsOf[q] = 1 .. Len(GroupsOf[q])
  BY PlanAssumption DEF Known, TypeOK, GateTypeOK
<1>3. \A t \in Holding : RunOf[t] # r
  BY <1>1 DEF Known, WorkInv, Owned
<1>4. ASSUME NEW g, Ended(g), g \notin GroupSet(r)
      PROVE  Ended(g)'
  BY <1>1, <1>4, GroupsAssumption DEF Ended, TasksIn
<1>5. ASSUME NEW q \in Natural, NEW i \in 1 .. gateIndex'[q] - 1
      PROVE  Ended(GroupsOf[q][i])'
  <2>1. q # r /\ i \in 1 .. gateIndex[q] - 1 /\ i \in DOMAIN GroupsOf[q]
    BY <1>1, <1>2, <1>5
  <2>2. GroupsOf[q][i] \notin GroupSet(r)
    BY <1>2, <2>1, GroupsApart
  <2> QED
    BY <1>4, <2>1, <2>2 DEF GateInv
<1>6. ASSUME NEW u \in (Pending \cup todo)'
      PROVE  Passed(u)'
  <2>1. Passed(u) /\ u \in Tasks /\ RunOf[u] # r /\ RunOf[u] \in Runs
    BY <1>1, <1>3, <1>6, WorkTypes DEF GateInv, Pending, Holding
  <2> QED
    BY <1>1, <1>2, <2>1 DEF Passed
<1> QED
  BY <1>1, <1>4, <1>5, <1>6 DEF GateInv

\* No step breaks what the gate rests on.
LEMMA StepGate == Known /\ GateInv /\ [Next]_vars => GateInv'
PROOF
<1> SUFFICES ASSUME Known, GateInv, [Next]_vars PROVE GateInv'
  OBVIOUS
<1>1. ASSUME NEW r \in Runs, Submit(r)
      PROVE  GateInv'
  BY <1>1, GateSubmit
<1>2. CASE ReportGroups
  BY <1>2, GateReports
<1>3. CASE ~ReportGroups /\ ~(\E r \in Runs : Submit(r))
  <2>1. \A u \in Tasks : state[u] \in Terminal => state'[u] \in Terminal
    BY <1>3, StepMoves DEF Moved, Terminal
  <2>2. UNCHANGED <<terminal, gateIndex>>
    BY <1>3 DEF Next, Coordinator, Callers, Worker, WorkerStart, WorkerEnd, Elapse,
       Collect, Commit, Admit, Observe, Accept, ApplyUpdates, DrainCompletions,
       BeginAdvance, CancelUnfinished, BeginRelease, ForwardHeld, PauseContext,
       Settle, Finish, EndAdvance, TakeLimits, EndAdmit, Exit, WakeUp, Fault,
       FailAll, Cancel, SetBackground, Drain, Pause, Resume, Close, vars, gateVars
  <2>3. ASSUME NEW u \in (Pending \cup todo)'
        PROVE  u \in Pending \cup todo \/ Passed(u)
    <3>1. ASSUME NEW t \in Tasks, Collect(t)
          PROVE  u \in Pending \cup todo \/ Passed(u)
      <4>1. waiting' \subseteq waiting /\ due' \subseteq due
        BY <3>1 DEF Collect, FinishError, Forget
      <4>2. todo' = todo \/ (todo' = {t} /\ CanRelease(t))
        BY <3>1 DEF Collect
      <4> QED
        BY <2>3, <4>1, <4>2, ReleasedPassed DEF Pending
    <3>2. ASSUME NEW t \in Tasks, Commit(t)
          PROVE  u \in Pending \cup todo
      <4>1. waiting' \subseteq waiting \cup {t} /\ due' \subseteq due
        BY <3>2 DEF Commit, Committed, Deferred, FinishError, Forget
      <4>2. t \in todo /\ todo' \subseteq todo
        BY <3>2 DEF Commit
      <4> QED
        BY <2>3, <4>1, <4>2 DEF Pending
    <3>3. CASE ForwardHeld
      <4>1. UNCHANGED <<waiting, due>> /\ todo' \subseteq held
            /\ \A t \in todo' : RunOf[t] = at /\ GroupOf[t] \in Current(at)
        BY <3>3 DEF ForwardHeld
      <4>2. \A t \in todo' : t \in Tasks /\ CanRelease(t)
        BY <4>1, WorkTypes DEF Holding, CanRelease
      <4> QED
        BY <2>3, <4>1, <4>2, ReleasedPassed DEF Pending
    <3>4. ASSUME \/ \E r \in Runs : CancelUnfinished(r) \/ BeginRelease(r)
                 \/ Settle \/ Finish \/ FailAll
          PROVE  u \in Pending \cup todo
      <4>1. waiting' \subseteq waiting /\ due' \subseteq due /\ todo' \subseteq todo \cup due
        BY <3>4 DEF CancelUnfinished, BeginRelease, Settle, Finish, FailAll, Forget,
                    graphVars, loopVars
      <4> QED
        BY <2>3, <4>1 DEF Pending
    <3>5. ASSUME NEW t \in Tasks, Worker(t) \/ Elapse(t) \/ Admit(t)
          PROVE  u \in Pending \cup todo
      <4>1. Pending' = Pending /\ todo' = todo
        BY <3>5 DEF Worker, WorkerStart, WorkerEnd, Elapse, Admit, Pending, graphVars,
                    loopVars
      <4> QED
        BY <2>3, <4>1
    <3>6. ASSUME \/ Observe \/ Accept \/ ApplyUpdates \/ DrainCompletions
                 \/ BeginAdvance \/ PauseContext \/ EndAdvance \/ TakeLimits
                 \/ EndAdmit \/ Exit \/ WakeUp \/ Fault
                 \/ (\E r \in Runs : Cancel(r)) \/ SetBackground \/ Drain \/ Pause
                 \/ Resume \/ Close \/ UNCHANGED vars
          PROVE  u \in Pending \cup todo
      <4>1. UNCHANGED <<waiting, due, todo>>
        BY <3>6 DEF Observe, Accept, ApplyUpdates, DrainCompletions, BeginAdvance,
                    PauseContext, EndAdvance, TakeLimits, EndAdmit, Exit, WakeUp,
                    Fault, Cancel, SetBackground, Drain, Pause, Resume, Close, vars,
                    graphVars, loopVars
      <4> QED
        BY <2>3, <4>1 DEF Pending
    <3> QED
      BY <1>3, <3>1, <3>2, <3>3, <3>4, <3>5, <3>6 DEF Next, Coordinator, Callers
  <2> QED
    BY <2>1, <2>2, <2>3, GateFrame
<1> QED
  BY <1>1, <1>2, <1>3

\* A result is forwarded, and a group announced, only behind the gate.
LEMMA StepForwarding ==
    ASSUME Known, GateInv, [Next]_vars, NEW r \in Natural, NEW i \in DOMAIN GroupsOf[r]
    PROVE  \/ \A j \in 1 .. i - 1 : Ended(GroupsOf[r][j])
           \/ /\ GroupsOf[r][i] \in reported' => GroupsOf[r][i] \in reported
              /\ \A t \in TasksIn(GroupsOf[r][i]) :
                    state'[t] = "succeeded" => state[t] = "succeeded"
PROOF
<1> DEFINE g == GroupsOf[r][i]
           Before == \A j \in 1 .. i - 1 : Ended(GroupsOf[r][j])
<1>1. r \in Runs /\ gateIndex[r] \in Nat /\ i \in Nat
  BY PlanAssumption DEF Known, TypeOK, GateTypeOK
<1>2. i <= gateIndex[r] => Before
  BY <1>1 DEF GateInv
<1>3. g \in reported' => g \in reported \/ Before
  <2>1. CASE ReportGroups
    BY <2>1, GateReports
  <2>2. CASE ~ReportGroups
    <3>1. reported' \subseteq reported
      BY <2>2 DEF Next, Coordinator, Callers, Worker, WorkerStart, WorkerEnd, Elapse,
         Collect, Commit, Admit, Observe, Accept, ApplyUpdates, DrainCompletions,
         BeginAdvance, CancelUnfinished, BeginRelease, ForwardHeld, PauseContext,
         Settle, Finish, EndAdvance, TakeLimits, EndAdmit, Exit, WakeUp, Fault,
         FailAll, Submit, Cancel, SetBackground, Drain, Pause, Resume, Close, vars,
         gateVars
    <3> QED
      BY <3>1
  <2> QED
    BY <2>1, <2>2
<1>4. ASSUME NEW t \in TasksIn(g), state'[t] = "succeeded", state[t] # "succeeded"
      PROVE  Before
  <2>1. t \in Tasks /\ RunOf[t] = r /\ GroupOf[t] = g
    BY <1>1, <1>4, GroupsApart DEF TasksIn
  <2>2. ~(\E q \in Runs : Submit(q))
    BY <1>4, <2>1 DEF Submit
  <2>3. t \in todo
    BY <1>4, <2>1, <2>2, StepMoves DEF Moved
  <2> QED
    BY <1>2, <2>1, <2>3 DEF GateInv, Passed
<1> QED
  BY <1>3, <1>4

\* The gate has passed only groups that ended, and results reach their commit only
\* behind it (NaturalOrderGate, _report_terminal_groups).
THEOREM GateKept == ASSUME NoRetake PROVE Spec => []GateInv
PROOF
<1>1. Init => GateInv
  <2> SUFFICES ASSUME Init PROVE GateInv
    OBVIOUS
  <2>1. \A r \in Natural : 1 .. gateIndex[r] - 1 = {}
    BY PlanAssumption DEF Init
  <2> QED
    BY <2>1 DEF Init, GateInv, Pending
<1>2. Known /\ GateInv /\ [Next]_vars => GateInv'
  BY StepGate
<1>3. Known /\ WindowExact => Known
  OBVIOUS
<1> QED
  BY <1>1, <1>2, <1>3, KnownKept, PTL DEF Spec

\* In a strict-natural run a result is forwarded and a group announced only when
\* every earlier group has ended (NaturalOrderGate, _finish_future,
\* _release_results).
THEOREM ForwardedInOrder == ASSUME NoRetake PROVE Spec => NaturalForwarding
PROOF
<1> DEFINE Forwarding ==
        \A r \in Natural : \A i \in DOMAIN GroupsOf[r] :
          LET g == GroupsOf[r][i]
          IN \/ \A j \in 1 .. i - 1 : \A t \in TasksIn(GroupsOf[r][j]) :
                    state[t] \in Terminal
             \/ /\ g \in reported' => g \in reported
                /\ \A t \in TasksIn(g) :
                      state'[t] = "succeeded" => state[t] = "succeeded"
<1>1. Known /\ GateInv /\ [Next]_vars => [Forwarding]_vars
  BY StepForwarding DEF Ended
<1>2. Known /\ WindowExact => Known
  OBVIOUS
<1>3. Spec => []Known
  BY <1>2, KnownKept, PTL
<1>4. Spec => [][Forwarding]_vars
  BY <1>1, <1>3, GateKept, PTL DEF Spec
<1> QED
  BY <1>4 DEF NaturalForwarding
-----------------------------------------------------------------------------
(* What a round leaves behind.                                             *)

\* A TaskStarted names its run and task and not the attempt: the start of an
\* attempt that is over would be taken for the start of the next one.
Once == "resubmit" \notin Controls

\* What is carried from state to state.
Rested == Known /\ Once /\ GateInv /\ WakeInv

\* A run goes from new over the inbox to a context, and ends resolved.
LEMMA PhaseSteps ==
    ASSUME Known, Once, [Next]_vars, NEW r \in Runs
    PROVE  \/ phase'[r] = phase[r]
           \/ phase[r] = "new" /\ phase'[r] = "inbox" /\ Submit(r)
           \/ phase[r] = "inbox" /\ phase'[r] = "context" /\ Accept
           \/ phase[r] \in {"inbox", "context"} /\ phase'[r] = "resolved"
PROOF
<1>1. /\ phase \in [Runs -> {"new", "inbox", "context", "resolved"}]
      /\ at \in Runs => phase[at] = "context"
      /\ pc \in {"settle", "finish"} => at \in Runs
  BY WorkTypes DEF Known, LoopInv, Contexts, Advancing
<1>2. ASSUME NEW q \in Runs, Submit(q)
      PROVE  \/ phase'[r] = phase[r]
             \/ phase[r] = "new" /\ phase'[r] = "inbox" /\ Submit(r)
  BY <1>1, <1>2 DEF Submit, Once
<1>3. CASE Accept
  BY <1>1, <1>3 DEF Accept
<1>4. CASE Settle \/ Finish \/ FailAll
  BY <1>1, <1>4 DEF Settle, Finish, FailAll
<1>5. CASE ~(Accept \/ Settle \/ Finish \/ FailAll \/ \E q \in Runs : Submit(q))
  <2>1. phase' = phase
    BY <1>5 DEF Next, Coordinator, Callers, Worker, WorkerStart, WorkerEnd, Elapse,
       Collect, Commit, Admit, Observe, ApplyUpdates, DrainCompletions,
       BeginAdvance, CancelUnfinished, BeginRelease, ForwardHeld, ReportGroups,
       PauseContext, EndAdvance, TakeLimits, EndAdmit, Exit, WakeUp, Fault,
       Cancel, SetBackground, Drain, Pause, Resume, Close, vars, runVars
  <2> QED
    BY <2>1
<1> QED
  BY <1>2, <1>3, <1>4, <1>5

\* Submitting a run concerns the tasks of that run, none of which was taken up.
LEMMA SubmitEffect ==
    ASSUME Known, Once, NEW r \in Runs, Submit(r)
    PROVE  /\ phase[r] = "new" /\ phase' = [phase EXCEPT ![r] = "inbox"]
           /\ \A t \in Tasks : RunOf[t] # r => state'[t] = state[t]
           /\ \A t \in Tasks : RunOf[t] = r => state'[t] \in {"ready", "succeeded"}
           /\ UNCHANGED <<ready, held, waiting, due, todo, updates>>
           /\ Futures' = Futures /\ Holding' = Holding
PROOF
  BY DEF Submit, Once, loopVars, workerVars, Futures, Holding

\* What a run that was not accepted shows, and where a context keeps its tasks.
LEMMA StepPlaces ==
    Rested /\ [Next]_vars => Fresh' /\ Placed'
PROOF
<1> SUFFICES ASSUME Rested, [Next]_vars PROVE Fresh' /\ Placed'
  OBVIOUS
<1>1. Known /\ Once /\ Fresh /\ Placed /\ Unstarted
  BY DEF Rested, WakeInv
<1>2. RunOf \in [Tasks -> Runs]
  BY PlanAssumption
<1>3. ASSUME NEW r \in Runs, Submit(r)
      PROVE  Fresh' /\ Placed'
  <2>1. /\ phase[r] = "new" /\ phase' = [phase EXCEPT ![r] = "inbox"]
        /\ \A t \in Tasks : RunOf[t] # r => state'[t] = state[t]
        /\ \A t \in Tasks : RunOf[t] = r => state'[t] \in {"ready", "succeeded"}
        /\ Holding' = Holding
    BY <1>1, <1>3, SubmitEffect
  <2> QED
    BY <1>1, <1>2, <2>1, WorkTypes DEF Fresh, Placed
<1>4. CASE ~(\E r \in Runs : Submit(r))
  <2>1. Moved /\ Enqueued /\ Released
    BY <1>1, <1>4, StepMoves
  <2>2. \A t \in Tasks :
            \/ phase'[RunOf[t]] = phase[RunOf[t]]
            \/ phase[RunOf[t]] = "inbox" /\ phase'[RunOf[t]] = "context"
            \/ phase[RunOf[t]] \in {"inbox", "context"} /\ phase'[RunOf[t]] = "resolved"
    BY <1>1, <1>2, <1>4, PhaseSteps
  <2>3. Fresh'
    BY <1>1, <2>1, <2>2 DEF Fresh, Moved
  <2>4. Placed'
    <3> SUFFICES ASSUME NEW t \in Tasks, phase'[RunOf[t]] = "context",
                        state'[t] \in {"queued", "running"}, t \notin Holding'
                 PROVE  FALSE
      BY DEF Placed
    <3>1. t \notin Holding
      BY <2>1 DEF Released, Terminal
    <3>2. phase[RunOf[t]] \in {"inbox", "context"}
      BY <2>2
    <3>3. state[t] \notin {"queued", "running"}
      BY <1>1, <3>1, <3>2 DEF Fresh, Placed
    <3>4. state[t] = "ready" /\ t \in ready'
      BY <2>1, <3>3 DEF Moved, Terminal
    <3> QED
      BY <3>4 DEF Holding
  <2> QED
    BY <2>3, <2>4
<1> QED
  BY <1>3, <1>4

\* A queue holds what has not started.
LEMMA StepUnstarted ==
    Rested /\ [Next]_vars => Unstarted' /\ News'
PROOF
<1> SUFFICES ASSUME Rested, [Next]_vars PROVE Unstarted' /\ News'
  OBVIOUS
<1>1. Known /\ Once /\ Unstarted /\ News /\ WorkInv'
  BY StepWork DEF Rested, WakeInv
<1>2. RunOf \in [Tasks -> Runs] /\ ready \subseteq Tasks /\ updates \subseteq Tasks
  BY <1>1, PlanAssumption DEF Known, TypeOK, GraphTypeOK, WorkerTypeOK
<1>3. ASSUME NEW r \in Runs, Submit(r)
      PROVE  Unstarted' /\ News'
  <2>1. /\ phase[r] = "new" /\ phase' = [phase EXCEPT ![r] = "inbox"]
        /\ \A t \in Tasks : RunOf[t] # r => state'[t] = state[t]
        /\ UNCHANGED <<ready, updates>>
    BY <1>1, <1>3, SubmitEffect
  <2> QED
    BY <1>1, <1>2, <2>1, WorkTypes DEF Unstarted, News
<1>4. CASE ~(\E r \in Runs : Submit(r))
  <2>1. Moved /\ Enqueued
    BY <1>1, <1>4, StepMoves
  <2>2. \A t \in Tasks :
            \/ phase'[RunOf[t]] = phase[RunOf[t]]
            \/ phase[RunOf[t]] = "inbox" /\ phase'[RunOf[t]] = "context"
            \/ phase[RunOf[t]] \in {"inbox", "context"} /\ phase'[RunOf[t]] = "resolved"
    BY <1>1, <1>2, <1>4, PhaseSteps
  <2>3. ready' \subseteq Tasks
    BY <1>1, StepTypeOK DEF Known, TypeOK, GraphTypeOK
  <2>4. Unstarted'
    <3> SUFFICES ASSUME NEW t \in ready', phase'[RunOf[t]] = "context"
                 PROVE  state'[t] = "queued"
      BY DEF Unstarted
    <3>1. CASE t \notin ready
      BY <2>1, <3>1 DEF Enqueued
    <3>2. CASE t \in ready
      <4>1. t \in Tasks /\ phase[RunOf[t]] = "context"
        BY <1>1, <1>2, <2>2, <3>2 DEF Known, WorkInv, Owned, Holding
      <4>2. state[t] = "queued" /\ t \notin updates
        BY <1>1, <3>2, <4>1 DEF Unstarted, News
      <4>3. state'[t] \in {"queued", "running"}
        BY <1>1 DEF WorkInv, Working
      <4> QED
        BY <2>1, <4>1, <4>2, <4>3 DEF Moved, Terminal
    <3> QED
      BY <3>1, <3>2
  <2>5. News'
    <3> SUFFICES ASSUME NEW t \in updates'
                 PROVE  /\ phase'[RunOf[t]] \in {"context", "resolved"}
                        /\ state'[t] # "ready" /\ t \notin ready'
      BY DEF News
    <3>1. /\ t \in Tasks /\ phase[RunOf[t]] \in {"context", "resolved"}
          /\ state[t] # "ready" /\ t \notin ready
      <4>1. CASE t \in updates
        BY <1>1, <1>2, <4>1 DEF News
      <4>2. CASE t \notin updates
        <5>1. PICK u \in Tasks : WorkerStart(u)
          BY <4>2 DEF Next, Coordinator, Callers, Worker, WorkerEnd, Elapse,
             Collect, Commit, Admit, Observe, Accept, ApplyUpdates,
             DrainCompletions, BeginAdvance, CancelUnfinished, BeginRelease,
             ForwardHeld, ReportGroups, PauseContext, Settle, Finish, EndAdvance,
             TakeLimits, EndAdmit, Exit, WakeUp, Fault, FailAll, Submit, Cancel,
             SetBackground, Drain, Pause, Resume, Close, vars, workerVars
        <5>2. t = u /\ future[t] = "pending"
          BY <4>2, <5>1 DEF WorkerStart
        <5> QED
          BY <1>1, <5>2 DEF Known, WorkInv, NoOrphanWork, Entitled, Apart, Holding,
                            Futures
      <4> QED
        BY <4>1, <4>2
    <3> QED
      BY <2>1, <2>2, <3>1 DEF Moved, Enqueued, Terminal
  <2> QED
    BY <2>4, <2>5
<1> QED
  BY <1>3, <1>4

\* Results are held back for the gate only, and a release commits results of its
\* own context.
LEMMA StepHeldBack ==
    Rested /\ [Next]_vars => HeldBack' /\ OwnTodo'
PROOF
<1> SUFFICES ASSUME Rested, [Next]_vars PROVE HeldBack' /\ OwnTodo'
  OBVIOUS
<1>1. Known /\ HeldBack /\ OwnTodo
  BY DEF Rested, WakeInv
<1>2. /\ at \in Runs \cup {NoRun} /\ NoRun \notin Runs
      /\ todo # {} => pc = "commit"
      /\ at \in Runs => pc \in {"commit", "release", "pause", "settle", "finish"}
      /\ todo \subseteq Tasks /\ held \subseteq Tasks /\ due \subseteq Tasks
  BY <1>1, PlanAssumption DEF Known, TypeOK, LoopTypeOK, GraphTypeOK, LoopInv
<1>3. ASSUME NEW t \in Tasks, Collect(t)
      PROVE  HeldBack' /\ OwnTodo'
  <2>1. at' = at /\ at \notin Runs
    BY <1>2, <1>3 DEF Collect
  <2>2. held' \subseteq held \/ (held' = held \cup {t} /\ ~CanRelease(t))
    BY <1>3 DEF Collect, FinishError, Forget
  <2> QED
    BY <1>1, <2>1, <2>2 DEF HeldBack, OwnTodo, CanRelease
<1>4. ASSUME NEW t \in Tasks, Commit(t)
      PROVE  HeldBack' /\ OwnTodo'
  <2>1. at' = at /\ todo' \subseteq todo /\ held' \subseteq held
    BY <1>4 DEF Commit, Committed, Deferred, FinishError, Forget
  <2> QED
    BY <1>1, <2>1 DEF HeldBack, OwnTodo
<1>5. ASSUME \/ \E r \in Runs : CancelUnfinished(r) \/ BeginRelease(r)
             \/ ForwardHeld \/ Settle \/ Finish
      PROVE  HeldBack' /\ OwnTodo'
  <2>1. held' \subseteq held
    BY <1>5 DEF CancelUnfinished, BeginRelease, ForwardHeld, Settle, Finish, Forget,
                graphVars
  <2>2. at' \in Runs => todo' \subseteq TasksOf(at') \/ todo' = {}
    BY <1>2, <1>5 DEF CancelUnfinished, BeginRelease, ForwardHeld, Settle, Finish,
                      TasksOf
  <2> QED
    BY <1>1, <2>1, <2>2 DEF HeldBack, OwnTodo
<1>6. ASSUME \/ \E t \in Tasks : Worker(t) \/ Elapse(t) \/ Admit(t)
             \/ \E r \in Runs : Submit(r) \/ Cancel(r)
             \/ Observe \/ Accept \/ ApplyUpdates \/ DrainCompletions
             \/ BeginAdvance \/ ReportGroups \/ PauseContext \/ EndAdvance
             \/ TakeLimits \/ EndAdmit \/ Exit \/ WakeUp \/ Fault \/ FailAll
             \/ SetBackground \/ Drain \/ Pause \/ Resume \/ Close
             \/ UNCHANGED vars
      PROVE  HeldBack' /\ OwnTodo'
  <2>1. at' = at /\ todo' = todo /\ held' \subseteq held
    BY <1>6 DEF Worker, WorkerStart, WorkerEnd, Elapse, Admit, Submit, Cancel, Observe,
       Accept, ApplyUpdates, DrainCompletions, BeginAdvance, ReportGroups,
       PauseContext, EndAdvance, TakeLimits, EndAdmit, Exit, WakeUp, Fault, FailAll,
       SetBackground, Drain, Pause, Resume, Close, vars, graphVars, loopVars
  <2> QED
    BY <1>1, <2>1 DEF HeldBack, OwnTodo
<1> QED
  BY <1>3, <1>4, <1>5, <1>6 DEF Next, Coordinator, Callers

\* What admission would start next depends on the queues, the contexts, the
\* switch of background work and the windows.
LEMMA CandidateFrame ==
    ASSUME UNCHANGED <<ready, phase, background, sequence, submitted>>, NEW t
    PROVE  Candidate(t)' <=> Candidate(t)
PROOF
<1>1. Contexts' = Contexts
  BY DEF Contexts
<1>2. ExtractionGroups' = ExtractionGroups
  BY <1>1 DEF ExtractionGroups
<1>3. \A u, v : Precedes(u, v)' <=> Precedes(u, v)
  BY DEF Precedes
<1>4. \A s : WorkerLimit(s)' = WorkerLimit(s)
  BY <1>2 DEF WorkerLimit
<1> QED
  BY <1>1, <1>3, <1>4 DEF Candidate
\* The thread ends only when no context and no submission is left, and a
\* submission starts it again (_round, submit).
LEMMA StepOff ==
    ASSUME Rested, [Next]_vars, pc' = "off", NEW r \in Runs
    PROVE  phase'[r] \in {"new", "resolved"}
PROOF
<1>1. /\ Known /\ phase \in [Runs -> {"new", "inbox", "context", "resolved"}]
      /\ pc = "off" => phase[r] \in {"new", "resolved"}
      /\ at \in Runs => pc # "off"
  BY WorkTypes DEF Rested, WakeInv, Heard, Known, LoopInv
<1>2. CASE FailAll
  BY <1>1, <1>2 DEF FailAll
<1>3. CASE Exit
  BY <1>1, <1>3 DEF Exit, runVars, Contexts
<1>4. CASE ~FailAll /\ ~Exit
  <2>1. pc = "off" /\ phase' = phase
    BY <1>4 DEF Next, Coordinator, Callers, Worker, WorkerStart, WorkerEnd, Elapse,
       Collect, Commit, Admit, Observe, Accept, ApplyUpdates, DrainCompletions,
       BeginAdvance, CancelUnfinished, BeginRelease, ForwardHeld, ReportGroups,
       PauseContext, Settle, Finish, EndAdvance, TakeLimits, EndAdmit, WakeUp,
       Fault, Submit, Cancel, SetBackground, Drain, Pause, Resume, Close, vars,
       runVars, loopVars
  <2> QED
    BY <1>1, <2>1
<1> QED
  BY <1>2, <1>3, <1>4

\* Whoever adds work to a table that the round has read signals (submit,
\* _run_task, set_background_admission, pause, resume, drain, close, _fail_all).
LEMMA StepTold ==
    ASSUME Rested, [Next]_vars, ~signalled' PROVE Told'
PROOF
<1>1. /\ Known
      /\ ~signalled => Told
      /\ phase \in [Runs -> {"new", "inbox", "context", "resolved"}]
      /\ at \in Runs \cup {NoRun} /\ signalled \in BOOLEAN
  BY WorkTypes DEF Rested, WakeInv, Heard, Told, Known, TypeOK, LoopTypeOK
<1>2. CASE Observe
  BY <1>2 DEF Observe, Told
<1>3. CASE Accept
  BY <1>1, <1>3 DEF Accept, Told
<1>4. CASE ApplyUpdates
  BY <1>1, <1>4 DEF ApplyUpdates, Told, runVars
<1>5. CASE DrainCompletions
  BY <1>1, <1>5 DEF DrainCompletions, Told, runVars
<1>6. ASSUME ~signalled, phase' \in {phase} \/ \A r \in Runs : phase'[r] # "inbox",
             updates' = updates, completions' = completions,
             pc \notin {"off", "round", "accept", "updates", "drain"},
             pc' \notin {"exit", "sleep"}
      PROVE  Told'
  BY <1>1, <1>6 DEF Told
<1>7. ASSUME NEW t \in Tasks, Collect(t) \/ Commit(t) \/ Admit(t)
      PROVE  Told'
  <2>1. /\ ~signalled /\ UNCHANGED <<phase, updates, completions>>
        /\ pc \in {"collect", "commit", "admit"} /\ pc' \notin {"exit", "sleep"}
    <3>1. CASE Collect(t)
      BY <3>1 DEF Collect, runVars
    <3>2. CASE Commit(t)
      BY <3>2 DEF Commit, runVars, workerVars
    <3>3. CASE Admit(t)
      BY <3>3 DEF Admit, Wake, runVars
    <3> QED
      BY <1>7, <3>1, <3>2, <3>3
  <2> QED
    BY <1>6, <2>1
<1>8. CASE \/ \E r \in Runs : CancelUnfinished(r) \/ BeginRelease(r)
           \/ BeginAdvance \/ ForwardHeld \/ ReportGroups \/ PauseContext
           \/ TakeLimits \/ Fault
  <2>1. /\ ~signalled /\ UNCHANGED <<phase, updates, completions>>
        /\ pc \in {"collect", "advance", "release", "pause", "limits"}
        /\ pc' \notin {"exit", "sleep"}
    BY <1>1, <1>8 DEF CancelUnfinished, BeginRelease, BeginAdvance, ForwardHeld,
                      ReportGroups, PauseContext, TakeLimits, Fault, Wake, runVars,
                      workerVars, loopVars
  <2> QED
    BY <1>6, <2>1
<1>9. CASE Settle \/ Finish
  <2>1. /\ ~signalled /\ UNCHANGED <<updates, completions>>
        /\ pc \in {"settle", "finish"} /\ pc' \notin {"exit", "sleep"}
        /\ phase' = phase \/ phase' = [phase EXCEPT ![at] = "resolved"]
    BY <1>1, <1>9 DEF Settle, Finish, runVars, workerVars
  <2>2. \A r \in Runs : phase[r] # "inbox"
    BY <1>1, <2>1 DEF Told
  <2>3. \A r \in Runs : phase'[r] # "inbox"
    BY <1>1, <2>1, <2>2
  <2> QED
    BY <1>6, <2>1, <2>3
<1>10. CASE EndAdvance \/ EndAdmit
  <2>1. /\ ~signalled /\ UNCHANGED <<phase, updates, completions, draining>>
        /\ pc \in {"advance", "admit"} /\ pc' \in {"exit", "limits"}
    BY <1>1, <1>10 DEF EndAdvance, EndAdmit, runVars, workerVars, controlVars
  <2>2. pc' = "exit" => draining \/ \A t \in ready' : ~Candidate(t)'
    <3>1. CASE EndAdvance
      BY <3>1 DEF EndAdvance, graphVars
    <3>2. CASE EndAdmit
      <4> SUFFICES ASSUME ~draining, NEW t \in ready' PROVE ~Candidate(t)'
        OBVIOUS
      <4>1. /\ ready' = {u \in ready : RunOf[u] \in Contexts}
            /\ t \in ready /\ ~Candidate(t)
            /\ UNCHANGED <<phase, background, sequence, submitted>>
        BY <3>2 DEF EndAdmit, runVars, controlVars, workerVars
      <4>2. Contexts' = Contexts
        BY <4>1 DEF Contexts
      <4>3. ExtractionGroups' = ExtractionGroups
        BY <4>2 DEF ExtractionGroups
      <4>4. \A u, v : Precedes(u, v)' <=> Precedes(u, v)
        BY <4>1 DEF Precedes
      <4>5. \A s : WorkerLimit(s)' = WorkerLimit(s)
        BY <4>3 DEF WorkerLimit
      <4> QED
        BY <4>1, <4>2, <4>4, <4>5 DEF Candidate
    <3> QED
      BY <1>10, <3>1, <3>2
  <2> QED
    BY <1>1, <2>1, <2>2 DEF Told
<1>11. ASSUME UNCHANGED <<phase, updates, completions, draining, ready, background,
                          sequence, submitted, signalled>>,
              \/ pc' \in {pc, "round", "off"}
              \/ pc = "exit" /\ pc' = "sleep"
       PROVE  Told'
  <2>1. \A t : Candidate(t)' <=> Candidate(t)
    BY <1>11, CandidateFrame
  <2> QED
    BY <1>1, <1>11, <2>1 DEF Told
<1>12. CASE Exit \/ WakeUp
  <2>1. UNCHANGED <<phase, updates, completions, draining, ready, background,
                    sequence, submitted, signalled>>
    BY <1>12 DEF Exit, WakeUp, runVars, workerVars, controlVars, graphVars
  <2>2. pc' = "round" \/ pc' = "off" \/ (pc = "exit" /\ pc' = "sleep")
    BY <1>12 DEF Exit, WakeUp
  <2> QED
    BY <1>11, <2>1, <2>2
<1>13. CASE \/ \E t \in Tasks : Elapse(t)
            \/ \E r \in Runs : Cancel(r)
            \/ UNCHANGED vars
  <2>1. UNCHANGED <<phase, updates, completions, draining, ready, background,
                    sequence, submitted, signalled, pc>>
    BY <1>13 DEF Elapse, Cancel, vars, runVars, workerVars, controlVars, graphVars
  <2> QED
    BY <1>11, <2>1
<1>14. CASE FailAll
  BY <1>14 DEF FailAll, Told
<1>15. ASSUME \/ \E t \in Tasks : Worker(t)
              \/ \E r \in Runs : Submit(r)
              \/ SetBackground \/ Drain \/ Pause \/ Resume \/ Close
       PROVE  FALSE
  BY <1>15 DEF Worker, WorkerStart, WorkerEnd, Submit, SetBackground, Drain, Pause,
               Resume, Close, Wake
<1> QED
  BY <1>2, <1>3, <1>4, <1>5, <1>7, <1>8, <1>9, <1>10, <1>12, <1>13, <1>14, <1>15
     DEF Next, Coordinator, Callers

LEMMA StepHeard == Rested /\ [Next]_vars => Heard'
PROOF
<1> SUFFICES ASSUME Rested, [Next]_vars PROVE Heard'
  OBVIOUS
<1>1. pc' = "off" => \A r \in Runs : phase'[r] \in {"new", "resolved"}
  BY StepOff
<1>2. ~signalled' => Told'
  BY StepTold
<1> QED
  BY <1>1, <1>2 DEF Heard

-----------------------------------------------------------------------------
(* What keeps a run in motion.                                             *)

\* What excuses a run stays: nobody takes a cancellation or a lost journal back
\* while it is a context, a drain that closes is final, and any other ends with a
\* signal.
LEMMA ExcusesStay ==
    ASSUME Rested, [Next]_vars
    PROVE  /\ cancelled \cap Contexts \subseteq cancelled'
           /\ journalFailed \subseteq journalFailed'
           /\ draining /\ closing => draining' /\ closing'
           /\ draining => draining' \/ signalled'
PROOF
<1>1. journalFailed \subseteq journalFailed'
  <2>1. ASSUME NEW t \in Tasks, Collect(t) \/ Commit(t) \/ Admit(t)
        PROVE  journalFailed \subseteq journalFailed'
    BY <2>1 DEF Collect, Commit, Admit, Committed, Deferred, FinishError
  <2> QED
    BY <2>1 DEF Next, Coordinator, Callers, Worker, WorkerStart, WorkerEnd, Elapse,
       Observe, Accept, ApplyUpdates, DrainCompletions, BeginAdvance,
       CancelUnfinished, BeginRelease, ForwardHeld, ReportGroups, PauseContext,
       Settle, Finish, EndAdvance, TakeLimits, EndAdmit, Exit, WakeUp, Fault,
       FailAll, Submit, Cancel, SetBackground, Drain, Pause, Resume, Close, vars
<1>2. cancelled \cap Contexts \subseteq cancelled'
  <2>1. ASSUME NEW r \in Runs, Submit(r)
        PROVE  cancelled \cap Contexts \subseteq cancelled'
    BY <2>1 DEF Submit, Contexts, Rested, Once
  <2>2. CASE Settle \/ Fault \/ Close \/ (\E r \in Runs : Cancel(r))
    BY <2>2 DEF Settle, Fault, Close, Cancel
  <2>3. CASE ~(Settle \/ Fault \/ Close \/ \E r \in Runs : Cancel(r) \/ Submit(r))
    <3>1. cancelled' = cancelled
      BY <2>3 DEF Next, Coordinator, Callers, Worker, WorkerStart, WorkerEnd, Elapse,
         Collect, Commit, Admit, Observe, Accept, ApplyUpdates, DrainCompletions,
         BeginAdvance, CancelUnfinished, BeginRelease, ForwardHeld, ReportGroups,
         PauseContext, Finish, EndAdvance, TakeLimits, EndAdmit, Exit, WakeUp,
         FailAll, SetBackground, Drain, Pause, Resume, vars
    <3> QED
      BY <3>1
  <2> QED
    BY <2>1, <2>2, <2>3
<1>3. /\ draining /\ closing => draining' /\ closing'
      /\ draining => draining' \/ signalled'
  <2>1. CASE SetBackground \/ Drain \/ Pause \/ Resume \/ Close
    BY <2>1 DEF SetBackground, Drain, Pause, Resume, Close, Wake
  <2>2. CASE ~(SetBackground \/ Drain \/ Pause \/ Resume \/ Close)
    <3>1. UNCHANGED <<draining, closing>>
      BY <2>2 DEF Next, Coordinator, Callers, Worker, WorkerStart, WorkerEnd, Elapse,
         Collect, Commit, Admit, Observe, Accept, ApplyUpdates, DrainCompletions,
         BeginAdvance, CancelUnfinished, BeginRelease, ForwardHeld, ReportGroups,
         PauseContext, Settle, Finish, EndAdvance, TakeLimits, EndAdmit, Exit, WakeUp,
         Fault, FailAll, Submit, Cancel, vars, controlVars
    <3> QED
      BY <3>1
  <2> QED
    BY <2>1, <2>2
<1> QED
  BY <1>1, <1>2, <1>3

\* Only a drain that closes interrupts (_pause_context), and only a fault
\* withdraws a future that is not dropped, from runs it cancels (_fail_all).
LEMMA StepInterrupts ==
    Rested /\ [Next]_vars => Interrupts' /\ Withdrawn'
PROOF
<1> SUFFICES ASSUME Rested, [Next]_vars PROVE Interrupts' /\ Withdrawn'
  OBVIOUS
<1>1. /\ Known /\ Once /\ Interrupts /\ Withdrawn
      /\ cancelled \cap Contexts \subseteq cancelled'
      /\ draining /\ closing => draining' /\ closing'
  BY ExcusesStay DEF Rested, WakeInv, FlowInv
<1>2. Interrupts'
  <2>1. interrupted' \subseteq interrupted \/ (draining' /\ closing')
    BY <1>1 DEF Next, Coordinator, Callers, Worker, WorkerStart, WorkerEnd, Elapse,
       Collect, Commit, Admit, Observe, Accept, ApplyUpdates, DrainCompletions,
       BeginAdvance, CancelUnfinished, BeginRelease, ForwardHeld, ReportGroups,
       PauseContext, Settle, Finish, EndAdvance, TakeLimits, EndAdmit, Exit, WakeUp,
       Fault, FailAll, Submit, Cancel, SetBackground, Drain, Pause, Resume, Close,
       vars, workerVars, controlVars
  <2> QED
    BY <1>1, <2>1 DEF Interrupts
<1>3. Withdrawn'
  <2> SUFFICES ASSUME NEW t \in Tasks, future'[t] = "cancelled"
               PROVE  RunOf[t] \in cancelled'
    BY DEF Withdrawn
  <2>1. RunOf[t] \in Runs
    BY PlanAssumption
  <2>2. CASE Fault
    <3>1. future[t] = "cancelled" \/ future[t] = "pending"
      BY <2>2 DEF Fault
    <3>2. future[t] = "pending" => phase[RunOf[t]] = "context"
      BY <1>1 DEF Known, WorkInv, NoOrphanWork
    <3> QED
      BY <1>1, <2>1, <2>2, <3>1, <3>2 DEF Fault, Withdrawn
  <2>3. CASE ~Fault
    <3>1. future[t] = "cancelled"
      <4>1. ASSUME NEW u \in Tasks, Collect(u) \/ Admit(u) \/ Worker(u)
            PROVE  future[t] = "cancelled"
        BY <1>1, <4>1, WorkTypes DEF Collect, Admit, Worker, WorkerStart, WorkerEnd
      <4>2. ASSUME NEW r \in Runs, CancelUnfinished(r)
            PROVE  future[t] = "cancelled"
        BY <4>2 DEF CancelUnfinished
      <4> QED
        BY <2>3, <4>1, <4>2 DEF Next, Coordinator, Callers, Elapse, Commit, Observe,
           Accept, ApplyUpdates, DrainCompletions, BeginAdvance, BeginRelease,
           ForwardHeld, ReportGroups, PauseContext, Settle, Finish, EndAdvance,
           TakeLimits, EndAdmit, Exit, WakeUp, FailAll, Submit, Cancel,
           SetBackground, Drain, Pause, Resume, Close, vars, workerVars
    <3>2. RunOf[t] \in cancelled /\ phase[RunOf[t]] \in {"context", "resolved"}
      BY <1>1, <3>1 DEF Withdrawn, Known, WorkInv, Owned, Holding, Futures
    <3>3. CASE phase[RunOf[t]] = "context"
      BY <1>1, <2>1, <3>2, <3>3 DEF Contexts
    <3>4. CASE phase[RunOf[t]] = "resolved"
      <4>1. \A r \in Runs : Submit(r) => r # RunOf[t]
        BY <1>1, <3>4 DEF Submit, Once
      <4>2. cancelled \ {r \in Runs : Submit(r)} \subseteq cancelled'
        <5>1. ASSUME NEW r \in Runs, Submit(r)
              PROVE  cancelled \ {r} \subseteq cancelled'
          BY <5>1 DEF Submit
        <5>2. ASSUME ~(\E r \in Runs : Submit(r))
              PROVE  cancelled \subseteq cancelled'
          BY <5>2 DEF Next, Coordinator, Callers, Worker, WorkerStart, WorkerEnd,
             Elapse, Collect, Commit, Admit, Observe, Accept, ApplyUpdates,
             DrainCompletions, BeginAdvance, CancelUnfinished, BeginRelease,
             ForwardHeld, ReportGroups, PauseContext, Settle, Finish, EndAdvance,
             TakeLimits, EndAdmit, Exit, WakeUp, Fault, FailAll, Cancel,
             SetBackground, Drain, Pause, Resume, Close, vars
        <5> QED
          BY <5>1, <5>2
      <4> QED
        BY <3>2, <4>1, <4>2
    <3> QED
      BY <3>2, <3>3, <3>4
  <2> QED
    BY <2>2, <2>3
<1> QED
  BY <1>2, <1>3

\* A task still ready in a context was ready there, or came with a run that was
\* just accepted.
LEMMA ReadyBefore ==
    ASSUME Rested, [Next]_vars, NEW t \in Tasks,
           phase'[RunOf[t]] = "context", state'[t] = "ready"
    PROVE  /\ state[t] = "ready"
           /\ \/ phase[RunOf[t]] = "context"
              \/ phase[RunOf[t]] = "inbox" /\ Accept
PROOF
<1>1. Known /\ Once /\ RunOf[t] \in Runs
  BY PlanAssumption DEF Rested
<1>2. \/ phase[RunOf[t]] = "context" \/ (phase[RunOf[t]] = "inbox" /\ Accept)
  BY <1>1, PhaseSteps
<1>3. ASSUME NEW r \in Runs, Submit(r)
      PROVE  state[t] = "ready"
  <2>1. RunOf[t] # r
    BY <1>1, <1>2, <1>3, SubmitEffect
  <2> QED
    BY <1>1, <1>3, <2>1, SubmitEffect
<1>4. ASSUME ~(\E r \in Runs : Submit(r))
      PROVE  state[t] = "ready"
  BY <1>1, <1>4, StepMoves DEF Moved, Terminal
<1> QED
  BY <1>2, <1>3, <1>4

\* Whatever awaits nothing is queued, by the acceptance or by the commit that was
\* last awaited.
LEMMA StepUnqueued == Rested /\ [Next]_vars => Unqueued'
PROOF
<1> SUFFICES ASSUME Rested, [Next]_vars, NEW t \in Tasks,
                    phase'[RunOf[t]] = "context", state'[t] = "ready"
             PROVE  unresolved'[t] # 0
  BY DEF Unqueued
<1>1. /\ Known /\ Once /\ Unqueued /\ state[t] = "ready"
      /\ \/ phase[RunOf[t]] = "context" \/ (phase[RunOf[t]] = "inbox" /\ Accept)
      /\ RunOf[t] \in Runs
  BY ReadyBefore, PlanAssumption DEF Rested, WakeInv, FlowInv
<1>2. CASE phase[RunOf[t]] = "inbox" /\ Accept
  BY <1>1, <1>2 DEF Accept, FirstTasks
<1>3. CASE phase[RunOf[t]] = "context"
  <2>1. unresolved[t] # 0
    BY <1>1, <1>3 DEF Unqueued
  <2>2. ASSUME NEW r \in Runs, Submit(r)
        PROVE  unresolved'[t] = unresolved[t]
    BY <1>1, <1>3, <2>2 DEF Submit, Once
  <2>3. ASSUME NEW c \in Tasks, Committed(c)
        PROVE  unresolved'[t] # 0
    BY <1>1, <2>1, <2>3 DEF Committed, Freed, Dependants
  <2>4. ASSUME NEW c \in Tasks, Commit(c)
        PROVE  unresolved'[t] # 0
    BY <2>1, <2>3, <2>4 DEF Commit, Deferred
  <2>5. ASSUME ~(\E r \in Runs : Submit(r)), ~(\E c \in Tasks : Commit(c))
        PROVE  unresolved'[t] = unresolved[t]
    BY <2>5 DEF Next, Coordinator, Callers, Worker, WorkerStart, WorkerEnd, Elapse,
       Collect, Admit, Observe, Accept, ApplyUpdates, DrainCompletions,
       BeginAdvance, CancelUnfinished, BeginRelease, ForwardHeld, ReportGroups,
       PauseContext, Settle, Finish, EndAdvance, TakeLimits, EndAdmit, Exit, WakeUp,
       Fault, FailAll, Cancel, SetBackground, Drain, Pause, Resume, Close, vars,
       graphVars
  <2> QED
    BY <2>1, <2>2, <2>4, <2>5
<1> QED
  BY <1>1, <1>2, <1>3

\* A failure stops all that waits for it, so what is still ready does not.
LEMMA FinishErrorSound ==
    ASSUME TypeOK, NEW c \in Tasks, NEW active, NEW unsaved \in BOOLEAN,
           FinishError(c, active, unsaved),
           NEW t \in Tasks, state'[t] = "ready",
           RunOf[t] \notin cancelled, RunOf[t] \notin journalFailed',
           NEW d \in DependsOn[t]
    PROVE  state'[d] = state[d]
PROOF
<1>1. d \in Tasks /\ RunOf[d] = RunOf[t] /\ state \in [Tasks -> TaskStates]
  BY PlanAssumption DEF TypeOK, GraphTypeOK
<1>2. CASE RunOf[c] # RunOf[t]
  BY <1>1, <1>2, FinishErrorEnds
<1>3. CASE RunOf[c] = RunOf[t]
  <2>1. state' = Fail(state, c)
    BY <1>3 DEF FinishError
  <2>2. t # c /\ t \notin Stopped(state, c) /\ state[t] = "ready"
    BY <2>1 DEF Fail
  <2>3. PICK B \in SUBSET Tasks :
            /\ \A u \in Tasks : state[u] \notin Terminal
                                /\ DependsOn[u] \cap (B \cup {c}) # {} => u \in B
            /\ t \notin B
    BY <2>2 DEF Stopped
  <2>4. d \notin B \cup {c}
    BY <2>2, <2>3 DEF Terminal
  <2>5. d \notin Stopped(state, c)
    BY <2>3, <2>4 DEF Stopped
  <2> QED
    BY <1>1, <2>1, <2>4, <2>5 DEF Fail
<1> QED
  BY <1>2, <1>3

\* Nothing that is ready in an undisturbed run waits for a task that ended badly.
LEMMA StepSound == Rested /\ [Next]_vars => Sound'
PROOF
<1> SUFFICES ASSUME Rested, [Next]_vars, NEW t \in Tasks,
                    phase'[RunOf[t]] = "context", state'[t] = "ready",
                    RunOf[t] \notin cancelled', RunOf[t] \notin journalFailed',
                    ~(draining' /\ closing'),
                    NEW d \in DependsOn[t], state'[d] \in Stuck
             PROVE  FALSE
  BY DEF Sound, Undisturbed
<1>1. /\ Known /\ Once /\ Fresh /\ Sound /\ Interrupts /\ Withdrawn
      /\ state[t] = "ready"
      /\ \/ phase[RunOf[t]] = "context" \/ (phase[RunOf[t]] = "inbox" /\ Accept)
      /\ RunOf[t] \in Runs /\ d \in Tasks /\ RunOf[d] = RunOf[t]
  BY ReadyBefore, PlanAssumption DEF Rested, WakeInv, FlowInv
<1>2. CASE phase[RunOf[t]] = "inbox" /\ Accept
  <2>1. state[d] \in {"ready", "succeeded"}
    BY <1>1, <1>2 DEF Fresh
  <2> QED
    BY <1>1, <1>2, <2>1 DEF Accept, Stuck
<1>3. CASE phase[RunOf[t]] = "context"
  <2>1. /\ RunOf[t] \notin cancelled \cup journalFailed /\ ~(draining /\ closing)
        /\ interrupted = {}
    BY <1>1, <1>3, ExcusesStay DEF Contexts, Interrupts
  <2>2. state[d] \notin Stuck
    BY <1>1, <1>3, <2>1 DEF Sound, Undisturbed
  <2>3. state'[d] # state[d]
    BY <2>2
  <2>4. ASSUME NEW c \in Tasks, Collect(c)
        PROVE  FALSE
    <3>1. CASE state' = CancelAll(state, {c}) /\ RunOf[c] \in cancelled
      BY <1>1, <2>1, <2>3, <3>1 DEF CancelAll
    <3>2. CASE FinishError(c, Active(RunOf[c]) \ {c}, FALSE)
      BY <1>1, <2>1, <2>3, <3>2, FinishErrorSound DEF Known
    <3>3. future[c] = "cancelled" => RunOf[c] \in cancelled
      BY <1>1 DEF Withdrawn
    <3> QED
      BY <2>1, <2>3, <2>4, <3>1, <3>2, <3>3 DEF Collect
  <2>5. ASSUME NEW c \in Tasks, Commit(c)
        PROVE  FALSE
    <3>1. CASE RunOf[c] \in journalFailed /\ state' = [state EXCEPT ![c] = "blocked"]
      BY <1>1, <2>1, <2>3, <3>1
    <3>2. ASSUME NEW unsaved \in BOOLEAN, FinishError(c, Active(RunOf[c]), unsaved)
          PROVE  FALSE
      BY <1>1, <2>1, <2>3, <3>2, FinishErrorSound DEF Known
    <3>3. CASE Committed(c) \/ Deferred(c)
      BY <1>1, <2>2, <3>3, WorkTypes DEF Committed, Deferred, Stuck
    <3> QED
      BY <2>5, <3>1, <3>2, <3>3 DEF Commit
  <2>6. ASSUME NEW r \in Runs, CancelUnfinished(r)
        PROVE  FALSE
    <3> DEFINE stopped == {u \in TasksOf(r) \ (Active(r) \ {v \in TasksOf(r) : future[v] = "pending"}) : state[u] \in Admissible}
                      \cup {v \in TasksOf(r) : future[v] = "pending"}
                      \cup ((held \cup Pending) \cap TasksOf(r))
    <3>1. state' = CancelAll(state, stopped) /\ r \in cancelled
      BY <2>6 DEF CancelUnfinished
    <3>2. stopped \subseteq TasksOf(r)
      OBVIOUS
    <3> HIDE DEF stopped
    <3> QED
      BY <1>1, <2>1, <2>3, <3>1, <3>2 DEF CancelAll, TasksOf
  <2>7. CASE PauseContext
    <3>1. state' = CancelAll(state, {u \in TasksOf(at) : state[u] \in Admissible})
      BY <2>3, <2>7 DEF PauseContext
    <3>2. d \in TasksOf(at)
      BY <1>1, <2>3, <3>1 DEF CancelAll
    <3>3. t \in TasksOf(at)
      BY <1>1, <3>2 DEF TasksOf
    <3> QED
      BY <1>1, <3>1, <3>3 DEF CancelAll, Admissible, Terminal
  <2>8. ASSUME NEW c \in Tasks, Admit(c)
        PROVE  FALSE
    <3>1. state' = Fail(state, c) /\ RunOf[c] \in journalFailed'
      BY <2>3, <2>8 DEF Admit
    <3>2. d = c \/ d \in Stopped(state, c)
      BY <1>1, <2>3, <3>1 DEF Fail
    <3> QED
      BY <1>1, <3>1, <3>2, StoppedOwn
  <2>9. ASSUME NEW r \in Runs, Submit(r)
        PROVE  FALSE
    BY <1>1, <1>3, <2>3, <2>9, SubmitEffect
  <2>10. CASE Accept \/ ApplyUpdates
    BY <1>1, <2>2, <2>10 DEF Accept, ApplyUpdates, Stuck
  <2> QED
    BY <2>3, <2>4, <2>5, <2>6, <2>7, <2>8, <2>9, <2>10
       DEF Next, Coordinator, Callers, Worker, WorkerStart, WorkerEnd, Elapse,
       Observe, DrainCompletions, BeginAdvance, BeginRelease, ForwardHeld,
       ReportGroups, Settle, Finish, EndAdvance, TakeLimits, EndAdmit, Exit, WakeUp,
       Fault, FailAll, Cancel, SetBackground, Drain, Pause, Resume, Close, vars,
       graphVars
<1> QED
  BY <1>1, <1>2, <1>3

\* The gate stands before a group that was not called terminal.
LEMMA StepGateOpen == Rested /\ [Next]_vars => GateOpen'
PROOF
<1> SUFFICES ASSUME Rested, [Next]_vars, NEW r \in Natural
             PROVE  Current(r)' \cap terminal' = {}
  BY DEF GateOpen
<1>1. /\ Known /\ Current(r) \cap terminal = {} /\ r \in Runs
      /\ gateIndex \in [Runs -> Nat]
      /\ \A q \in Runs : gateIndex[q] \in 1 .. Len(GroupsOf[q]) + 1
  BY PlanAssumption DEF Rested, WakeInv, FlowInv, GateOpen, Known, TypeOK, GateTypeOK
<1>2. Current(r) \subseteq GroupSet(r)
  BY DEF Current, GroupSet
<1>3. ASSUME NEW q \in Runs, Submit(q)
      PROVE  Current(r)' \cap terminal' = {}
  <2>1. /\ terminal' = terminal \ GroupSet(q)
        /\ gateIndex' = [gateIndex EXCEPT ![q] = 1]
    BY <1>3 DEF Submit
  <2>2. CASE q = r
    <3>1. Current(r)' \subseteq GroupSet(r)
      BY DEF Current, GroupSet
    <3> QED
      BY <2>1, <2>2, <3>1
  <2>3. CASE q # r
    <3>1. Current(r)' = Current(r)
      BY <1>1, <2>1, <2>3 DEF Current
    <3> QED
      BY <1>1, <2>1, <3>1
  <2> QED
    BY <2>2, <2>3
<1>4. CASE ReportGroups
  <2> DEFINE newly == {g \in GroupSet(at) \ terminal :
                          \A t \in TasksIn(g) : state[t] \in Terminal}
             index == IF at \in Natural /\ newly # {}
                      THEN Skip(at, terminal \cup newly) ELSE gateIndex[at]
  <2>1. /\ at \in Runs /\ terminal' = terminal \cup newly
        /\ gateIndex' = [gateIndex EXCEPT ![at] = index]
    BY <1>1, <1>4 DEF ReportGroups, Known, Advancing
  <2>2. newly \subseteq GroupSet(at)
    OBVIOUS
  <2>3. CASE r # at
    <3> HIDE DEF newly, index
    <3>1. Current(r)' = Current(r)
      BY <1>1, <2>1, <2>3 DEF Current
    <3>2. GroupSet(r) \cap GroupSet(at) = {}
      BY <1>1, <2>1, <2>3, GroupsAssumption
    <3> QED
      BY <1>1, <1>2, <2>1, <2>2, <3>1, <3>2
  <2>4. CASE r = at /\ newly = {}
    <3>1. index = gateIndex[at]
      BY <2>4
    <3> HIDE DEF newly, index
    <3>2. gateIndex'[r] = gateIndex[r]
      BY <1>1, <2>1, <2>4, <3>1
    <3> QED
      BY <1>1, <2>1, <2>4, <3>2 DEF Current
  <2>5. CASE r = at /\ newly # {}
    <3>1. index = Skip(at, terminal \cup newly)
      BY <2>5
    <3>2. index \in OpenPositions(at, terminal \cup newly)
      BY <1>1, <2>1, <3>1, SkipOpens
    <3> HIDE DEF newly, index
    <3>3. gateIndex'[r] = index
      BY <1>1, <2>1, <2>5
    <3> QED
      BY <2>1, <2>5, <3>2, <3>3 DEF Current, OpenPositions
  <2> QED
    BY <2>3, <2>4, <2>5
<1>5. CASE ~ReportGroups /\ ~(\E q \in Runs : Submit(q))
  <2>1. UNCHANGED <<terminal, gateIndex>>
    BY <1>5 DEF Next, Coordinator, Callers, Worker, WorkerStart, WorkerEnd, Elapse,
       Collect, Commit, Admit, Observe, Accept, ApplyUpdates, DrainCompletions,
       BeginAdvance, CancelUnfinished, BeginRelease, ForwardHeld, PauseContext,
       Settle, Finish, EndAdvance, TakeLimits, EndAdmit, Exit, WakeUp, Fault,
       FailAll, Cancel, SetBackground, Drain, Pause, Resume, Close, vars, gateVars
  <2> QED
    BY <1>1, <2>1 DEF Current
<1> QED
  BY <1>3, <1>4, <1>5

\* What the report of a round leaves holds until the run's turn ends, unless a
\* signal comes.
LEMMA StepGateStands == Rested /\ [Next]_vars => GateStands'
PROOF
<1> SUFFICES ASSUME Rested, [Next]_vars, pc' \in {"pause", "settle"},
                    at' \in Natural, ~signalled', ~Excused(at)'
             PROVE  /\ \A t \in held' \cap TasksOf(at') : GroupOf[t] \notin Current(at)'
                    /\ \A g \in Current(at)' : ~Ended(g)'
  BY DEF GateStands, TasksOf
<1>1. /\ Known /\ GateOpen /\ GateStands /\ Natural \subseteq Runs
      /\ gateIndex \in [Runs -> Nat]
  BY PlanAssumption DEF Rested, WakeInv, FlowInv, Known, TypeOK, GateTypeOK
<1>2. CASE ReportGroups
  <2> DEFINE newly == {g \in GroupSet(at) \ terminal :
                          \A t \in TasksIn(g) : state[t] \in Terminal}
             index == IF at \in Natural /\ newly # {}
                      THEN Skip(at, terminal \cup newly) ELSE gateIndex[at]
  <2>1. /\ at' = at /\ at \in Natural /\ newly = {} /\ UNCHANGED <<state, held>>
        /\ gateIndex' = [gateIndex EXCEPT ![at] = index]
        /\ {t \in held : RunOf[t] = at /\ GroupOf[t] \in Current(at)} = {}
    BY <1>2 DEF ReportGroups, loopVars, graphVars
  <2>2. index = gateIndex[at]
    BY <2>1
  <2>3. Current(at)' = Current(at)
    <3> HIDE DEF newly, index
    <3> QED
      BY <1>1, <2>1, <2>2 DEF Current
  <2>4. \A g \in Current(at) : ~Ended(g)
    <3>1. Current(at) \cap terminal = {} /\ Current(at) \subseteq GroupSet(at)
      BY <1>1, <2>1 DEF GateOpen, Current, GroupSet
    <3> QED
      BY <2>1, <3>1 DEF Ended
  <2> QED
    BY <2>1, <2>3, <2>4 DEF TasksOf, Ended
<1>3. ASSUME pc \in {"pause", "settle"}, at' = at, ~signalled, ~Excused(at),
             UNCHANGED <<state, held, gateIndex>>
      PROVE  /\ \A t \in held' \cap TasksOf(at') : GroupOf[t] \notin Current(at)'
             /\ \A g \in Current(at)' : ~Ended(g)'
  BY <1>1, <1>3 DEF GateStands, Current, Ended
<1>4. CASE PauseContext
  <2>1. /\ pc = "pause" /\ at' = at
        /\ UNCHANGED <<held, gateIndex, signalled, draining, cancelled, journalFailed>>
    BY <1>4 DEF PauseContext, gateVars, controlVars
  <2>2. ~Excused(at)
    BY <2>1 DEF Excused, Undisturbed
  <2>3. state' = state
    BY <1>4, <2>2 DEF PauseContext, Excused
  <2> QED
    BY <1>3, <2>1, <2>2, <2>3
<1>5. CASE (\E r \in Runs : Cancel(r)) \/ (\E t \in Tasks : Elapse(t)) \/ UNCHANGED vars
  <2>1. UNCHANGED <<pc, at, held, state, gateIndex, signalled, draining, journalFailed>>
        /\ cancelled \subseteq cancelled'
    BY <1>5 DEF Cancel, Elapse, vars, loopVars, graphVars, gateVars, controlVars
  <2>2. ~Excused(at)
    BY <2>1 DEF Excused, Undisturbed
  <2> QED
    BY <1>3, <2>1, <2>2
<1>6. ASSUME NEW r \in Runs, CancelUnfinished(r)
      PROVE  FALSE
  BY <1>6 DEF CancelUnfinished, Excused, Undisturbed
<1>7. ASSUME \/ \E t \in Tasks : Worker(t)
             \/ \E r \in Runs : Submit(r)
             \/ SetBackground \/ Drain \/ Pause \/ Resume \/ Close
      PROVE  FALSE
  BY <1>7 DEF Worker, WorkerStart, WorkerEnd, Submit, SetBackground, Drain, Pause,
              Resume, Close, Wake
<1>8. ASSUME \/ \E t \in Tasks : Collect(t) \/ Commit(t) \/ Admit(t)
             \/ Observe \/ Accept \/ ApplyUpdates \/ DrainCompletions \/ BeginAdvance
             \/ (\E r \in Runs : BeginRelease(r)) \/ ForwardHeld \/ Settle \/ Finish
             \/ EndAdvance \/ TakeLimits \/ EndAdmit \/ Exit \/ WakeUp \/ Fault \/ FailAll
      PROVE  FALSE
  <2>1. pc' \notin {"pause", "settle"}
    BY <1>8 DEF Collect, Commit, Admit, Observe, Accept, ApplyUpdates,
       DrainCompletions, BeginAdvance, BeginRelease, ForwardHeld, Settle, Finish,
       EndAdvance, TakeLimits, EndAdmit, Exit, WakeUp, Fault, FailAll
  <2> QED
    BY <2>1
<1> QED
  BY <1>2, <1>4, <1>5, <1>6, <1>7, <1>8 DEF Next, Coordinator, Callers

\* A task of a group before which the gate stands is under way: the first of the
\* group that has not ended does not wait for another one.
LEMMA GroupMoves ==
    ASSUME Rested, at \in Natural, at \in Contexts, ~Excused(at), todo = {},
           NEW g \in Current(at), ~Ended(g),
           \A t \in held \cap TasksOf(at) : GroupOf[t] \notin Current(at)
    PROVE  Ahead \cap TasksOf(at) # {}
PROOF
<1> DEFINE open == {t \in TasksIn(g) : state[t] \notin Terminal}
<1>1. /\ Known /\ Placed /\ Unqueued /\ Sound /\ at \in Runs /\ Tasks \subseteq Nat
      /\ phase[at] = "context" /\ state \in [Tasks -> TaskStates]
  BY WorkTypes, PlanAssumption DEF Rested, WakeInv, FlowInv, Contexts
<1>2. open # {} /\ open \subseteq Nat
  BY <1>1 DEF Ended, TasksIn
<1>3. PICK t \in open : \A u \in open : ~(<<u, t>> \in OpToRel(<, Nat))
  BY <1>2, NatLessThanWellFounded, WFMin
<1>4. \A u \in open : ~(u < t)
  <2>1. \A a, b \in Nat : a < b => <<a, b>> \in OpToRel(<, Nat)
    BY DEF OpToRel
  <2> QED
    BY <1>2, <1>3, <2>1
<1>5. t \in Tasks /\ GroupOf[t] = g /\ state[t] \notin Terminal /\ RunOf[t] = at
  <2>1. PICK i \in DOMAIN GroupsOf[at] : g = GroupsOf[at][i]
    BY DEF Current
  <2>2. RunOf[t] = at
    BY <1>1, <2>1, GroupsApart
  <2> QED
    BY <2>2 DEF TasksIn
<1>6. state[t] # "ready"
  <2> SUFFICES ASSUME state[t] = "ready" PROVE FALSE
    OBVIOUS
  <2>1. unresolved[t] # 0
    BY <1>1, <1>5 DEF Unqueued
  <2>2. PICK d \in DependsOn[t] : state[d] # "succeeded"
    <3>1. unresolved[t] = Cardinality({d \in DependsOn[t] : state[d] # "succeeded"})
      BY <1>1, <1>5 DEF Known, WorkInv, Counted
    <3> QED
      BY <2>1, <3>1, FS_EmptySet
  <2>3. d \in Tasks /\ GroupOf[d] = g /\ d < t
    BY <1>5, PlanAssumption, OrderAssumption
  <2>4. state[d] \notin Stuck
    BY <1>1, <1>5 DEF Sound, Excused, Undisturbed
  <2>5. d \in open
    BY <2>2, <2>3, <2>4 DEF TasksIn, Terminal, Stuck
  <2> QED
    BY <1>4, <2>3, <2>5
<1>7. t \in Holding
  BY <1>1, <1>5, <1>6 DEF Placed, TaskStates, Terminal
<1>8. t \notin held
  BY <1>5 DEF TasksOf
<1> QED
  BY <1>5, <1>7, <1>8 DEF Holding, Ahead, Pending, TasksOf

\* A step that keeps the tasks of other contexts where they are.
LEMMA AdvancedFrame ==
    ASSUME Rested, [Next]_vars,
           pc \in {"advance", "limits", "admit", "exit", "sleep"} \/ at \in Runs,
           signalled => signalled', Contexts' \subseteq Contexts,
           \A r \in Contexts' : r \in visit \cup {at} => r \in visit' \cup {at'},
           \A t \in Ahead : RunOf[t] \in Contexts' \ (visit \cup {at}) => t \in Ahead',
           \A t \in held : RunOf[t] \in Contexts' \ (visit \cup {at}) => t \in held'
    PROVE  Advanced'
PROOF
<1> SUFFICES ASSUME NEW r \in Contexts', r \notin visit' \cup {at'}
             PROVE  signalled' \/ Occupied(r)'
  BY DEF Advanced
<1>1. r \in Contexts \ (visit \cup {at}) /\ Advanced
  BY DEF Rested, WakeInv
<1>2. CASE signalled
  BY <1>2
<1>3. ASSUME NEW t \in Ahead, t \in TasksOf(r)
      PROVE  Occupied(r)'
  <2>1. t \in Ahead'
    BY <1>1, <1>3 DEF TasksOf
  <2> QED
    BY <1>3, <2>1 DEF Occupied, TasksOf
<1>4. ASSUME Excused(r), NEW t \in held, t \in TasksOf(r)
      PROVE  signalled' \/ Occupied(r)'
  <2>1. t \in held'
    BY <1>1, <1>4 DEF TasksOf
  <2>2. signalled' \/ Excused(r)'
    BY <1>1, <1>4, ExcusesStay DEF Excused, Undisturbed
  <2> QED
    BY <1>4, <2>1, <2>2 DEF Occupied, TasksOf
<1> QED
  BY <1>1, <1>2, <1>3, <1>4 DEF Advanced, Occupied

\* A context that was left and is not resolved has something ahead of it: not
\* stalled, it has a result that waits, or a task queued or running, which is in
\* a queue or has a future; and what the gate holds back waits for a group in
\* which some task is under way.
LEMMA SettleOccupied ==
    ASSUME Rested, Settle, ~AllTerminal(at), ~Stalled(at)
    PROVE  signalled \/ Occupied(at)
PROOF
<1>1. /\ Known /\ GateInv /\ at \in Contexts /\ at \in Runs /\ todo = {}
      /\ pc = "settle"
  BY DEF Settle, Rested, Known, LoopInv, Advancing
<1>2. CASE Ahead \cap TasksOf(at) # {}
  BY <1>2 DEF Occupied
<1>3. ASSUME NEW t \in TasksOf(at), state[t] \in {"queued", "running"}
      PROVE  t \in Ahead \cup held
  <2>1. t \in Holding
    BY <1>1, <1>3 DEF Rested, WakeInv, Placed, TasksOf, Contexts
  <2> QED
    BY <1>1, <1>3, <2>1 DEF Holding, Ahead, Pending
<1>4. ASSUME NEW t \in held, t \in TasksOf(at), ~signalled, ~Excused(at)
      PROVE  Ahead \cap TasksOf(at) # {}
  <2>1. /\ at \in Natural
        /\ \A u \in held \cap TasksOf(at) : GroupOf[u] \notin Current(at)
        /\ \A g \in Current(at) : ~Ended(g)
    BY <1>1, <1>4 DEF Rested, WakeInv, FlowInv, HeldBack, GateStands, TasksOf
  <2>2. PICK u \in Tasks : RunOf[u] = at /\ state[u] \notin Terminal
    BY DEF AllTerminal, TasksOf
  <2>3. PICK i \in DOMAIN GroupsOf[at] : GroupOf[u] = GroupsOf[at][i]
    BY <2>2, GroupsAssumption DEF GroupSet
  <2>4. ~Ended(GroupsOf[at][i])
    BY <2>2, <2>3 DEF Ended, TasksIn
  <2>5. gateIndex[at] \in DOMAIN GroupsOf[at]
    <3>1. /\ gateIndex[at] \in 1 .. Len(GroupsOf[at]) + 1
          /\ DOMAIN GroupsOf[at] = 1 .. Len(GroupsOf[at]) /\ Len(GroupsOf[at]) \in Nat
      BY <1>1, PlanAssumption DEF Known, TypeOK, GateTypeOK
    <3>2. i \notin 1 .. gateIndex[at] - 1
      BY <1>1, <2>1, <2>4 DEF GateInv
    <3> QED
      BY <3>1, <3>2
  <2>6. GroupsOf[at][gateIndex[at]] \in Current(at)
    BY <2>5 DEF Current
  <2> QED
    BY <1>1, <1>4, <2>1, <2>6, GroupMoves
<1>5. \E t \in TasksOf(at) : t \in Ahead \cup held
  BY <1>3 DEF Stalled, Ahead
<1> QED
  BY <1>2, <1>4, <1>5 DEF Occupied

\* A round that sleeps has looked at every context.
LEMMA StepAdvanced == Rested /\ [Next]_vars => Advanced'
PROOF
<1> SUFFICES ASSUME Rested, [Next]_vars PROVE Advanced'
  OBVIOUS
<1> DEFINE Past == pc \in {"advance", "limits", "admit", "exit", "sleep"} \/ at \in Runs
<1>1. /\ Known /\ Advanced /\ OwnTodo /\ Once
      /\ at \in Runs \cup {NoRun} /\ NoRun \notin Runs
      /\ RunOf \in [Tasks -> Runs] /\ Ahead \cup held \subseteq Tasks
      /\ phase \in [Runs -> {"new", "inbox", "context", "resolved"}]
      /\ signalled \in BOOLEAN
  BY WorkTypes, PlanAssumption
     DEF Rested, WakeInv, Known, TypeOK, LoopTypeOK, Ahead, Holding, Pending
<1>2. /\ at \in Runs => pc \in {"commit", "release", "pause", "settle", "finish"}
      /\ pc \in {"release", "pause", "settle", "finish"} => at \in Runs
      /\ visit \subseteq Contexts
  BY <1>1 DEF Known, LoopInv, Advancing
<1>3. ASSUME NEW t \in Tasks, Collect(t)
      PROVE  Advanced'
  <2>1. at' \notin Runs /\ pc' \in {"collect", "commit"}
    BY <1>2, <1>3 DEF Collect
  <2> QED
    BY <2>1 DEF Advanced
<1>4. ASSUME NEW t \in Tasks, Commit(t)
      PROVE  Advanced'
  <2>1. /\ at' = at /\ visit' = visit /\ phase' = phase /\ signalled' = signalled
        /\ t \in todo /\ pc' \in {"commit", "collect", "release"}
        /\ Futures' = Futures
    BY <1>4 DEF Commit, runVars, workerVars, Futures
  <2>2. /\ \A u \in Ahead : RunOf[u] # RunOf[t] => u \in Ahead'
        /\ \A u \in held : RunOf[u] # RunOf[t] => u \in held'
    BY <1>1, <1>4, <2>1 DEF Commit, Committed, Deferred, FinishError, Forget, Ahead,
                            Pending, TasksOf
  <2>3. CASE at \in Runs
    <3>1. RunOf[t] = at
      BY <1>1, <2>1, <2>3 DEF OwnTodo, TasksOf
    <3> QED
      BY <1>1, <2>1, <2>2, <2>3, <3>1, AdvancedFrame DEF Contexts
  <2>4. CASE at \notin Runs
    BY <2>1, <2>4 DEF Advanced
  <2> QED
    BY <2>3, <2>4
<1>5. ASSUME NEW t \in Tasks, Admit(t)
      PROVE  Advanced'
  <2>1. /\ at' = at /\ visit' = visit /\ phase' = phase /\ pc = "admit"
        /\ t \in ready /\ ready' = ready \ {t} /\ UNCHANGED <<held, waiting, due>>
    BY <1>5 DEF Admit, runVars, loopVars
  <2>2. CASE signalled'
    BY <2>2 DEF Advanced
  <2>3. CASE future' = [future EXCEPT ![t] = "pending"] /\ signalled' = signalled
    <3>1. Futures' = Futures \cup {t}
      BY <1>1, <2>3, WorkTypes DEF Futures
    <3>2. \A u \in Ahead : u \in Ahead'
      BY <2>1, <3>1 DEF Ahead, Pending
    <3> QED
      BY <1>1, <2>1, <2>3, <3>2, AdvancedFrame DEF Contexts
  <2> QED
    BY <1>5, <2>2, <2>3 DEF Admit, Wake
<1>6. ASSUME NEW r \in Runs, CancelUnfinished(r) \/ BeginRelease(r)
      PROVE  Advanced'
  <2>1. /\ pc = "advance" /\ visit' = visit \ {r} /\ at' = r /\ phase' = phase
        /\ r \in visit
        /\ signalled => signalled'
    <3>1. CASE BeginRelease(r)
      BY <3>1 DEF BeginRelease, runVars
    <3>2. CASE CancelUnfinished(r)
      <4>1. signalled => signalled'
        BY <3>2, Zenon DEF CancelUnfinished
      <4> QED
        BY <3>2, <4>1 DEF CancelUnfinished, runVars
    <3> QED
      BY <1>6, <3>1, <3>2
  <2>2. /\ \A u \in Ahead : RunOf[u] # r => u \in Ahead'
        /\ \A u \in held : RunOf[u] # r => u \in held'
    <3>1. CASE BeginRelease(r)
      BY <3>1 DEF BeginRelease, graphVars, workerVars, Ahead, Pending, Futures
    <3>2. CASE CancelUnfinished(r)
      <4>1. \A u \in Futures : RunOf[u] # r => u \in Futures'
        BY <3>2 DEF CancelUnfinished, Futures, TasksOf
      <4>2. Forget(TasksOf(r))
        BY <3>2 DEF CancelUnfinished
      <4> QED
        BY <1>1, <4>1, <4>2 DEF Forget, Ahead, Pending, TasksOf
    <3> QED
      BY <1>6, <3>1, <3>2
  <2>3. at \notin Runs
    BY <1>2, <2>1
  <2>4. \A q \in Contexts' : q \in visit \cup {at} => q \in visit' \cup {at'}
    BY <2>1, <2>3 DEF Contexts
  <2>5. \A u \in Tasks : RunOf[u] \in Contexts' \ (visit \cup {at}) => RunOf[u] # r
    BY <2>1
  <2> QED
    BY <1>1, <2>1, <2>2, <2>4, <2>5, AdvancedFrame DEF Contexts
<1>7. CASE ForwardHeld \/ ReportGroups \/ PauseContext
  <2>1. /\ at \in Runs /\ UNCHANGED <<at, visit, phase, signalled>>
    BY <1>2, <1>7 DEF ForwardHeld, ReportGroups, PauseContext, runVars, loopVars
  <2>2. /\ \A u \in Ahead : RunOf[u] # at => u \in Ahead'
        /\ \A u \in held : RunOf[u] # at => u \in held'
    BY <1>1, <1>7 DEF ForwardHeld, ReportGroups, PauseContext, graphVars, workerVars,
                      Ahead, Pending, Futures, TasksOf
  <2> QED
    BY <1>1, <2>1, <2>2, AdvancedFrame DEF Contexts
<1>8. CASE Settle
  <2>1. /\ at \in Runs /\ visit' = visit /\ signalled' = signalled
        /\ UNCHANGED <<held, waiting, due>> /\ Futures' = Futures
    BY <1>2, <1>8 DEF Settle, workerVars, Futures
  <2>2. CASE at' = at /\ phase' = phase /\ ready' = ready
    <3>1. Ahead' = Ahead
      BY <2>1, <2>2 DEF Ahead, Pending
    <3> QED
      BY <1>1, <2>1, <2>2, <3>1, AdvancedFrame DEF Contexts
  <2>3. CASE /\ at' = NoRun /\ phase' = [phase EXCEPT ![at] = "resolved"]
             /\ ready' = ready \ TasksOf(at)
    <3>1. Contexts' = Contexts \ {at}
      BY <1>1, <2>1, <2>3 DEF Contexts
    <3>2. \A u \in Ahead : RunOf[u] # at => u \in Ahead'
      BY <2>1, <2>3 DEF Ahead, Pending, TasksOf
    <3>3. \A q \in Contexts' : q \in visit \cup {at} => q \in visit' \cup {at'}
      BY <2>1, <3>1
    <3> QED
      BY <1>1, <2>1, <3>1, <3>2, <3>3, AdvancedFrame
  <2>4. CASE /\ at' = NoRun /\ UNCHANGED <<phase, ready, cancelled>>
             /\ ~AllTerminal(at) /\ ~Stalled(at)
    <3>1. signalled \/ Occupied(at)
      BY <1>8, <2>4, SettleOccupied
    <3>2. \A r : Occupied(r)' <=> Occupied(r)
      <4>1. Ahead' = Ahead /\ held' = held
        BY <2>1, <2>4 DEF Ahead, Pending
      <4>2. \A r : Excused(r)' <=> Excused(r)
        BY <1>8, <2>4 DEF Settle, Excused, Undisturbed, controlVars
      <4> QED
        BY <4>1, <4>2 DEF Occupied
    <3>3. Contexts' = Contexts
      BY <2>4 DEF Contexts
    <3> QED
      BY <1>1, <2>1, <3>1, <3>2, <3>3 DEF Advanced
  <2> QED
    BY <1>8, <2>2, <2>3, <2>4 DEF Settle
<1>9. CASE Finish
  <2>1. /\ at \in Runs /\ visit' = visit /\ signalled' = signalled /\ at' = NoRun
        /\ phase' = [phase EXCEPT ![at] = "resolved"]
        /\ Forget(TasksOf(at)) /\ Futures' = Futures
    BY <1>2, <1>9 DEF Finish, workerVars, Futures
  <2>2. Contexts' = Contexts \ {at}
    BY <1>1, <2>1 DEF Contexts
  <2>3. /\ \A u \in Ahead : RunOf[u] # at => u \in Ahead'
        /\ \A u \in held : RunOf[u] # at => u \in held'
    BY <1>1, <2>1 DEF Forget, Ahead, Pending, TasksOf
  <2>4. \A q \in Contexts' : q \in visit \cup {at} => q \in visit' \cup {at'}
    BY <2>1, <2>2
  <2> QED
    BY <1>1, <2>1, <2>2, <2>3, <2>4, AdvancedFrame
<1>10. CASE BeginAdvance
  BY <1>10 DEF BeginAdvance, Advanced, Contexts, runVars
<1>11. CASE Observe \/ Accept \/ ApplyUpdates \/ DrainCompletions \/ WakeUp
            \/ Fault \/ FailAll
  <2>1. /\ at' \notin Runs
        /\ pc' \notin {"advance", "limits", "admit", "exit", "sleep"}
    BY <1>2, <1>11 DEF Observe, Accept, ApplyUpdates, DrainCompletions, WakeUp, Fault,
                       FailAll, loopVars
  <2> QED
    BY <2>1 DEF Advanced
<1>12. CASE EndAdvance \/ TakeLimits \/ EndAdmit \/ Exit
  <2>1. /\ pc \in {"advance", "limits", "admit", "exit"}
        /\ UNCHANGED <<at, visit, phase, signalled>>
        /\ \A u \in Ahead : RunOf[u] \in Contexts => u \in Ahead'
        /\ held' = held
    BY <1>12 DEF EndAdvance, TakeLimits, EndAdmit, Exit, runVars, loopVars, graphVars,
                 workerVars, Ahead, Pending, Futures
  <2> QED
    BY <1>1, <2>1, AdvancedFrame DEF Contexts
<1>13. ASSUME UNCHANGED <<pc, at, visit, phase>>, signalled => signalled',
              Ahead \subseteq Ahead', held \subseteq held'
       PROVE  Advanced'
  <2>1. Contexts' = Contexts
    BY <1>13 DEF Contexts
  <2>2. CASE Past
    BY <1>1, <1>13, <2>1, <2>2, AdvancedFrame
  <2>3. CASE ~Past
    BY <1>13, <2>3 DEF Advanced
  <2> QED
    BY <2>2, <2>3
<1>14. CASE (\E r \in Runs : Cancel(r)) \/ UNCHANGED vars
  <2>1. /\ UNCHANGED <<pc, at, visit, phase, signalled>> /\ Ahead' = Ahead /\ held' = held
    BY <1>14 DEF Cancel, vars, runVars, loopVars, graphVars, workerVars, Ahead,
                 Pending, Futures
  <2> QED
    BY <1>13, <2>1
<1>15. ASSUME NEW t \in Tasks, Elapse(t)
       PROVE  Advanced'
  <2>1. /\ UNCHANGED <<pc, at, visit, phase, signalled>> /\ Ahead' = Ahead /\ held' = held
    BY <1>15 DEF Elapse, runVars, loopVars, workerVars, Ahead, Pending, Futures
  <2> QED
    BY <1>13, <2>1
<1>16. CASE \/ \E t \in Tasks : Worker(t)
            \/ \E r \in Runs : Submit(r)
            \/ SetBackground \/ Drain \/ Pause \/ Resume \/ Close
  <2>1. signalled'
    BY <1>16 DEF Worker, WorkerStart, WorkerEnd, Submit, SetBackground, Drain, Pause,
                 Resume, Close, Wake
  <2> QED
    BY <2>1 DEF Advanced
<1> QED
  BY <1>3, <1>4, <1>5, <1>6, <1>7, <1>8, <1>9, <1>10, <1>11, <1>12, <1>14, <1>15,
     <1>16 DEF Next, Coordinator, Callers

\* Nothing is queued, on a worker or unread at first.
LEMMA InitWake == Init => WakeInv
PROOF
<1> SUFFICES ASSUME Init PROVE WakeInv
  OBVIOUS
<1>1. RunOf \in [Tasks -> Runs] /\ NoRun \notin Runs /\ Natural \subseteq Runs
  BY PlanAssumption
<1>2. Fresh /\ Placed /\ Unstarted /\ News /\ HeldBack /\ OwnTodo
  BY <1>1 DEF Init, Fresh, Placed, Unstarted, News, HeldBack, OwnTodo
<1>3. Heard /\ Advanced
  BY <1>1 DEF Init, Heard, Told, Advanced
<1>4. Interrupts /\ Withdrawn /\ Unqueued /\ Sound /\ GateOpen /\ GateStands
  BY <1>1 DEF Init, Interrupts, Withdrawn, Unqueued, Sound, GateOpen, GateStands
<1> QED
  BY <1>2, <1>3, <1>4 DEF WakeInv, FlowInv

\* A thread that sleeps without a signal knows of nothing it could do.
LEMMA NothingLeft == Known /\ WakeInv => NoLostWakeup
PROOF
<1> SUFFICES ASSUME Known, WakeInv PROVE NoLostWakeup
  OBVIOUS
<1>1. pc = "off" => \A r \in Runs : phase[r] \in {"new", "resolved"}
  BY DEF WakeInv, Heard
<1>2. ASSUME pc = "sleep", ~signalled
      PROVE  /\ completions = {} /\ updates = {}
             /\ \A r \in Runs : phase[r] # "inbox"
             /\ draining \/ \A t \in ready : ~Candidate(t)
  BY <1>2 DEF WakeInv, Heard, Told
<1>3. ASSUME pc = "sleep", ~signalled, NEW r \in Contexts
      PROVE  \/ Active(r) # {} \/ (Pending \cup ready) \cap TasksOf(r) # {}
             \/ /\ r \in Natural /\ held \cap TasksOf(r) # {}
                /\ draining \/ r \in cancelled \cup journalFailed
  <2>1. at \notin Runs /\ visit = {} /\ r \in Runs
    BY <1>3 DEF Known, LoopInv, Contexts
  <2>2. Occupied(r)
    BY <1>3, <2>1 DEF WakeInv, Advanced
  <2>3. \A t \in held \cap TasksOf(r) : r \in Natural
    BY DEF WakeInv, HeldBack, TasksOf
  <2> QED
    BY <2>2, <2>3 DEF Occupied, Excused, Undisturbed, Ahead, Active
<1> QED
  BY <1>1, <1>2, <1>3 DEF NoLostWakeup

\* At every step a round knows what is on its way to it, every task that is
\* queued or running is where the thread will find it, and every context that was
\* looked at has something ahead of it, or an excuse to hold results back.
THEOREM WakeKept == ASSUME Once PROVE Spec => []WakeInv
PROOF
<1>1. Once => NoRetake
  BY DEF Once, NoRetake
<1>2. Known /\ Once /\ GateInv /\ WakeInv /\ [Next]_vars => WakeInv'
  <2> SUFFICES ASSUME Rested, [Next]_vars PROVE WakeInv'
    BY DEF Rested
  <2>1. FlowInv'
    BY StepInterrupts, StepUnqueued, StepSound, StepGateOpen, StepGateStands
       DEF FlowInv
  <2> QED
    BY <2>1, StepPlaces, StepUnstarted, StepHeldBack, StepHeard, StepAdvanced
       DEF WakeInv
<1>3. Known /\ WindowExact => Known
  OBVIOUS
<1>4. Spec => []Known
  BY <1>1, <1>3, KnownKept, PTL
<1>5. Known /\ GateInv /\ WakeInv /\ [Next]_vars => WakeInv'
  BY <1>2
<1>6. Spec => []GateInv
  BY <1>1, GateKept
<1> QED
  BY <1>4, <1>5, <1>6, InitWake, PTL DEF Spec

\* A coordinator that sleeps and was not signalled, or whose thread ended, has
\* left nothing behind that it could do now (_round, wait_for_updates), when
\* every run is submitted once: a context it keeps has a task queued, on a worker
\* or waiting for its destination, unless a drain, its cancellation or the loss of
\* its journal excuses a strict-natural run that only holds results back.
THEOREM NoWakeupLost == ASSUME Once PROVE Spec => []NoLostWakeup
PROOF
<1>1. Once => NoRetake
  BY DEF Once, NoRetake
<1>2. Known /\ WindowExact => Known
  OBVIOUS
<1>3. Spec => []Known
  BY <1>1, <1>2, KnownKept, PTL
<1> QED
  BY <1>3, NothingLeft, WakeKept, PTL
=============================================================================
