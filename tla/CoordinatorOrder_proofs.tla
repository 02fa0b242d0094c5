---------------------- MODULE CoordinatorOrder_proofs ----------------------
(***************************************************************************)
(* GraphCoordinator keeps the order of dependencies, no handler works for  *)
(* a run that was resolved, and the promise of PlanExecution is kept, for  *)
(* every plan and every mixture of callers, as long as a faulted run is    *)
(* not submitted again.                                                    *)
(***************************************************************************)
EXTENDS CoordinatorInvariant, GraphCoordinator_proofs

\* A fault leaves futures of a resolved run behind; _collect_completions would
\* give their results to another attempt of the same run.
NoRetake == "fault" \notin Controls \/ "resubmit" \notin Controls

\* A step that neither ends a task well nor takes one up.
Quiet ==
    /\ \A u \in Tasks : state'[u] = "succeeded" <=> state[u] = "succeeded"
    /\ \A u \in Tasks : state'[u] \notin Terminal =>
            \/ state'[u] = state[u]
            \/ state[u] = "queued" /\ state'[u] = "running"
    /\ unresolved' = unresolved
    /\ Holding' \subseteq Holding

\* The walk of finish_failed stops tasks that still waited for something.
LEMMA StoppedWaits ==
    ASSUME NEW st, NEW t \in Tasks, st[t] # "succeeded", NEW u \in Stopped(st, t)
    PROVE  /\ u \in Tasks /\ st[u] \notin Terminal
           /\ \E d \in DependsOn[u] : st[d] # "succeeded"
PROOF
<1> DEFINE B == {v \in Tasks : /\ st[v] \notin Terminal
                               /\ \E d \in DependsOn[v] : st[d] # "succeeded"}
<1>1. \A v \in Tasks :
          st[v] \notin Terminal /\ DependsOn[v] \cap (B \cup {t}) # {} => v \in B
  BY DEF Terminal
<1>2. B \in SUBSET Tasks
  OBVIOUS
<1> HIDE DEF B
<1>3. u \in B
  BY <1>1, <1>2 DEF Stopped
<1> QED
  BY <1>3 DEF B

\* Quiet steps keep what is said of task states: what a held task depends on
\* stays done, and no counter changes.
LEMMA QuietKeeps ==
    ASSUME Holding \subseteq Tasks, Entitled, Counted, DependencyOrder, Quiet
    PROVE  Entitled' /\ Counted' /\ DependencyOrder'
PROOF
<1>1. \A t \in Tasks : DependsOn[t] \subseteq Tasks
  BY PlanAssumption
<1>2. Entitled'
  <2>1. \A t \in Holding' : t \in Holding
    BY DEF Quiet
  <2> QED
    BY <1>1, <2>1 DEF Quiet, Entitled, Terminal
<1>3. Counted'
  <2>1. ASSUME NEW t \in Tasks
        PROVE  {d \in DependsOn[t] : state'[d] # "succeeded"}
                 = {d \in DependsOn[t] : state[d] # "succeeded"}
    BY <1>1 DEF Quiet
  <2> QED
    BY <2>1 DEF Quiet, Counted
<1>4. DependencyOrder'
  BY <1>1 DEF Quiet, DependencyOrder, Terminal
<1> QED
  BY <1>2, <1>3, <1>4

\* What the coordinator takes up are tasks of its plans.
LEMMA HoldingTasks ==
    ASSUME TypeOK PROVE Holding \subseteq Tasks /\ DependsOn \in [Tasks -> SUBSET Tasks]
PROOF
  BY PlanAssumption DEF Holding, Futures, TypeOK, LoopTypeOK, GraphTypeOK

\* _finish_error ends t and stops only tasks that wait for something, or that
\* are idle in a run whose journal failed.
LEMMA FinishErrorEffect ==
    ASSUME TypeOK, NEW t \in Tasks, state[t] # "succeeded",
           NEW active, NEW unsaved \in BOOLEAN, FinishError(t, active, unsaved)
    PROVE  /\ \A u \in Tasks : state'[u] = "succeeded" <=> state[u] = "succeeded"
           /\ \A u \in Tasks : state'[u] \notin Terminal => state'[u] = state[u]
           /\ ready' \subseteq ready /\ held' \subseteq held
           /\ waiting' \subseteq waiting /\ due' \subseteq due
           /\ \A u \in Tasks \ {t} :
                 /\ \A d \in DependsOn[u] : state[d] = "succeeded"
                 /\ u \in ready' \/ u \in active \/ RunOf[u] # RunOf[t]
                 => state'[u] = state[u]
PROOF
<1> DEFINE st == IF RunOf[t] \in cancelled THEN CancelAll(state, {t})
                 ELSE Fail(state, t)
<1>1. state \in [Tasks -> TaskStates]
  BY DEF TypeOK, GraphTypeOK
<1>2. \A u \in Tasks : /\ st[u] = "succeeded" <=> state[u] = "succeeded"
                       /\ st[u] \notin Terminal => st[u] = state[u]
                       /\ /\ u # t
                          /\ \A d \in DependsOn[u] : state[d] = "succeeded"
                          => st[u] = state[u]
  <2>1. CASE RunOf[t] \in cancelled
    BY <1>1, <2>1 DEF CancelAll, Terminal
  <2>2. CASE RunOf[t] \notin cancelled
    <3>1. \A u \in Stopped(state, t) : /\ u \in Tasks /\ state[u] \notin Terminal
                                       /\ \E d \in DependsOn[u] : state[d] # "succeeded"
      BY StoppedWaits
    <3>2. st = Fail(state, t)
      BY <2>2
    <3> QED
      BY <1>1, <3>1, <3>2 DEF Fail, Terminal
  <2> QED
    BY <2>1, <2>2
<1>3. \/ state' = st /\ UNCHANGED <<ready, held>>
      \/ /\ state' = Block(st, RunOf[t], active)
         /\ ready' = ready \ TasksOf(RunOf[t]) /\ held' \subseteq held
  BY DEF FinishError, Forget
<1>4. waiting' \subseteq waiting /\ due' \subseteq due
  BY DEF FinishError, Forget
<1> HIDE DEF st
<1>5. CASE state' = st /\ UNCHANGED <<ready, held>>
  BY <1>2, <1>4, <1>5
<1>6. CASE /\ state' = Block(st, RunOf[t], active)
           /\ ready' = ready \ TasksOf(RunOf[t]) /\ held' \subseteq held
  <2>1. \A u \in Tasks : state'[u] = IF /\ u \in TasksOf(RunOf[t]) \ active
                                        /\ st[u] \in Admissible \cup {"running"}
                                     THEN "blocked" ELSE st[u]
    BY <1>6 DEF Block
  <2> QED
    BY <1>2, <1>4, <1>6, <2>1 DEF Terminal, Admissible, TasksOf
<1> QED
  BY <1>3, <1>5, <1>6

\* What is carried from state to state.
Known == TypeOK /\ Advancing /\ NoRetake /\ WorkInv /\ LoopInv

\* _collect_completions: the future leaves, and its task is ended, held or left
\* to the commit that follows.
LEMMA WorkCollect ==
    ASSUME Known, NEW t \in Tasks, Collect(t) PROVE WorkInv'
PROOF
<1> DEFINE r == RunOf[t]
           active == Active(r) \ {t}
<1> USE DEF Known
<1>1. /\ state \in [Tasks -> TaskStates]
      /\ future \in [Tasks -> {"none", "pending", "running", "done", "error",
                               "cancelled"}]
      /\ DependsOn \in [Tasks -> SUBSET Tasks] /\ RunOf \in [Tasks -> Runs]
      /\ Holding \subseteq Tasks
  BY HoldingTasks, PlanAssumption DEF TypeOK, GraphTypeOK, WorkerTypeOK
<1>2. /\ t \in Futures /\ t \notin ready \cup held \cup Pending \cup completions
      /\ todo = {} /\ batch \cap completions = {}
  BY <1>1 DEF Collect, WorkInv, Collected, Apart, LoopInv, Futures
<1>3. state[t] # "succeeded"
  BY <1>2 DEF WorkInv, Entitled, Holding
<1>4. /\ Futures' = Futures \ {t}
      /\ \A u \in Tasks \ {t} : future'[u] = future[u]
  BY <1>1 DEF Collect, Futures
<1>5. /\ \A u \in Tasks : state'[u] = "succeeded" <=> state[u] = "succeeded"
      /\ \A u \in Tasks : state'[u] \notin Terminal => state'[u] = state[u]
      /\ \A u \in Tasks \ {t} :
            /\ \A d \in DependsOn[u] : state[d] = "succeeded"
            /\ u \in ready' \/ u \in active \/ RunOf[u] # r
            => state'[u] = state[u]
      /\ ready' \subseteq ready /\ waiting' \subseteq waiting /\ due' \subseteq due
      /\ \/ held' \subseteq held /\ todo' \subseteq {t}
         \/ held' \subseteq held \cup {t} /\ todo' = {}
  <2>1. CASE FinishError(t, active, FALSE) /\ UNCHANGED todo
    BY <1>2, <1>3, <2>1, FinishErrorEffect
  <2>2. CASE /\ UNCHANGED <<state, ready, waiting, due>>
             /\ \/ UNCHANGED <<held, todo>>
                \/ todo' = {t} /\ UNCHANGED held
                \/ held' = held \cup {t} /\ UNCHANGED todo
    BY <1>2, <2>2
  <2>3. CASE state' = CancelAll(state, {t}) /\ UNCHANGED <<todo, ready, held, waiting, due>>
    BY <1>1, <1>2, <1>3, <2>3 DEF CancelAll, Terminal
  <2>4. CASE /\ state' = Block(CancelAll(state, {t}), r, active)
             /\ Forget(TasksOf(r)) /\ UNCHANGED todo
    BY <1>1, <1>2, <1>3, <2>4 DEF CancelAll, Block, Terminal, Admissible, Forget, TasksOf
  <2> QED
    BY <2>1, <2>2, <2>3, <2>4 DEF Collect
<1>6. phase' = phase /\ unresolved' = unresolved /\ completions' = completions
      /\ batch' = batch \ {t}
  BY DEF Collect, runVars
<1>7. Holding' \subseteq Holding
  BY <1>2, <1>4, <1>5 DEF Holding, Pending
<1>8. Quiet
  BY <1>5, <1>6, <1>7 DEF Quiet
<1>9. (Entitled /\ Counted /\ DependencyOrder)'
  BY <1>1, <1>8, QuietKeeps DEF WorkInv
<1>10. Owned'
  BY <1>6, <1>7 DEF Owned, WorkInv
<1>11. Working'
  <2> SUFFICES ASSUME NEW u \in (ready \cup Futures)', phase[RunOf[u]] = "context"
               PROVE  state'[u] = state[u] /\ u \in ready \cup Futures
    BY <1>6 DEF Working, WorkInv
  <2>1. u \in Holding /\ u \in ready \cup Futures /\ u # t
    BY <1>2, <1>4, <1>5 DEF Holding
  <2>2. u \in ready' \/ u \in active \/ RunOf[u] # r
    BY <1>1, <1>4, <2>1 DEF Active, TasksOf
  <2> QED
    BY <1>1, <1>5, <2>1, <2>2 DEF WorkInv, Entitled
<1>12. Apart'
  BY <1>2, <1>4, <1>5 DEF Apart, WorkInv, Pending
<1>13. Collected'
  BY <1>1, <1>2, <1>4, <1>6 DEF Collected, WorkInv, TypeOK, LoopTypeOK, WorkerTypeOK
<1>14. NoOrphanWork'
  BY <1>1, <1>4, <1>6 DEF NoOrphanWork, WorkInv, Collect
<1> QED
  BY <1>9, <1>10, <1>11, <1>12, <1>13, <1>14 DEF WorkInv

\* What a quiet step that resolves no run has left to keep.
LEMMA QuietWork ==
    ASSUME Known, Quiet, phase' = phase, Apart', Collected', NoOrphanWork',
           \A u \in (ready \cup Futures)' :
              /\ u \in ready \cup Futures
              /\ state'[u] = state[u] \/ state'[u] = "running"
    PROVE  WorkInv'
PROOF
<1>1. (Entitled /\ Counted /\ DependencyOrder)'
  BY HoldingTasks, QuietKeeps DEF WorkInv, Known
<1>2. Owned'
  BY DEF Quiet, Owned, WorkInv, Known
<1>3. Working'
  BY DEF Working, WorkInv, Known
<1> QED
  BY <1>1, <1>2, <1>3 DEF WorkInv

\* The shapes of what the work invariant speaks of.
LEMMA WorkTypes ==
    ASSUME Known
    PROVE  /\ state \in [Tasks -> TaskStates] /\ unresolved \in [Tasks -> Int]
           /\ future \in [Tasks -> {"none", "pending", "running", "done",
                                    "error", "cancelled"}]
           /\ DependsOn \in [Tasks -> SUBSET Tasks] /\ RunOf \in [Tasks -> Runs]
           /\ Holding \subseteq Tasks
           /\ batch \subseteq Tasks /\ completions \subseteq Tasks
           /\ phase \in [Runs -> {"new", "inbox", "context", "resolved"}]
PROOF
  BY HoldingTasks, PlanAssumption DEF Known, TypeOK, LoopTypeOK, RunTypeOK,
     GraphTypeOK, WorkerTypeOK

\* commit_success: the task is done, and its dependants that await nothing more
\* are queued.
LEMMA WorkCommitted ==
    ASSUME Known, NEW t \in todo, todo' = todo \ {t}, Committed(t),
           UNCHANGED <<phase, future, batch, completions>>
    PROVE  WorkInv'
PROOF
<1> DEFINE awaited == [v \in Tasks |-> IF t \in DependsOn[v] THEN unresolved[v] - 1
                                       ELSE unresolved[v]]
           next == Freed(t, awaited)
<1>1. /\ t \in Tasks /\ t \in Holding /\ state[t] # "succeeded"
      /\ \A d \in DependsOn[t] : state[d] = "succeeded"
      /\ t \notin ready \cup held \cup Futures
  BY WorkTypes DEF Known, WorkInv, Entitled, Apart, Holding
<1>2. next \subseteq Tasks /\ next \cap Holding = {} /\ t \notin next
      /\ \A v \in next : /\ t \in DependsOn[v] /\ RunOf[v] = RunOf[t]
                         /\ unresolved'[v] = 0 /\ state[v] = "ready"
  BY <1>1, PlanAssumption DEF Committed, Freed, Dependants, Known, WorkInv, Entitled
<1>3. /\ unresolved' = awaited /\ ready' = ready \cup next
      /\ state' = [v \in Tasks |-> IF v = t THEN "succeeded"
                                   ELSE IF v \in next THEN "queued" ELSE state[v]]
      /\ waiting' = waiting \ {t} /\ due' = due \ {t} /\ held' = held
      /\ Futures' = Futures
  BY DEF Committed, Futures
<1> HIDE DEF next
<1>4. \A v \in Tasks : state'[v] = "succeeded" <=> v = t \/ state[v] = "succeeded"
  BY <1>1, <1>2, <1>3, WorkTypes
<1>5. Counted'
  <2> SUFFICES ASSUME NEW v \in Tasks
               PROVE  unresolved'[v]
                        = Cardinality({d \in DependsOn[v] : state'[d] # "succeeded"})
    BY DEF Counted
  <2> DEFINE before == {d \in DependsOn[v] : state[d] # "succeeded"}
             after == {d \in DependsOn[v] : state'[d] # "succeeded"}
  <2>1. unresolved[v] = Cardinality(before) /\ unresolved[v] \in Int
    BY WorkTypes DEF Known, WorkInv, Counted
  <2>2. IsFiniteSet(before)
    BY PlanAssumption, FS_Subset, WorkTypes
  <2>3. after = before \ {t}
    BY <1>1, <1>4, WorkTypes
  <2>4. t \in before <=> t \in DependsOn[v]
    BY <1>1
  <2>5. unresolved'[v] = IF t \in DependsOn[v] THEN unresolved[v] - 1 ELSE unresolved[v]
    BY <1>3
  <2> HIDE DEF before, after
  <2>6. Cardinality(after) = IF t \in before THEN Cardinality(before) - 1
                             ELSE Cardinality(before)
    BY <2>2, <2>3, FS_RemoveElement
  <2> QED
    BY <2>1, <2>4, <2>5, <2>6 DEF after
<1>6. \A v \in next : \A d \in DependsOn[v] : state'[d] = "succeeded"
  <2> SUFFICES ASSUME NEW v \in next
               PROVE  {d \in DependsOn[v] : state'[d] # "succeeded"} = {}
    OBVIOUS
  <2> DEFINE after == {d \in DependsOn[v] : state'[d] # "succeeded"}
  <2>1. IsFiniteSet(after)
    BY <1>2, PlanAssumption, FS_Subset, WorkTypes
  <2>2. Cardinality(after) = 0
    BY <1>2, <1>5 DEF Counted
  <2> QED
    BY <2>1, <2>2, FS_EmptySet
<1>7. Holding' \subseteq (Holding \cup next) \ {t}
  BY <1>1, <1>2, <1>3 DEF Holding
<1>8. Entitled'
  <2> SUFFICES ASSUME NEW u \in Holding'
               PROVE  /\ state'[u] \notin {"ready", "succeeded"}
                      /\ \A d \in DependsOn[u] : state'[d] = "succeeded"
    BY DEF Entitled
  <2>1. CASE u \in next
    BY <1>2, <1>3, <1>6, <1>7, <2>1
  <2>2. CASE u \in Holding \ {t}
    BY <1>2, <1>3, <1>4, <2>2, WorkTypes DEF Known, WorkInv, Entitled
  <2> QED
    BY <1>7, <2>1, <2>2
<1>9. DependencyOrder'
  BY <1>1, <1>3, <1>4, <1>6, WorkTypes DEF Known, WorkInv, DependencyOrder
<1>10. Owned'
  BY <1>1, <1>2, <1>7 DEF Known, WorkInv, Owned
<1>11. Working'
  BY <1>1, <1>2, <1>3, WorkTypes DEF Known, WorkInv, Working, Holding
<1>12. Apart'
  BY <1>1, <1>2, <1>3 DEF Known, WorkInv, Apart, Pending, Holding
<1>13. Collected' /\ NoOrphanWork'
  BY DEF Known, WorkInv, Collected, NoOrphanWork
<1> QED
  BY <1>5, <1>8, <1>9, <1>10, <1>11, <1>12, <1>13 DEF WorkInv

\* A result is committed, put off or refused; its task is in no queue and has no
\* future by then.
LEMMA WorkCommit ==
    ASSUME Known, NEW t \in Tasks, Commit(t) PROVE WorkInv'
PROOF
<1> DEFINE r == RunOf[t]
<1>1. t \in todo /\ todo' = todo \ {t} /\ UNCHANGED <<phase, future, batch, completions>>
  BY DEF Commit, runVars, workerVars
<1>2. /\ state[t] # "succeeded" /\ t \in Holding /\ t \notin ready \cup held \cup Futures
  BY <1>1 DEF Known, WorkInv, Entitled, Apart, Holding
<1>3. Futures' = Futures /\ UNCHANGED <<phase, batch, completions>>
  BY <1>1 DEF Futures
<1>4. Collected' /\ NoOrphanWork'
  BY <1>1 DEF Known, WorkInv, Collected, NoOrphanWork
<1>5. CASE Committed(t)
  BY <1>1, <1>5, WorkCommitted
<1>6. ASSUME UNCHANGED unresolved,
             \A u \in Tasks : state'[u] = "succeeded" <=> state[u] = "succeeded",
             \A u \in Tasks : state'[u] \notin Terminal => state'[u] = state[u],
             \A u \in Tasks \ {t} :
                /\ \A d \in DependsOn[u] : state[d] = "succeeded"
                /\ u \in ready' \/ u \in Active(r) \/ RunOf[u] # r
                => state'[u] = state[u],
             ready' \subseteq ready, held' \subseteq held,
             waiting' \subseteq waiting \cup {t}, due' \subseteq due
      PROVE  WorkInv'
  <2>1. Quiet
    BY <1>1, <1>2, <1>3, <1>6 DEF Quiet, Holding
  <2>2. Apart'
    BY <1>1, <1>2, <1>3, <1>6 DEF Known, WorkInv, Apart, Pending
  <2>3. ASSUME NEW u \in (ready \cup Futures)'
        PROVE  u \in ready \cup Futures /\ state'[u] = state[u]
    <3>1. u \in ready \cup Futures /\ u # t /\ u \in Tasks /\ u \in Holding
      BY <1>2, <1>3, <1>6, <2>3, WorkTypes DEF Holding
    <3>2. u \in ready' \/ u \in Active(r) \/ RunOf[u] # r
      BY <1>3, <2>3, <3>1 DEF Active, TasksOf
    <3> QED
      BY <1>6, <3>1, <3>2 DEF Known, WorkInv, Entitled
  <2> QED
    BY <1>3, <1>4, <2>1, <2>2, <2>3, QuietWork
<1>7. ASSUME NEW unsaved \in BOOLEAN, FinishError(t, Active(r), unsaved),
             UNCHANGED unresolved
      PROVE  WorkInv'
  <2>1. state[t] # "succeeded" /\ TypeOK
    BY <1>2 DEF Known
  <2> QED
    BY <1>6, <1>7, <2>1, FinishErrorEffect
<1>8. CASE Deferred(t)
  BY <1>6, <1>8 DEF Deferred
<1>9. CASE /\ state' = [state EXCEPT ![t] = "blocked"]
           /\ UNCHANGED <<unresolved, ready, held, waiting, due>>
  BY <1>2, <1>6, <1>9, WorkTypes DEF Terminal
<1> QED
  BY <1>5, <1>7, <1>8, <1>9 DEF Commit

\* _submit_task moves a task of a context from its queue to an executor.
LEMMA WorkAdmit ==
    ASSUME Known, NEW t \in Tasks, Admit(t) PROVE WorkInv'
PROOF
<1>1. /\ t \in ready /\ ready' = ready \ {t} /\ RunOf[t] \in Contexts
      /\ UNCHANGED <<phase, unresolved, held, waiting, due, todo, batch, completions>>
  BY DEF Admit, Candidate, runVars, loopVars
<1>2. t \in Holding /\ t \notin held \cup Pending \cup Futures \cup todo \cup batch \cup completions
  <2>1. t \in Holding /\ t \notin held \cup Pending \cup Futures \cup todo
    BY <1>1 DEF Known, WorkInv, Apart, Holding
  <2> QED
    BY <2>1 DEF Known, WorkInv, Collected, Futures
<1>3. state[t] # "succeeded"
  BY <1>2 DEF Known, WorkInv, Entitled
<1>4. CASE future' = [future EXCEPT ![t] = "pending"] /\ state' = state
  <2>1. Futures' = Futures \cup {t}
    BY <1>4, WorkTypes DEF Futures
  <2>2. Quiet
    BY <1>1, <1>2, <1>4, <2>1 DEF Quiet, Holding
  <2>3. Apart'
    BY <1>1, <1>2, <2>1 DEF Known, WorkInv, Apart, Pending
  <2>4. Collected'
    BY <1>1, <1>2, <1>4, WorkTypes DEF Known, WorkInv, Collected
  <2>5. NoOrphanWork'
    BY <1>1, <1>4, WorkTypes DEF Known, WorkInv, NoOrphanWork, Contexts
  <2> QED
    BY <1>1, <1>4, <2>1, <2>2, <2>3, <2>4, <2>5, QuietWork
<1>5. CASE state' = Fail(state, t) /\ future' = future
  <2>1. \A u \in Stopped(state, t) : /\ u \in Tasks /\ state[u] \notin Terminal
                                     /\ \E d \in DependsOn[u] : state[d] # "succeeded"
    BY <1>3, StoppedWaits
  <2>2. \A u \in Tasks : /\ state'[u] = "succeeded" <=> state[u] = "succeeded"
                         /\ state'[u] \notin Terminal => state'[u] = state[u]
                         /\ /\ u # t
                            /\ \A d \in DependsOn[u] : state[d] = "succeeded"
                            => state'[u] = state[u]
    BY <1>3, <1>5, <2>1 DEF Fail, Terminal
  <2>3. Futures' = Futures
    BY <1>5 DEF Futures
  <2>4. Quiet
    BY <1>1, <2>2, <2>3 DEF Quiet, Holding
  <2>5. Apart' /\ Collected' /\ NoOrphanWork'
    BY <1>1, <1>5, <2>3 DEF Known, WorkInv, Apart, Pending, Collected, NoOrphanWork
  <2>6. \A u \in (ready \cup Futures)' : u \in ready \cup Futures /\ state'[u] = state[u]
    BY <1>1, <1>2, <2>2, <2>3, WorkTypes DEF Known, WorkInv, Entitled, Holding
  <2> QED
    BY <1>1, <2>4, <2>5, <2>6, QuietWork
<1> QED
  BY <1>4, <1>5 DEF Admit

\* A worker takes its task, or its handler ends; a locked destination is due.
LEMMA WorkWorker ==
    ASSUME Known, NEW t \in Tasks, WorkerStart(t) \/ WorkerEnd(t) \/ Elapse(t)
    PROVE  WorkInv'
PROOF
<1>1. /\ UNCHANGED <<state, unresolved, phase, ready, held, todo, batch>>
      /\ Pending' = Pending /\ Futures' = Futures
  BY WorkTypes DEF WorkerStart, WorkerEnd, Elapse, Pending, Futures, graphVars,
                   runVars, loopVars, workerVars
<1>2. Collected'
  BY WorkTypes DEF WorkerStart, WorkerEnd, Elapse, Known, WorkInv, Collected,
                   loopVars, workerVars
<1>3. NoOrphanWork'
  BY WorkTypes DEF WorkerStart, WorkerEnd, Elapse, Known, WorkInv, NoOrphanWork,
                   runVars, workerVars
<1>4. Apart'
  BY <1>1 DEF Known, WorkInv, Apart
<1>5. Quiet
  BY <1>1 DEF Quiet, Holding, Pending
<1> QED
  BY <1>1, <1>2, <1>3, <1>4, <1>5, QuietWork

\* _cancel_unfinished ends everything of a run but the tasks on workers.
LEMMA WorkCancelUnfinished ==
    ASSUME Known, NEW r \in Runs, CancelUnfinished(r) PROVE WorkInv'
PROOF
<1> DEFINE mine == TasksOf(r)
           withdrawn == {t \in mine : future[t] = "pending"}
           active == Active(r) \ withdrawn
           idle == {t \in mine \ active : state[t] \in Admissible}
           stopped == idle \cup withdrawn \cup ((held \cup Pending) \cap mine)
<1>1. /\ future' = [t \in Tasks |-> IF t \in withdrawn THEN "none" ELSE future[t]]
      /\ state' = CancelAll(state, stopped)
      /\ Forget(mine)
      /\ UNCHANGED <<phase, unresolved, todo, batch, completions>>
  BY DEF CancelUnfinished, runVars
<1>2. \A u \in Tasks : /\ state'[u] = "succeeded" <=> state[u] = "succeeded"
                       /\ state'[u] \notin Terminal => state'[u] = state[u]
                       /\ u \notin stopped => state'[u] = state[u]
  BY <1>1 DEF CancelAll, Terminal
<1>3. Futures' = Futures \ withdrawn
  BY <1>1, WorkTypes DEF Futures, TasksOf
<1>4. Quiet
  BY <1>1, <1>2, <1>3 DEF Quiet, Holding, Forget
<1>5. Apart'
  BY <1>1, <1>3 DEF Known, WorkInv, Apart, Pending, Forget
<1>6. Collected'
  BY <1>1, WorkTypes DEF Known, WorkInv, Collected
<1>7. NoOrphanWork'
  BY <1>1, WorkTypes DEF Known, WorkInv, NoOrphanWork
<1>8. ASSUME NEW u \in (ready \cup Futures)'
      PROVE  u \in ready \cup Futures /\ state'[u] = state[u]
  <2>1. CASE u \in ready'
    <3>1. u \in ready /\ u \notin mine
      BY <1>1, <2>1 DEF Forget
    <3>2. u \notin stopped /\ u \in Tasks
      BY <3>1, WorkTypes DEF TasksOf, Holding
    <3> QED
      BY <1>2, <3>1, <3>2
  <2>2. CASE u \in Futures'
    <3>1. u \in Futures \ withdrawn /\ u \in Tasks
      BY <1>3, <2>2 DEF Futures
    <3>2. u \notin held \cup Pending
      BY <3>1 DEF Known, WorkInv, Apart
    <3>3. u \notin idle
      BY <3>1 DEF Active
    <3> QED
      BY <1>2, <3>1, <3>2, <3>3
  <2> QED
    BY <1>8, <2>1, <2>2
<1> QED
  BY <1>1, <1>4, <1>5, <1>6, <1>7, <1>8, QuietWork

\* The steps of a round that move tasks between tables, or stop idle ones.
LEMMA WorkRound ==
    ASSUME Known,
           \/ ApplyUpdates \/ (\E r \in Runs : BeginRelease(r)) \/ ForwardHeld
           \/ PauseContext \/ EndAdmit \/ DrainCompletions
    PROVE  WorkInv'
PROOF
<1>1. CASE ApplyUpdates
  <2>1. /\ UNCHANGED <<unresolved, phase, ready, held, waiting, due, todo, batch,
                       future, completions>>
        /\ Futures' = Futures
    BY <1>1 DEF ApplyUpdates, runVars, loopVars, Futures
  <2>2. \A u \in Tasks : \/ state'[u] = state[u]
                         \/ state[u] = "queued" /\ state'[u] = "running"
    BY <1>1 DEF ApplyUpdates
  <2>3. Quiet
    BY <2>1, <2>2 DEF Quiet, Holding
  <2>4. Apart' /\ Collected' /\ NoOrphanWork'
    BY <2>1 DEF Known, WorkInv, Apart, Pending, Collected, NoOrphanWork
  <2> QED
    BY <2>1, <2>2, <2>3, <2>4, QuietWork, WorkTypes DEF Holding
<1>2. CASE DrainCompletions
  <2>1. /\ UNCHANGED <<state, unresolved, phase, ready, held, waiting, due, todo,
                       future>>
        /\ Futures' = Futures /\ batch' = completions /\ completions' = {}
    BY <1>2 DEF DrainCompletions, runVars, graphVars, Futures
  <2>2. Quiet
    BY <2>1 DEF Quiet, Holding
  <2>3. Apart' /\ Collected' /\ NoOrphanWork'
    BY <2>1 DEF Known, WorkInv, Apart, Pending, Collected, NoOrphanWork
  <2> QED
    BY <2>1, <2>2, <2>3, QuietWork
<1>3. ASSUME NEW r \in Runs, BeginRelease(r)
      PROVE  WorkInv'
  <2>1. /\ UNCHANGED <<state, unresolved, phase, ready, held, waiting, due, batch,
                       future, completions>>
        /\ Futures' = Futures /\ todo' \subseteq due
    BY <1>3 DEF BeginRelease, runVars, graphVars, workerVars, Futures
  <2>2. Quiet
    BY <2>1 DEF Quiet, Holding
  <2>3. Apart' /\ Collected' /\ NoOrphanWork'
    BY <2>1 DEF Known, WorkInv, Apart, Pending, Collected, NoOrphanWork
  <2> QED
    BY <2>1, <2>2, <2>3, QuietWork
<1>4. CASE ForwardHeld
  <2>1. /\ UNCHANGED <<state, unresolved, phase, ready, waiting, due, batch,
                       future, completions>>
        /\ Futures' = Futures /\ todo' \subseteq held /\ held' = held \ todo'
    BY <1>4 DEF ForwardHeld, runVars, workerVars, Futures
  <2>2. Quiet
    BY <2>1 DEF Quiet, Holding
  <2>3. Apart' /\ Collected' /\ NoOrphanWork'
    BY <2>1 DEF Known, WorkInv, Apart, Pending, Collected, NoOrphanWork
  <2> QED
    BY <2>1, <2>2, <2>3, QuietWork
<1>5. CASE EndAdmit
  <2>1. /\ UNCHANGED <<state, unresolved, phase, held, waiting, due, batch, todo,
                       future, completions>>
        /\ Futures' = Futures /\ ready' \subseteq ready
    BY <1>5 DEF EndAdmit, runVars, loopVars, workerVars, Futures
  <2>2. Quiet
    BY <2>1 DEF Quiet, Holding
  <2>3. Apart' /\ Collected' /\ NoOrphanWork'
    BY <2>1 DEF Known, WorkInv, Apart, Pending, Collected, NoOrphanWork
  <2> QED
    BY <2>1, <2>2, <2>3, QuietWork
<1>6. CASE PauseContext
  <2>1. /\ UNCHANGED <<unresolved, phase, held, waiting, due, batch, todo, future,
                       completions>>
        /\ Futures' = Futures /\ ready' \subseteq ready
    BY <1>6 DEF PauseContext, runVars, Futures
  <2>2. CASE UNCHANGED <<state, ready>>
    <3>1. Quiet
      BY <2>1, <2>2 DEF Quiet, Holding
    <3>2. Apart' /\ Collected' /\ NoOrphanWork'
      BY <2>1, <2>2 DEF Known, WorkInv, Apart, Pending, Collected, NoOrphanWork
    <3> QED
      BY <2>1, <2>2, <3>1, <3>2, QuietWork
  <2>3. CASE /\ Active(at) = {} /\ ready' = ready \ TasksOf(at)
             /\ state' = CancelAll(state, {t \in TasksOf(at) : state[t] \in Admissible})
    <3>1. \A u \in Tasks : /\ state'[u] = "succeeded" <=> state[u] = "succeeded"
                           /\ state'[u] \notin Terminal => state'[u] = state[u]
                           /\ u \notin TasksOf(at) => state'[u] = state[u]
      BY <2>3 DEF CancelAll, Terminal
    <3>2. Quiet
      BY <2>1, <3>1 DEF Quiet, Holding
    <3>3. Apart' /\ Collected' /\ NoOrphanWork'
      BY <2>1 DEF Known, WorkInv, Apart, Pending, Collected, NoOrphanWork
    <3>4. \A u \in (ready \cup Futures)' : u \in ready \cup Futures
                                           /\ u \in Tasks \ TasksOf(at)
      BY <2>1, <2>3, WorkTypes DEF Active, Holding
    <3> QED
      BY <2>1, <3>1, <3>2, <3>3, <3>4, QuietWork
  <2> QED
    BY <1>6, <2>2, <2>3 DEF PauseContext
<1> QED
  BY <1>1, <1>2, <1>3, <1>4, <1>5, <1>6

\* A step that resolves contexts of which no task is held any more.
LEMMA ResolveWork ==
    ASSUME Known, Quiet, UNCHANGED <<state, future, batch, completions>>,
           NEW gone \in SUBSET Contexts,
           phase' = [r \in Runs |-> IF r \in gone THEN "resolved" ELSE phase[r]],
           \A t \in Holding' : RunOf[t] \in gone => "resubmit" \notin Controls,
           \A t \in Futures : RunOf[t] \in gone => future[t] \notin {"pending", "running"},
           ready' \subseteq ready, Apart'
    PROVE  WorkInv'
PROOF
<1>1. (Entitled /\ Counted /\ DependencyOrder)'
  BY WorkTypes, QuietKeeps DEF WorkInv, Known
<1>2. Owned'
  BY WorkTypes DEF Quiet, Owned, WorkInv, Known
<1>3. Futures' = Futures
  BY DEF Futures
<1>4. Working'
  <2> SUFFICES ASSUME NEW t \in (ready \cup Futures)', phase'[RunOf[t]] = "context"
               PROVE  state[t] \in {"queued", "running"}
    BY DEF Working
  <2>1. t \in ready \cup Futures /\ t \in Tasks
    BY <1>3, WorkTypes DEF Holding
  <2>2. phase[RunOf[t]] = "context"
    BY <2>1, WorkTypes
  <2> QED
    BY <2>1, <2>2 DEF Known, WorkInv, Working
<1>5. Collected'
  BY DEF Known, WorkInv, Collected
<1>6. NoOrphanWork'
  BY WorkTypes DEF Known, WorkInv, NoOrphanWork, Futures
<1> QED
  BY <1>1, <1>2, <1>4, <1>5, <1>6 DEF WorkInv

\* A stalled context has no task queued or running, hence no future.
LEMMA WorkSettle ==
    ASSUME Known, Settle PROVE WorkInv'
PROOF
<1>1. /\ at \in Runs /\ at \in Contexts /\ todo = {}
      /\ UNCHANGED <<state, unresolved, held, waiting, due, batch, future, completions>>
      /\ Futures' = Futures /\ ready' \subseteq ready /\ todo' \subseteq due
  BY DEF Settle, Known, Advancing, LoopInv, workerVars, Futures
<1>2. Quiet
  BY <1>1 DEF Quiet, Holding
<1>3. Apart'
  BY <1>1 DEF Known, WorkInv, Apart, Pending
<1>4. CASE phase' = phase
  BY <1>1, <1>2, <1>3, <1>4, QuietWork DEF Known, WorkInv, Collected, NoOrphanWork
<1>5. CASE /\ Stalled(at) /\ phase' = [phase EXCEPT ![at] = "resolved"]
           /\ ready' = ready \ TasksOf(at) /\ todo' = todo
  <2>1. phase' = [r \in Runs |-> IF r \in {at} THEN "resolved" ELSE phase[r]]
    BY <1>5, WorkTypes
  <2>2. \A t \in Futures : RunOf[t] # at
    BY <1>1, <1>5, WorkTypes DEF Known, WorkInv, Working, Stalled, TasksOf,
                                 Contexts, Futures
  <2>3. \A t \in Holding' : RunOf[t] # at
    <3>1. Holding' \subseteq Tasks
      BY <1>2, WorkTypes DEF Quiet
    <3> QED
      BY <1>1, <1>5, <2>2, <3>1 DEF Holding, Stalled, TasksOf, Pending
  <2>4. /\ {at} \in SUBSET Contexts
        /\ \A t \in Holding' : RunOf[t] \in {at} => "resubmit" \notin Controls
        /\ \A t \in Futures : RunOf[t] \in {at}
                => future[t] \notin {"pending", "running"}
    BY <1>1, <2>2, <2>3
  <2> QED
    BY <1>1, <1>2, <1>3, <2>1, <2>4, ResolveWork
<1> QED
  BY <1>4, <1>5 DEF Settle

\* A context is finished when all of its tasks are terminal, hence without futures.
LEMMA WorkFinish ==
    ASSUME Known, Finish PROVE WorkInv'
PROOF
<1>1. /\ at \in Runs /\ at \in Contexts /\ todo = {} /\ AllTerminal(at)
      /\ UNCHANGED <<state, unresolved, batch, todo, future, completions>>
      /\ phase' = [phase EXCEPT ![at] = "resolved"]
      /\ Forget(TasksOf(at)) /\ Futures' = Futures
  BY DEF Finish, Known, Advancing, LoopInv, workerVars, Futures
<1>2. Quiet
  BY <1>1 DEF Quiet, Holding, Forget
<1>3. Apart'
  BY <1>1 DEF Known, WorkInv, Apart, Pending, Forget
<1>4. phase' = [r \in Runs |-> IF r \in {at} THEN "resolved" ELSE phase[r]]
  BY <1>1, WorkTypes
<1>5. \A t \in Futures : RunOf[t] # at
  BY <1>1, WorkTypes DEF Known, WorkInv, Working, AllTerminal, TasksOf, Contexts,
                         Futures, Terminal
<1>6. \A t \in Holding' : RunOf[t] # at
  <2>1. Holding' \subseteq Tasks
    BY <1>2, WorkTypes DEF Quiet
  <2> QED
    BY <1>1, <1>5, <2>1 DEF Holding, Forget, TasksOf
<1>7. /\ {at} \in SUBSET Contexts
      /\ \A t \in Holding' : RunOf[t] \in {at} => "resubmit" \notin Controls
      /\ \A t \in Futures : RunOf[t] \in {at}
              => future[t] \notin {"pending", "running"}
  BY <1>1, <1>5, <1>6
<1> QED
  BY <1>1, <1>2, <1>3, <1>4, <1>7, ResolveWork DEF Forget

\* _fail_all resolves every run once no worker is in a handler.
LEMMA WorkFault ==
    ASSUME Known, Fault \/ FailAll PROVE WorkInv'
PROOF
<1>1. CASE Fault
  <2> DEFINE withdrawn == {t \in Tasks : future[t] = "pending"}
  <2>1. /\ UNCHANGED <<state, unresolved, phase, ready, held, waiting, due, todo, batch>>
        /\ future' = [t \in Tasks |-> IF t \in withdrawn THEN "cancelled" ELSE future[t]]
        /\ completions' = completions \cup withdrawn
    BY <1>1 DEF Fault, runVars, graphVars, loopVars
  <2>2. Futures' = Futures
    BY <2>1, WorkTypes DEF Futures
  <2>3. Quiet
    BY <2>1, <2>2 DEF Quiet, Holding
  <2>4. Apart' /\ NoOrphanWork'
    BY <2>1, <2>2 DEF Known, WorkInv, Apart, Pending, NoOrphanWork
  <2>5. Collected'
    BY <2>1, WorkTypes DEF Known, WorkInv, Collected
  <2> QED
    BY <2>1, <2>2, <2>3, <2>4, <2>5, QuietWork
<1>2. CASE FailAll
  <2> DEFINE known == {r \in Runs : phase[r] \in {"inbox", "context"}}
             mine == {t \in Tasks : RunOf[t] \in known}
  <2>1. /\ UNCHANGED <<state, unresolved, ready, todo, batch, future, completions>>
        /\ phase' = [r \in Runs |-> IF r \in known THEN "resolved" ELSE phase[r]]
        /\ held' = held \ mine /\ waiting' = waiting \ mine /\ due' = due \ mine
        /\ Futures' = Futures /\ WorkersIdle
    BY <1>2 DEF FailAll, loopVars, workerVars, Futures
  <2>2. "resubmit" \notin Controls
    BY <1>2 DEF FailAll, Known, LoopInv, NoRetake
  <2>3. Quiet
    BY <2>1 DEF Quiet, Holding
  <2>4. Apart' /\ Collected'
    BY <2>1 DEF Known, WorkInv, Apart, Pending, Collected
  <2>5. (Entitled /\ Counted /\ DependencyOrder)'
    BY <2>3, WorkTypes, QuietKeeps DEF WorkInv, Known
  <2>6. Owned'
    BY <2>1, <2>2, <2>3, WorkTypes DEF Quiet, Owned, WorkInv, Known
  <2>7. Working'
    <3>1. \A t \in ready \cup Futures : phase'[RunOf[t]] # "context"
      BY <2>1, WorkTypes DEF Holding
    <3> QED
      BY <2>1, <3>1 DEF Working
  <2>8. NoOrphanWork'
    BY <2>1 DEF WorkersIdle, NoOrphanWork
  <2> QED
    BY <2>4, <2>5, <2>6, <2>7, <2>8 DEF WorkInv
<1> QED
  BY <1>1, <1>2

\* _accept_pending queues the tasks that depend on nothing unfinished.
LEMMA WorkAccept ==
    ASSUME Known, Accept PROVE WorkInv'
PROOF
<1> DEFINE new == {r \in Runs : phase[r] = "inbox"}
           first == FirstTasks(new)
<1>1. /\ phase' = [r \in Runs |-> IF r \in new THEN "context" ELSE phase[r]]
      /\ state' = [t \in Tasks |-> IF t \in first THEN "queued" ELSE state[t]]
      /\ ready' = ready \cup first
      /\ UNCHANGED <<unresolved, held, waiting, due, todo, batch, future, completions>>
      /\ Futures' = Futures
  BY DEF Accept, loopVars, workerVars, Futures
<1>2. /\ first \subseteq Tasks /\ first \cap Holding = {}
      /\ \A t \in first : RunOf[t] \in new /\ state[t] = "ready" /\ unresolved[t] = 0
  BY DEF FirstTasks, Known, WorkInv, Entitled
<1> HIDE DEF first
<1>3. \A t \in first : \A d \in DependsOn[t] : state[d] = "succeeded"
  <2> SUFFICES ASSUME NEW t \in first
               PROVE  {d \in DependsOn[t] : state[d] # "succeeded"} = {}
    OBVIOUS
  <2>1. IsFiniteSet({d \in DependsOn[t] : state[d] # "succeeded"})
    BY <1>2, PlanAssumption, FS_Subset, WorkTypes
  <2> QED
    BY <1>2, <2>1, FS_EmptySet DEF Known, WorkInv, Counted
<1>4. \A t \in Tasks : state'[t] = "succeeded" <=> state[t] = "succeeded"
  BY <1>1, <1>2
<1>5. Holding' \subseteq Holding \cup first
  BY <1>1 DEF Holding
<1>6. Owned'
  BY <1>1, <1>2, <1>5, WorkTypes DEF Known, WorkInv, Owned
<1>7. Entitled'
  <2> SUFFICES ASSUME NEW u \in Holding'
               PROVE  /\ state'[u] \notin {"ready", "succeeded"}
                      /\ \A d \in DependsOn[u] : state'[d] = "succeeded"
    BY DEF Entitled
  <2>1. CASE u \in first
    BY <1>1, <1>2, <1>3, <1>4, <2>1, WorkTypes
  <2>2. CASE u \in Holding
    BY <1>1, <1>2, <1>4, <2>2, WorkTypes DEF Known, WorkInv, Entitled
  <2> QED
    BY <1>5, <2>1, <2>2
<1>8. Counted'
  <2>1. ASSUME NEW t \in Tasks
        PROVE  {d \in DependsOn[t] : state'[d] # "succeeded"}
                 = {d \in DependsOn[t] : state[d] # "succeeded"}
    BY <1>4, WorkTypes
  <2> QED
    BY <1>1, <2>1 DEF Known, WorkInv, Counted
<1>9. DependencyOrder'
  BY <1>1, <1>3, <1>4, WorkTypes DEF Known, WorkInv, DependencyOrder
<1>10. Working'
  <2> SUFFICES ASSUME NEW t \in (ready \cup Futures)', phase'[RunOf[t]] = "context"
               PROVE  state'[t] \in {"queued", "running"}
    BY DEF Working
  <2>1. CASE t \in first
    BY <1>1, <1>2, <2>1
  <2>2. CASE t \in ready \cup Futures
    <3>1. t \in Tasks /\ t \notin first /\ t \in Holding
      BY <1>2, <2>2, WorkTypes DEF Holding
    <3>2. phase[RunOf[t]] = "context"
      BY <1>1, <3>1, WorkTypes DEF Known, WorkInv, Owned
    <3> QED
      BY <1>1, <2>2, <3>1, <3>2 DEF Known, WorkInv, Working
  <2> QED
    BY <1>1, <2>1, <2>2
<1>11. Apart'
  BY <1>1, <1>2 DEF Known, WorkInv, Apart, Pending, Holding
<1>12. Collected' /\ NoOrphanWork'
  BY <1>1, WorkTypes DEF Known, WorkInv, Collected, NoOrphanWork
<1> QED
  BY <1>6, <1>7, <1>8, <1>9, <1>10, <1>11, <1>12 DEF WorkInv

\* A run is submitted only when nothing of an earlier attempt is left.
LEMMA WorkSubmit ==
    ASSUME Known, NEW r \in Runs, Submit(r) PROVE WorkInv'
PROOF
<1>1. /\ phase[r] = "new" \/ (phase[r] = "resolved" /\ "resubmit" \in Controls)
      /\ phase' = [phase EXCEPT ![r] = "inbox"]
      /\ state' = [t \in Tasks |-> IF RunOf[t] = r /\ state[t] # "succeeded"
                                   THEN "ready" ELSE state[t]]
      /\ unresolved' = [t \in Tasks |-> IF RunOf[t] # r THEN unresolved[t] ELSE
              Cardinality({d \in DependsOn[t] : state[d] # "succeeded"})]
      /\ UNCHANGED <<ready, held, waiting, due, todo, batch, future, completions>>
      /\ Futures' = Futures
  BY DEF Submit, loopVars, workerVars, Futures
<1>2. \A t \in Holding : RunOf[t] # r
  BY <1>1 DEF Known, WorkInv, Owned
<1>3. \A t \in Tasks : state'[t] = "succeeded" <=> state[t] = "succeeded"
  BY <1>1
<1>4. Holding' = Holding
  BY <1>1 DEF Holding
<1>5. Owned'
  BY <1>1, <1>2, <1>4, WorkTypes DEF Known, WorkInv, Owned
<1>6. Entitled'
  BY <1>1, <1>2, <1>3, <1>4, WorkTypes DEF Known, WorkInv, Entitled
<1>7. Counted'
  <2>1. ASSUME NEW t \in Tasks
        PROVE  {d \in DependsOn[t] : state'[d] # "succeeded"}
                 = {d \in DependsOn[t] : state[d] # "succeeded"}
    BY <1>3, WorkTypes
  <2> QED
    BY <1>1, <2>1 DEF Known, WorkInv, Counted
<1>8. DependencyOrder'
  BY <1>1, <1>3, WorkTypes DEF Known, WorkInv, DependencyOrder
<1>9. Working'
  <2> SUFFICES ASSUME NEW t \in ready \cup Futures, phase'[RunOf[t]] = "context"
               PROVE  state'[t] \in {"queued", "running"}
    BY <1>1 DEF Working
  <2>1. t \in Tasks /\ RunOf[t] # r
    BY <1>2, WorkTypes DEF Holding
  <2> QED
    BY <1>1, <2>1, WorkTypes DEF Known, WorkInv, Working
<1>10. Apart' /\ Collected'
  BY <1>1 DEF Known, WorkInv, Apart, Pending, Collected
<1>11. NoOrphanWork'
  BY <1>1, WorkTypes DEF Known, WorkInv, NoOrphanWork
<1> QED
  BY <1>5, <1>6, <1>7, <1>8, <1>9, <1>10, <1>11 DEF WorkInv

\* The steps that touch nothing the work invariant speaks of.
LEMMA WorkFrame ==
    ASSUME Known,
           UNCHANGED <<state, unresolved, phase, ready, held, waiting, due, todo,
                       batch, future, completions>>
    PROVE  WorkInv'
PROOF
<1>1. Futures' = Futures /\ Holding' = Holding /\ Pending' = Pending
  BY DEF Futures, Holding, Pending
<1>2. Owned' /\ Entitled' /\ Counted'
  BY <1>1 DEF Known, WorkInv, Owned, Entitled, Counted
<1>3. DependencyOrder' /\ Working' /\ Apart' /\ Collected' /\ NoOrphanWork'
  BY <1>1 DEF Known, WorkInv, DependencyOrder, Working, Apart, Collected, NoOrphanWork
<1> QED
  BY <1>2, <1>3 DEF WorkInv

\* No step of the coordinator, its callers or its workers breaks the work
\* invariant.
LEMMA StepWork == Known /\ [Next]_vars => WorkInv'
PROOF
<1> SUFFICES ASSUME Known, [Next]_vars PROVE WorkInv'
  OBVIOUS
<1>1. ASSUME NEW t \in Tasks,
             Worker(t) \/ Elapse(t) \/ Collect(t) \/ Commit(t) \/ Admit(t)
      PROVE  WorkInv'
  BY <1>1, WorkWorker, WorkCollect, WorkCommit, WorkAdmit DEF Worker
<1>2. ASSUME NEW r \in Runs, CancelUnfinished(r) \/ BeginRelease(r) \/ Submit(r)
      PROVE  WorkInv'
  BY <1>2, WorkCancelUnfinished, WorkRound, WorkSubmit
<1>3. CASE ApplyUpdates \/ ForwardHeld \/ PauseContext \/ EndAdmit \/ DrainCompletions
  BY <1>3, WorkRound
<1>4. CASE Settle \/ Finish \/ Fault \/ FailAll \/ Accept
  BY <1>4, WorkSettle, WorkFinish, WorkFault, WorkAccept
<1>5. CASE Observe \/ BeginAdvance \/ ReportGroups \/ EndAdvance \/ TakeLimits
           \/ Exit \/ WakeUp
  BY <1>5, WorkFrame
     DEF Observe, BeginAdvance, ReportGroups, EndAdvance, TakeLimits, Exit,
         WakeUp, loopVars, runVars, graphVars, workerVars
<1>6. CASE (\E r \in Runs : Cancel(r)) \/ SetBackground \/ Drain \/ Pause
           \/ Resume \/ Close
  BY <1>6, WorkFrame
     DEF Cancel, SetBackground, Drain, Pause, Resume, Close, loopVars, runVars,
         graphVars, workerVars
<1>7. CASE UNCHANGED vars
  BY <1>7, WorkFrame DEF vars, loopVars, runVars, graphVars, workerVars
<1> QED
  BY <1>1, <1>2, <1>3, <1>4, <1>5, <1>6, <1>7 DEF Next, Coordinator, Callers

\* A commit never revives a task that has ended.
LEMMA CommitEnds ==
    ASSUME Known, NEW t \in Tasks, Commit(t), NEW u \in Tasks, state[u] \in Terminal
    PROVE  state'[u] \in Terminal
PROOF
<1>1. t \in todo /\ state[t] # "succeeded" /\ TypeOK
  BY DEF Commit, Known, WorkInv, Entitled, Holding
<1>2. CASE Committed(t)
  BY <1>2 DEF Committed, Freed, Terminal
<1>3. ASSUME NEW unsaved \in BOOLEAN, FinishError(t, Active(RunOf[t]), unsaved)
      PROVE  state'[u] \in Terminal
  BY <1>1, <1>3, FinishErrorEffect
<1>4. CASE state' = state \/ state' = [state EXCEPT ![t] = "blocked"]
  BY <1>4, WorkTypes DEF Terminal
<1> QED
  BY <1>2, <1>3, <1>4 DEF Commit, Deferred

\* Steps of other threads leave the place and the locals of the round alone.
LEMMA LoopFrame ==
    ASSUME LoopInv,
           UNCHANGED <<pc, visit, at, todo, final, phase>>,
           final => \A t \in TasksOf(at) : state'[t] = state[t]
    PROVE  LoopInv'
PROOF
  BY DEF LoopInv, Contexts, AllTerminal, TasksOf

\* The thread keeps to its round: callers never resolve a context, and the
\* context being advanced is resolved only as the last thing done with it.
LEMMA StepLoop == Known /\ [Next]_vars => LoopInv'
PROOF
<1> SUFFICES ASSUME Known, [Next]_vars PROVE LoopInv'
  OBVIOUS
<1> USE DEF Known
<1>1. at \in Runs \cup {NoRun} /\ NoRun \notin Runs
  BY PlanAssumption DEF TypeOK, LoopTypeOK
<1>2. ASSUME NEW t \in Tasks, Worker(t) \/ Elapse(t)
      PROVE  LoopInv'
  BY <1>2, LoopFrame DEF Worker, WorkerStart, WorkerEnd, Elapse, loopVars, runVars,
                         graphVars
<1>3. ASSUME NEW t \in Tasks, Collect(t)
      PROVE  LoopInv'
  <2>1. /\ pc = "collect" /\ at \notin Runs /\ visit = {} /\ todo = {} /\ ~final
        /\ UNCHANGED <<visit, at, final, phase>>
        /\ \/ UNCHANGED <<pc, todo>>
           \/ pc' = "commit"
    BY <1>3 DEF Collect, runVars, LoopInv
  <2> QED
    BY <2>1 DEF LoopInv
<1>4. ASSUME NEW t \in Tasks, Commit(t)
      PROVE  LoopInv'
  <2>1. /\ UNCHANGED <<visit, at, final, phase>> /\ pc = "commit"
        /\ pc' = IF todo' # {} THEN "commit"
                 ELSE IF at = NoRun THEN "collect" ELSE "release"
    BY <1>4 DEF Commit, runVars
  <2>2. final => AllTerminal(at)'
    BY <1>4, <2>1, CommitEnds DEF LoopInv, AllTerminal, TasksOf
  <2> QED
    BY <1>1, <2>1, <2>2 DEF LoopInv, Contexts
<1>5. ASSUME NEW t \in Tasks, Admit(t)
      PROVE  LoopInv'
  BY <1>5 DEF Admit, LoopInv, loopVars, runVars, Contexts
<1>6. ASSUME NEW r \in Runs, CancelUnfinished(r) \/ BeginRelease(r)
      PROVE  LoopInv'
  <2>1. /\ pc = "advance" /\ r \in visit /\ visit' = visit \ {r} /\ at' = r
        /\ UNCHANGED <<final, phase>>
        /\ \/ pc' = "settle" /\ todo' = todo
           \/ pc' = IF todo' = {} THEN "release" ELSE "commit"
    BY <1>6 DEF CancelUnfinished, BeginRelease, runVars
  <2>2. at \notin Runs /\ ~final /\ visit \subseteq Contexts /\ todo = {}
    BY <2>1 DEF LoopInv
  <2> QED
    BY <2>1, <2>2 DEF LoopInv, Contexts
<1>7. CASE ForwardHeld \/ ReportGroups
  <2>1. at \in Runs /\ pc = "release" /\ todo = {}
    BY <1>7 DEF ForwardHeld, ReportGroups, Advancing, LoopInv
  <2>2. UNCHANGED <<visit, at, final, phase, state>>
    BY <1>7 DEF ForwardHeld, ReportGroups, runVars, loopVars, graphVars
  <2>3. \/ pc' = "commit"
        \/ pc' \in {"release", "pause"} /\ todo' = todo
        \/ pc' = "finish" /\ final /\ todo' = todo
    BY <1>7 DEF ForwardHeld, ReportGroups, loopVars
  <2> QED
    BY <2>1, <2>2, <2>3 DEF LoopInv, Contexts, AllTerminal
<1>8. CASE PauseContext
  <2>1. /\ at \in Runs /\ pc = "pause" /\ pc' = "settle"
        /\ UNCHANGED <<visit, at, todo, final, phase>>
    BY <1>8 DEF PauseContext, Advancing, runVars
  <2>2. \A t \in Tasks : state[t] \in Terminal => state'[t] \in Terminal
    BY <1>8 DEF PauseContext, CancelAll
  <2> QED
    BY <2>1, <2>2 DEF LoopInv, Contexts, AllTerminal, TasksOf
<1>9. CASE Settle
  <2>1. /\ at \in Runs /\ pc = "settle" /\ UNCHANGED <<visit, state>> /\ todo = {}
    BY <1>9 DEF Settle, Advancing, LoopInv
  <2>2. CASE /\ AllTerminal(at) /\ final' = TRUE /\ UNCHANGED <<at, phase>>
             /\ pc' = IF todo' = {} THEN "release" ELSE "commit"
    BY <2>1, <2>2 DEF LoopInv, Contexts, AllTerminal
  <2>3. CASE /\ ~AllTerminal(at) /\ at' = NoRun /\ pc' = "advance"
             /\ UNCHANGED <<todo, final>>
             /\ \/ phase' = [phase EXCEPT ![at] = "resolved"]
                \/ phase' = phase
    BY <1>1, <2>1, <2>3, WorkTypes DEF LoopInv, Contexts
  <2> QED
    BY <1>9, <2>2, <2>3 DEF Settle
<1>10. CASE Finish
  <2>1. /\ at \in Runs /\ pc' = "advance" /\ UNCHANGED <<visit, todo>> /\ todo = {}
        /\ phase' = [phase EXCEPT ![at] = "resolved"] /\ at' = NoRun /\ ~final'
    BY <1>10 DEF Finish, Advancing, LoopInv
  <2> QED
    BY <1>1, <2>1, WorkTypes DEF LoopInv, Contexts
<1>11. CASE Accept
  <2>1. /\ at \notin Runs /\ visit = {} /\ todo = {} /\ ~final
        /\ UNCHANGED <<visit, at, todo, final>> /\ pc' = "updates"
    BY <1>11 DEF Accept, loopVars, LoopInv
  <2> QED
    BY <2>1 DEF LoopInv
<1>12. CASE Observe \/ ApplyUpdates \/ DrainCompletions \/ BeginAdvance
            \/ EndAdvance \/ TakeLimits \/ EndAdmit \/ Exit \/ WakeUp \/ Fault
            \/ FailAll
  <2>1. /\ at \notin Runs /\ ~final /\ todo = {}
        /\ UNCHANGED <<at, final, todo>>
    BY <1>12 DEF Observe, ApplyUpdates, DrainCompletions, BeginAdvance,
                 EndAdvance, TakeLimits, EndAdmit, Exit, WakeUp, Fault, FailAll,
                 loopVars, LoopInv
  <2>2. CASE BeginAdvance
    BY <1>1, <2>1, <2>2 DEF BeginAdvance, LoopInv, Contexts, runVars
  <2>3. CASE ~BeginAdvance
    <3>1. /\ visit = {} /\ visit' = visit /\ pc' # "finish"
          /\ pc' = "fault" => "fault" \in Controls
      BY <1>12, <2>1, <2>3
         DEF Observe, ApplyUpdates, DrainCompletions, EndAdvance, TakeLimits,
             EndAdmit, Exit, WakeUp, Fault, FailAll, loopVars, LoopInv
    <3> QED
      BY <2>1, <3>1 DEF LoopInv
  <2> QED
    BY <2>2, <2>3
<1>13. ASSUME NEW r \in Runs, Submit(r)
       PROVE  LoopInv'
  <2>1. /\ phase[r] # "context" /\ phase' = [phase EXCEPT ![r] = "inbox"]
        /\ \A t \in Tasks : RunOf[t] # r => state'[t] = state[t]
        /\ pc' = IF pc = "off" THEN "round" ELSE pc
        /\ UNCHANGED <<visit, at, todo, final>>
    BY <1>13 DEF Submit, loopVars
  <2> QED
    BY <2>1, WorkTypes DEF LoopInv, Contexts, AllTerminal, TasksOf
<1>14. CASE (\E r \in Runs : Cancel(r)) \/ SetBackground \/ Drain \/ Pause
            \/ Resume \/ Close \/ UNCHANGED vars
  BY <1>14, LoopFrame DEF Cancel, SetBackground, Drain, Pause, Resume, Close, vars,
                          loopVars, runVars, graphVars
<1> QED
  BY <1>2, <1>3, <1>4, <1>5, <1>6, <1>7, <1>8, <1>9, <1>10, <1>11, <1>12, <1>13,
     <1>14 DEF Next, Coordinator, Callers

-----------------------------------------------------------------------------
(* The window of a resource.                                               *)

\* Futures that leave _futures leave the window of their resource with them.
LEMMA VacatedExact ==
    ASSUME Known, WindowExact, NEW S \in SUBSET Futures,
           Futures' = Futures \ S, submitted' = Vacated(S)
    PROVE  WindowExact'
PROOF
<1> SUFFICES ASSUME NEW s \in Resources
             PROVE  /\ submitted'[s] = Cardinality({t \in Futures' : ResourceOf[t] = s})
                    /\ submitted'[s] <= Limit[s]
  BY DEF WindowExact
<1> DEFINE all == {t \in Futures : ResourceOf[t] = s}
           gone == {t \in S : ResourceOf[t] = s}
<1>1. IsFiniteSet(all) /\ IsFiniteSet(gone)
  BY PlanAssumption, FS_Subset DEF Futures
<1>2. {t \in Futures' : ResourceOf[t] = s} = all \ gone /\ all \cap gone = gone
  OBVIOUS
<1>3. Cardinality(all \ gone) = Cardinality(all) - Cardinality(all \cap gone)
  BY <1>1, FS_Difference
<1>4. submitted[s] = Cardinality(all) /\ submitted[s] <= Limit[s]
  BY DEF WindowExact
<1>5. submitted'[s] = submitted[s] - Cardinality(gone)
  BY DEF Vacated
<1>6. Cardinality(gone) \in Nat /\ Cardinality(all) \in Nat /\ Limit[s] \in Nat
  BY <1>1, FS_CardinalityType, LimitAssumption
<1>7. submitted'[s] = Cardinality(all \ gone)
  <2> HIDE DEF all, gone
  <2> QED
    BY <1>2, <1>3, <1>4, <1>5, <1>6
<1>8. submitted'[s] <= Limit[s]
  <2> HIDE DEF all, gone
  <2> QED
    BY <1>4, <1>5, <1>6
<1> QED
  BY <1>2, <1>7, <1>8

\* A worker is started only while its resource has one free (_admit_resource,
\* ResourceLimits.worker_limit).
LEMMA AdmitExact ==
    ASSUME Known, WindowExact, NEW t \in ready, t \in Tasks, Candidate(t),
           future' = [future EXCEPT ![t] = "pending"],
           submitted' = [submitted EXCEPT ![ResourceOf[t]] = @ + 1]
    PROVE  WindowExact'
PROOF
<1> DEFINE mine == ResourceOf[t]
<1>1. t \notin Futures /\ Futures' = Futures \cup {t} /\ mine \in Resources
  BY WorkTypes, PlanAssumption DEF Known, WorkInv, Apart, Futures
<1>2. \A s \in Resources : WorkerLimit(s) \in Nat /\ WorkerLimit(s) <= Limit[s]
  <2>1. \A s \in Resources : Limit[s] \in Nat \ {0}
    BY LimitAssumption
  <2>2. IsFiniteSet(ExtractionGroups)
    <3> DEFINE extracting == {u \in Tasks : /\ ResourceOf[u] = Extraction
                                            /\ RunOf[u] \in Contexts}
               group == [u \in extracting |-> GroupOf[u]]
    <3>1. IsFiniteSet(extracting)
      BY PlanAssumption, FS_Subset
    <3>2. group \in Surjection(extracting, ExtractionGroups)
      BY DEF Surjection, ExtractionGroups
    <3> QED
      BY <3>1, <3>2, FS_Surjection
  <2>3. Cardinality(ExtractionGroups) \in Nat
    BY <2>2, FS_CardinalityType
  <2> QED
    BY <2>1, <2>3 DEF WorkerLimit
<1> SUFFICES ASSUME NEW s \in Resources
             PROVE  /\ submitted'[s] = Cardinality({u \in Futures' : ResourceOf[u] = s})
                    /\ submitted'[s] <= Limit[s]
  BY DEF WindowExact
<1> DEFINE all == {u \in Futures : ResourceOf[u] = s}
<1>3. IsFiniteSet(all)
  BY PlanAssumption, FS_Subset DEF Futures
<1>4. submitted[s] = Cardinality(all) /\ submitted[s] <= Limit[s]
  BY DEF WindowExact
<1>5. Cardinality(all) \in Nat /\ Limit[s] \in Nat
  BY <1>3, FS_CardinalityType, LimitAssumption
<1>6. submitted \in [Resources -> Int]
  BY DEF Known, TypeOK, WorkerTypeOK
<1>7. CASE s = mine
  <2>1. {u \in Futures' : ResourceOf[u] = s} = all \cup {t} /\ t \notin all
    BY <1>1, <1>7
  <2>2. Cardinality(all \cup {t}) = Cardinality(all) + 1
    BY <1>3, <2>1, FS_AddElement
  <2>3. submitted'[s] = submitted[s] + 1
    BY <1>6, <1>7
  <2>4. submitted[s] < WorkerLimit(s)
    BY <1>7 DEF Candidate
  <2>5. submitted'[s] = Cardinality(all \cup {t})
    BY <1>4, <2>2, <2>3
  <2>6. submitted'[s] <= Limit[s]
    BY <1>2, <1>5, <1>6, <2>3, <2>4
  <2> QED
    BY <2>1, <2>5, <2>6
<1>8. CASE s # mine
  <2>1. {u \in Futures' : ResourceOf[u] = s} = all
    BY <1>1, <1>8
  <2>2. submitted'[s] = submitted[s]
    BY <1>6, <1>8
  <2> QED
    BY <1>4, <2>1, <2>2
<1> QED
  BY <1>7, <1>8

\* Only a collected, withdrawn or admitted future changes its window.
LEMMA StepWindow == Known /\ WindowExact /\ [Next]_vars => WindowExact'
PROOF
<1> SUFFICES ASSUME Known, WindowExact, [Next]_vars PROVE WindowExact'
  OBVIOUS
<1>1. ASSUME Futures' = Futures, submitted' = submitted
      PROVE  WindowExact'
  BY <1>1 DEF WindowExact
<1>2. ASSUME NEW t \in Tasks, Collect(t)
      PROVE  WindowExact'
  <2>1. {t} \in SUBSET Futures
    BY <1>2, WorkTypes DEF Collect, Known, WorkInv, Collected, Futures
  <2>2. Futures' = Futures \ {t} /\ submitted' = Vacated({t})
    BY <1>2, WorkTypes DEF Collect, Futures
  <2> QED
    BY <2>1, <2>2, VacatedExact
<1>3. ASSUME NEW r \in Runs, CancelUnfinished(r)
      PROVE  WindowExact'
  <2> DEFINE withdrawn == {t \in TasksOf(r) : future[t] = "pending"}
  <2>1. /\ future' = [t \in Tasks |-> IF t \in withdrawn THEN "none" ELSE future[t]]
        /\ submitted' = Vacated(withdrawn)
    BY <1>3 DEF CancelUnfinished
  <2>2. withdrawn \in SUBSET Futures /\ Futures' = Futures \ withdrawn
    BY <2>1, WorkTypes DEF Futures, TasksOf
  <2> HIDE DEF withdrawn
  <2> QED
    BY <2>1, <2>2, VacatedExact
<1>4. ASSUME NEW t \in Tasks, Admit(t)
      PROVE  WindowExact'
  <2>1. CASE /\ future' = [future EXCEPT ![t] = "pending"]
             /\ submitted' = [submitted EXCEPT ![ResourceOf[t]] = @ + 1]
    BY <1>4, <2>1, AdmitExact DEF Admit
  <2>2. CASE UNCHANGED <<future, submitted>>
    BY <1>1, <2>2 DEF Futures
  <2> QED
    BY <1>4, <2>1, <2>2 DEF Admit
<1>5. ASSUME NEW t \in Tasks, Worker(t) \/ Elapse(t) \/ Commit(t)
      PROVE  WindowExact'
  BY <1>1, <1>5, WorkTypes DEF Worker, WorkerStart, WorkerEnd, Elapse, Commit,
                               workerVars, Futures
<1>6. CASE Fault
  BY <1>1, <1>6, WorkTypes DEF Fault, Futures
<1>7. CASE \/ \E r \in Runs : BeginRelease(r) \/ Submit(r) \/ Cancel(r)
           \/ Observe \/ Accept \/ ApplyUpdates \/ DrainCompletions
           \/ BeginAdvance \/ ForwardHeld \/ ReportGroups \/ PauseContext
           \/ Settle \/ Finish \/ EndAdvance \/ TakeLimits \/ EndAdmit \/ Exit
           \/ WakeUp \/ FailAll \/ SetBackground \/ Drain \/ Pause \/ Resume
           \/ Close \/ UNCHANGED vars
  <2>1. UNCHANGED <<future, submitted>>
    BY <1>7 DEF BeginRelease, Submit, Cancel, Observe, Accept, ApplyUpdates,
                DrainCompletions, BeginAdvance, ForwardHeld, ReportGroups,
                PauseContext, Settle, Finish, EndAdvance, TakeLimits, EndAdmit,
                Exit, WakeUp, FailAll, SetBackground, Drain, Pause, Resume,
                Close, vars, workerVars
  <2> QED
    BY <1>1, <2>1 DEF Futures
<1> QED
  BY <1>2, <1>3, <1>4, <1>5, <1>6, <1>7 DEF Next, Coordinator, Callers

-----------------------------------------------------------------------------
(* The invariant holds initially, and so in every reachable state.         *)

\* Nothing is taken up at first.
LEMMA InitKnown == Init => WorkInv /\ LoopInv /\ WindowExact
PROOF
<1> SUFFICES ASSUME Init PROVE WorkInv /\ LoopInv /\ WindowExact
  OBVIOUS
<1>1. Futures = {} /\ Holding = {}
  BY DEF Init, Futures, Holding
<1>2. Counted
  <2>1. ASSUME NEW t \in Tasks
        PROVE  {d \in DependsOn[t] : state[d] # "succeeded"} = DependsOn[t]
    BY PlanAssumption DEF Init
  <2> QED
    BY <2>1 DEF Init, Counted
<1>3. Owned /\ Entitled /\ DependencyOrder /\ Collected /\ NoOrphanWork
  BY <1>1 DEF Init, Owned, Entitled, DependencyOrder, Collected, NoOrphanWork
<1>4. Working /\ Apart
  BY <1>1 DEF Init, Working, Apart
<1>5. LoopInv
  BY PlanAssumption DEF Init, LoopInv, Contexts
<1>6. WindowExact
  <2>1. \A s \in Resources : {t \in Futures : ResourceOf[t] = s} = {}
    BY <1>1
  <2>2. Cardinality({}) = 0
    BY FS_EmptySet
  <2>3. \A s \in Resources : submitted[s] = 0 /\ 0 <= Limit[s]
    BY LimitAssumption DEF Init
  <2> QED
    BY <2>1, <2>2, <2>3 DEF WindowExact
<1> QED
  BY <1>2, <1>3, <1>4, <1>5, <1>6 DEF WorkInv

LEMMA KnownKept ==
    ASSUME NoRetake PROVE Spec => [](Known /\ WindowExact)
PROOF
<1>1. Init => Known /\ WindowExact
  BY InitTypeOK, InitKnown DEF Known, Advancing, Init
<1>2. Known /\ WindowExact /\ [Next]_vars => (Known /\ WindowExact)'
  BY StepTypeOK, StepAdvancing, StepWork, StepLoop, StepWindow DEF Known, NoRetake
<1> QED
  BY <1>1, <1>2, PTL DEF Spec

\* At every step each task that was taken up is in one place, belongs to a
\* context and awaits nothing, and the thread is where its round may be
\* (_collect_completions, _advance_contexts, _admit, _fail_all).
THEOREM Invariance == ASSUME NoRetake PROVE Spec => [](WorkInv /\ LoopInv)
PROOF
<1>1. Known /\ WindowExact => WorkInv /\ LoopInv
  BY DEF Known
<1> QED
  BY <1>1, KnownKept, PTL

\* A task is queued, on a worker or done only when every task it depends on has
\* succeeded (commit_success, queue_task, finish_failed).
THEOREM OrderKept == ASSUME NoRetake PROVE Spec => []DependencyOrder
PROOF
<1>1. Known /\ WindowExact => DependencyOrder
  BY DEF Known, WorkInv
<1> QED
  BY <1>1, KnownKept, PTL

\* No handler works on for a run whose handle was resolved (_finish_context,
\* _fail_context, _fail_all).
THEOREM OrphansNone == ASSUME NoRetake PROVE Spec => []NoOrphanWork
PROOF
<1>1. Known /\ WindowExact => NoOrphanWork
  BY DEF Known, WorkInv
<1> QED
  BY <1>1, KnownKept, PTL

\* The admission window of a resource counts exactly its futures, and never
\* exceeds its limit (_admit_resource, _collect_completions, _cancel_unfinished).
THEOREM WindowKept == ASSUME NoRetake PROVE Spec => []WindowExact
PROOF
  BY KnownKept, PTL
-----------------------------------------------------------------------------
(* The promise of PlanExecution.                                           *)

Done == {t \in Tasks : state[t] = "succeeded"}

LEMMA CancelAllDone ==
    ASSUME NEW S, state' = CancelAll(state, S) PROVE Done' = Done
PROOF
<1>1. \A u \in Tasks : state'[u] = "succeeded" <=> state[u] = "succeeded"
  BY DEF CancelAll, Terminal
<1> QED
  BY <1>1 DEF Done

\* A commit that succeeds does its task; nothing else that happens to a result
\* does one, or undoes one.
LEMMA ResultDone ==
    ASSUME Known, NEW t \in Tasks, Collect(t) \/ Commit(t) \/ Admit(t)
    PROVE  Done' = Done \/ (Commit(t) /\ Done' = Done \cup {t})
PROOF
<1>1. TypeOK /\ state \in [Tasks -> TaskStates]
  BY WorkTypes DEF Known
<1>2. state[t] # "succeeded"
  <2>1. t \in Holding
    BY DEF Collect, Commit, Admit, Known, WorkInv, Collected, Holding, Futures
  <2> QED
    BY <2>1 DEF Known, WorkInv, Entitled
<1>3. ASSUME NEW active, NEW unsaved \in BOOLEAN, FinishError(t, active, unsaved)
      PROVE  Done' = Done
  BY <1>1, <1>2, <1>3, FinishErrorEffect DEF Done
<1>4. CASE Collect(t)
  <2>1. CASE state' = state
    BY <2>1 DEF Done
  <2>2. CASE state' = CancelAll(state, {t})
    BY <2>2, CancelAllDone
  <2>3. CASE FinishError(t, Active(RunOf[t]) \ {t}, FALSE)
    BY <1>3, <2>3
  <2>4. CASE state' = Block(CancelAll(state, {t}), RunOf[t], Active(RunOf[t]) \ {t})
    <3>1. \A u \in Tasks : state'[u] = "succeeded" <=> state[u] = "succeeded"
      BY <2>4 DEF Block, CancelAll, Admissible, Terminal
    <3> QED
      BY <3>1 DEF Done
  <2> QED
    BY <1>4, <2>1, <2>2, <2>3, <2>4 DEF Collect
<1>5. CASE Commit(t)
  <2>1. CASE Committed(t)
    <3>1. \A u \in Tasks : state'[u] = "succeeded" <=> state[u] = "succeeded" \/ u = t
      BY <1>1, <2>1 DEF Committed, Freed
    <3> QED
      BY <1>5, <3>1 DEF Done
  <2>2. CASE Deferred(t)
    BY <2>2 DEF Deferred, Done
  <2>3. CASE state' = [state EXCEPT ![t] = "blocked"]
    <3>1. \A u \in Tasks : state'[u] = "succeeded" <=> state[u] = "succeeded"
      BY <1>1, <1>2, <2>3
    <3> QED
      BY <3>1 DEF Done
  <2>4. ASSUME NEW unsaved \in BOOLEAN, FinishError(t, Active(RunOf[t]), unsaved)
        PROVE  Done' = Done
    BY <1>3, <2>4
  <2> QED
    BY <1>5, <2>1, <2>2, <2>3, <2>4 DEF Commit
<1>6. CASE Admit(t)
  <2>1. CASE state' = state
    BY <2>1 DEF Done
  <2>2. CASE state' = Fail(state, t)
    <3>1. \A u \in Stopped(state, t) : u \in Tasks /\ state[u] \notin Terminal
      BY <1>2, StoppedWaits
    <3>2. \A u \in Tasks : state'[u] = "succeeded" <=> state[u] = "succeeded"
      BY <1>2, <2>2, <3>1 DEF Fail, Terminal
    <3> QED
      BY <3>2 DEF Done
  <2> QED
    BY <1>6, <2>1, <2>2 DEF Admit
<1> QED
  BY <1>4, <1>5, <1>6

\* No other step does or undoes a task.
LEMMA OtherDone ==
    ASSUME Known, [Next]_vars,
           ~(\E t \in Tasks : Collect(t) \/ Commit(t) \/ Admit(t))
    PROVE  Done' = Done
PROOF
<1>1. state \in [Tasks -> TaskStates]
  BY WorkTypes
<1>2. ASSUME NEW r \in Runs, CancelUnfinished(r)
      PROVE  Done' = Done
  <2>1. \E S : state' = CancelAll(state, S)
    BY <1>2 DEF CancelUnfinished
  <2> QED
    BY <2>1, CancelAllDone
<1>3. CASE PauseContext
  <2>1. state' = state \/ \E S : state' = CancelAll(state, S)
    BY <1>3 DEF PauseContext
  <2> QED
    BY <2>1, CancelAllDone DEF Done
<1>4. CASE ApplyUpdates \/ Accept \/ \E r \in Runs : Submit(r)
  <2>1. \A u \in Tasks : state'[u] = "succeeded" <=> state[u] = "succeeded"
    BY <1>1, <1>4 DEF ApplyUpdates, Accept, FirstTasks, Submit
  <2> QED
    BY <2>1 DEF Done
<1>5. CASE state' = state
  BY <1>5 DEF Done
<1> QED
  BY <1>2, <1>3, <1>4, <1>5
     DEF Next, Coordinator, Callers, Worker, WorkerStart, WorkerEnd, Elapse, Observe,
     DrainCompletions, BeginAdvance, BeginRelease, ForwardHeld, ReportGroups, Settle,
     Finish, EndAdvance, TakeLimits, EndAdmit, Exit, WakeUp, Fault, FailAll, Cancel,
     SetBackground, Drain, Pause, Resume, Close, vars, graphVars

\* A run gets its outcome when its context is over, and results are committed
\* only for contexts.
LEMMA StepOpen == Known /\ OpenInv /\ [Next]_vars => OpenInv'
PROOF
<1> SUFFICES ASSUME Known, OpenInv, [Next]_vars PROVE OpenInv'
  OBVIOUS
<1>1. /\ result \in [Runs -> {"none", "succeeded", "failed", "cancelled",
                              "paused", "error"}]
      /\ phase \in [Runs -> {"new", "inbox", "context", "resolved"}]
      /\ RunOf \in [Tasks -> Runs] /\ todo \subseteq Tasks /\ due \subseteq Tasks
      /\ at \in Runs => at \in Contexts
      /\ visit \subseteq Contexts
      /\ todo # {} => pc = "commit"
      /\ pc \in {"commit", "release", "settle"} => at \in Runs \cup {NoRun}
      /\ pc \in {"release", "settle"} => at \in Runs
      /\ held \subseteq Tasks
  BY PlanAssumption DEF Known, TypeOK, LoopTypeOK, RunTypeOK, GraphTypeOK, LoopInv,
                        Advancing
<1>2. Open'
  <2>1. ASSUME NEW r \in Runs, Submit(r)
        PROVE  Open'
    BY <1>1, <2>1 DEF Submit, OpenInv, Open
  <2>2. CASE Settle \/ Finish \/ FailAll \/ Accept
    BY <1>1, <2>2 DEF Settle, Finish, FailAll, Accept, OpenInv, Open
  <2>3. CASE UNCHANGED <<phase, result>>
    BY <2>3 DEF OpenInv, Open
  <2> QED
    BY <2>1, <2>2, <2>3
       DEF Next, Coordinator, Callers, Worker, WorkerStart, WorkerEnd, Elapse, Collect,
       Commit, Admit, CancelUnfinished, ApplyUpdates, PauseContext, Observe,
       DrainCompletions, BeginAdvance, BeginRelease, ForwardHeld, ReportGroups,
       EndAdvance, TakeLimits, EndAdmit, Exit, WakeUp, Fault, Cancel, SetBackground,
       Drain, Pause, Resume, Close, vars, runVars
<1>3. Awaited'
  <2>1. ASSUME NEW t \in Tasks, Collect(t)
        PROVE  Awaited'
    <3>1. phase' = phase /\ (todo' = todo \/ (todo' = {t} /\ RunOf[t] \in Contexts))
      BY <2>1 DEF Collect, runVars
    <3> QED
      BY <3>1 DEF OpenInv, Awaited, Contexts
  <2>2. CASE Settle
    <3>1. \/ phase' = phase /\ todo' = due \cap TasksOf(at)
          \/ todo' = {}
          \/ phase' = phase /\ todo' = todo
      BY <1>1, <2>2 DEF Settle
    <3> QED
      BY <1>1, <2>2, <3>1 DEF OpenInv, Awaited, TasksOf, Contexts, Settle
  <2>3. CASE Finish \/ FailAll
    BY <1>1, <2>3 DEF Finish, FailAll, loopVars, Awaited
  <2>4. ASSUME NEW r \in Runs, BeginRelease(r)
        PROVE  Awaited'
    BY <1>1, <2>4 DEF BeginRelease, runVars, Awaited, TasksOf, Contexts
  <2>5. CASE ForwardHeld
    BY <1>1, <2>5 DEF ForwardHeld, runVars, Awaited, Contexts
  <2>6. ASSUME NEW r \in Runs, Submit(r)
        PROVE  Awaited'
    BY <1>1, <2>6 DEF Submit, loopVars, OpenInv, Awaited
  <2>7. CASE Accept
    BY <1>1, <2>7 DEF Accept, loopVars, OpenInv, Awaited
  <2>8. CASE phase' = phase /\ todo' \subseteq todo
    BY <2>8 DEF OpenInv, Awaited
  <2> QED
    BY <2>1, <2>2, <2>3, <2>4, <2>5, <2>6, <2>7, <2>8
       DEF Next, Coordinator, Callers, Worker, WorkerStart, WorkerEnd, Elapse,
       Commit, Admit, CancelUnfinished, ApplyUpdates, PauseContext, Observe,
       DrainCompletions, BeginAdvance, ReportGroups, EndAdvance, TakeLimits, EndAdmit,
       Exit, WakeUp, Fault, Cancel, SetBackground, Drain, Pause, Resume, Close, vars,
       runVars, loopVars
<1> QED
  BY <1>2, <1>3 DEF OpenInv

\* The outcome of a context that ended tells whether all of its tasks are done.
LEMMA OutcomeTrue ==
    ASSUME Known, NEW r \in Runs, AllTerminal(r)
    PROVE  IF TasksOf(r) \subseteq Done THEN Outcome(r) = "succeeded"
           ELSE Outcome(r) \in {"failed", "cancelled", "paused"}
PROOF
<1>1. \A t \in TasksOf(r) : t \in Tasks /\ state[t] \in Terminal
  BY DEF AllTerminal, TasksOf
<1>2. CASE TasksOf(r) \subseteq Done
  BY <1>2 DEF Outcome, Done
<1>3. CASE ~(TasksOf(r) \subseteq Done)
  <2>1. PICK t \in TasksOf(r) : state[t] \in {"cancelled", "failed", "blocked"}
    BY <1>1, <1>3 DEF Done, Terminal
  <2> QED
    BY <1>3, <2>1 DEF Outcome
<1> QED
  BY <1>2, <1>3

\* Every step is one of PlanExecution, or changes nothing of it.
LEMMA StepExecutes ==
    Known /\ OpenInv /\ [Next]_vars => [Execution!Next]_<<Done, result>>
PROOF
<1> SUFFICES ASSUME Known, OpenInv, [Next]_vars
             PROVE  [Execution!Next]_<<Done, result>>
  OBVIOUS
<1>1. /\ result \in [Runs -> {"none", "succeeded", "failed", "cancelled",
                              "paused", "error"}]
      /\ RunOf \in [Tasks -> Runs]
      /\ \A r \in Runs : Execution!Plan(r) = TasksOf(r)
      /\ pc \in {"settle", "finish"} => at \in Runs
      /\ at \in Runs => at \in Contexts
  BY PlanAssumption DEF Known, TypeOK, RunTypeOK, LoopInv, Advancing, Execution!Plan,
                        TasksOf
<1>2. CASE UNCHANGED <<Done, result>>
  BY <1>2
<1>3. ASSUME NEW t \in Tasks, Commit(t), Done' = Done \cup {t}
      PROVE  Execution!Next
  <2>1. t \in todo /\ result' = result
    BY <1>3 DEF Commit, runVars
  <2>2. result[RunOf[t]] = "none"
    BY <1>1, <2>1 DEF OpenInv, Open, Awaited
  <2>3. state[t] # "succeeded" /\ \A d \in DependsOn[t] : state[d] = "succeeded"
    BY <2>1 DEF Known, WorkInv, Entitled, Holding
  <2>4. t \notin Done /\ DependsOn[t] \subseteq Done
    BY <2>3, PlanAssumption DEF Done
  <2> QED
    BY <1>3, <2>1, <2>2, <2>4 DEF Execution!Next, Execution!Do, Done
<1>4. ASSUME NEW r \in Runs, Submit(r), Done' = Done
      PROVE  [Execution!Next]_<<Done, result>>
  <2>1. /\ result' = [result EXCEPT ![r] = "none"]
        /\ phase[r] = "new" \/ result[r] # "succeeded"
    BY <1>4 DEF Submit
  <2>2. CASE result[r] = "none"
    BY <1>1, <1>4, <2>1, <2>2
  <2>3. CASE result[r] # "none"
    BY <1>4, <2>1, <2>3 DEF Execution!Next, Execution!Reopen, Done, OpenInv, Open
  <2> QED
    BY <2>2, <2>3
<1>5. CASE Finish /\ Done' = Done
  <2>1. /\ at \in Runs /\ result[at] = "none" /\ AllTerminal(at)
        /\ result' = [result EXCEPT ![at] = Outcome(at)]
    BY <1>1, <1>5 DEF Finish, Known, LoopInv, OpenInv, Open, Contexts
  <2>2. CASE TasksOf(at) \subseteq Done
    <3>1. Outcome(at) = "succeeded"
      BY <2>1, <2>2, OutcomeTrue
    <3> QED
      BY <1>1, <1>5, <2>1, <2>2, <3>1 DEF Execution!Next, Execution!Resolve, Done
  <2>3. CASE ~(TasksOf(at) \subseteq Done)
    <3>1. Outcome(at) \in {"failed", "cancelled", "paused"}
      BY <2>1, <2>3, OutcomeTrue
    <3> QED
      BY <1>1, <1>5, <2>1, <2>3, <3>1 DEF Execution!Next, Execution!Resolve, Done
  <2> QED
    BY <2>2, <2>3
<1>6. CASE Settle /\ Done' = Done /\ result' # result
  <2>1. /\ at \in Runs /\ result[at] = "none" /\ ~AllTerminal(at)
        /\ result' = [result EXCEPT ![at] = "error"]
    BY <1>1, <1>6 DEF Settle, OpenInv, Open, Contexts
  <2>2. ~(TasksOf(at) \subseteq Done)
    BY <2>1 DEF AllTerminal, Done, Terminal
  <2> QED
    BY <1>1, <1>6, <2>1, <2>2 DEF Execution!Next, Execution!Resolve, Done
<1>7. CASE FailAll /\ Done' = Done
  <2> DEFINE known == {r \in Runs : phase[r] \in {"inbox", "context"}}
  <2>1. /\ known \subseteq Runs
        /\ \A r \in known : result[r] = "none"
        /\ result' = [r \in Runs |-> IF r \in known THEN "error" ELSE result[r]]
    BY <1>7 DEF FailAll, OpenInv, Open
  <2> HIDE DEF known
  <2>2. Execution!Break(known)
    BY <1>7, <2>1 DEF Execution!Break, Done
  <2> QED
    BY <2>1, <2>2 DEF Execution!Next
<1>8. \/ UNCHANGED <<Done, result>>
      \/ \E t \in Tasks : Commit(t) /\ Done' = Done \cup {t}
      \/ /\ Done' = Done
         /\ (\E r \in Runs : Submit(r)) \/ Finish \/ Settle \/ FailAll
  <2>1. CASE \E t \in Tasks : Collect(t) \/ Commit(t) \/ Admit(t)
    <3>1. result' = result
      BY <2>1 DEF Collect, Commit, Admit, runVars
    <3> QED
      BY <2>1, <3>1, ResultDone
  <2>2. CASE ~(\E t \in Tasks : Collect(t) \/ Commit(t) \/ Admit(t))
    <3>1. Done' = Done
      BY <2>2, OtherDone
    <3>2. \/ result' = result
          \/ (\E r \in Runs : Submit(r)) \/ Finish \/ Settle \/ FailAll
      BY <2>2 DEF Next, Coordinator, Callers, Worker, WorkerStart, WorkerEnd, Elapse,
         CancelUnfinished, ApplyUpdates, PauseContext, Observe, Accept,
         DrainCompletions, BeginAdvance, BeginRelease, ForwardHeld, ReportGroups,
         EndAdvance, TakeLimits, EndAdmit, Exit, WakeUp, Fault, Cancel, SetBackground,
         Drain, Pause, Resume, Close, vars, runVars
    <3> QED
      BY <3>1, <3>2
  <2> QED
    BY <2>1, <2>2
<1> QED
  BY <1>2, <1>3, <1>4, <1>5, <1>6, <1>7, <1>8

\* The coordinator keeps the promise of PlanExecution: results are applied once,
\* in order and only to open runs, and every handle is told the truth
\* (commit_success, _finish_context, _fail_context, _fail_all).
THEOREM ExecutesPlans == ASSUME NoRetake PROVE Spec => Executes
PROOF
<1>1. Init => OpenInv /\ Execution!Init
  BY DEF Init, OpenInv, Open, Awaited, Execution!Init
<1>2. Known /\ WindowExact => Known
  OBVIOUS
<1>3. Spec => []Known
  BY <1>2, KnownKept, PTL
<1>4. Spec => []OpenInv
  BY <1>1, <1>3, StepOpen, PTL DEF Spec
<1> QED
  BY <1>1, <1>3, <1>4, StepExecutes, PTL DEF Spec, Executes, Execution!Spec, Done
=============================================================================
