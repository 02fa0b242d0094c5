----------------------- MODULE GraphCoordinator_proofs -----------------------
(***************************************************************************)
(* Theorems about GraphCoordinator for every plan, every set of runs and   *)
(* every mixture of callers.                                               *)
(***************************************************************************)
EXTENDS GraphCoordinator, FiniteSetTheorems, WellFoundedInduction, TLAPS

\* The natural-order gate moves forward, and at most one past the last group
\* (NaturalOrderGate.skip).
LEMMA SkipInOrder ==
    ASSUME NEW r \in Runs, NEW resolved, gateIndex[r] \in 1 .. Len(GroupsOf[r]) + 1
    PROVE  Skip(r, resolved) \in gateIndex[r] .. Len(GroupsOf[r]) + 1
PROOF
<1> DEFINE last == Len(GroupsOf[r]) + 1
           open == OpenPositions(r, resolved)
<1>1. GroupsOf[r] \in Seq(Groups)
  BY PlanAssumption
<1>2. last \in open /\ open \subseteq Nat
  BY <1>1 DEF OpenPositions
<1>3. PICK i \in open : \A j \in open : ~(<<j, i>> \in OpToRel(<, Nat))
  BY <1>2, NatLessThanWellFounded, WFMin
<1>4. \A j \in open : i <= j
  <2>1. \A a, b \in Nat : a < b => <<a, b>> \in OpToRel(<, Nat)
    BY DEF OpToRel
  <2>2. \A j \in open : ~(j < i)
    BY <1>2, <1>3, <2>1
  <2> QED
    BY <1>2, <2>2
<1>5. Skip(r, resolved) \in open
  BY <1>4 DEF Skip
<1> QED
  BY <1>5 DEF OpenPositions

LEMMA InitTypeOK == Init => TypeOK
PROOF
<1> SUFFICES ASSUME Init PROVE TypeOK
  OBVIOUS
<1>1. \A t \in Tasks : Cardinality(DependsOn[t]) \in Nat
  BY PlanAssumption, FS_Subset, FS_CardinalityType
<1>2. \A r \in Runs : 1 \in 1 .. Len(GroupsOf[r]) + 1
  BY PlanAssumption
<1>3. LoopTypeOK
  BY DEF Init, LoopTypeOK
<1>4. RunTypeOK
  BY DEF Init, RunTypeOK
<1>5. GraphTypeOK
  BY <1>1, LimitAssumption DEF Init, GraphTypeOK, TaskStates
<1>6. GateTypeOK
  BY <1>2 DEF Init, GateTypeOK
<1>7. WorkerTypeOK
  BY DEF Init, WorkerTypeOK
<1> QED
  BY <1>3, <1>4, <1>5, <1>6, <1>7 DEF TypeOK

LEMMA TransitionStates ==
    ASSUME NEW st \in [Tasks -> TaskStates], NEW t \in Tasks,
           NEW S, NEW r, NEW active
    PROVE  /\ CancelAll(st, S) \in [Tasks -> TaskStates]
           /\ Fail(st, t) \in [Tasks -> TaskStates]
           /\ Block(st, r, active) \in [Tasks -> TaskStates]
PROOF
<1>1. CancelAll(st, S) \in [Tasks -> TaskStates]
  BY DEF CancelAll, TaskStates
<1>2. Fail(st, t) \in [Tasks -> TaskStates]
  BY DEF Fail, TaskStates
<1>3. Block(st, r, active) \in [Tasks -> TaskStates]
  BY DEF Block, TaskStates
<1> QED
  BY <1>1, <1>2, <1>3

LEMMA FinishErrorTypes ==
    ASSUME GraphTypeOK, RunTypeOK, NEW t \in Tasks, NEW active,
           NEW unsaved \in BOOLEAN, FinishError(t, active, unsaved)
    PROVE  /\ state' \in [Tasks -> TaskStates] /\ journalFailed' \subseteq Runs
           /\ ready' \subseteq Tasks /\ held' \subseteq Tasks
           /\ waiting' \subseteq Tasks /\ due' \subseteq Tasks
PROOF
<1> DEFINE st == IF RunOf[t] \in cancelled THEN CancelAll(state, {t})
                 ELSE Fail(state, t)
<1>1. RunOf[t] \in Runs
  BY PlanAssumption
<1>2. st \in [Tasks -> TaskStates]
  BY TransitionStates DEF GraphTypeOK
<1>3. state' \in [Tasks -> TaskStates]
  <2>1. state' = st \/ state' = Block(st, RunOf[t], active)
    BY DEF FinishError
  <2> HIDE DEF st
  <2> QED
    BY <1>2, <2>1, TransitionStates
<1>4. journalFailed' \subseteq Runs
  BY <1>1 DEF FinishError, RunTypeOK
<1> QED
  BY <1>3, <1>4 DEF FinishError, Forget, GraphTypeOK

LEMMA VacatedType ==
    ASSUME WorkerTypeOK, NEW S, S \subseteq Tasks
    PROVE  Vacated(S) \in [Resources -> Int]
PROOF
<1>1. ASSUME NEW s \in Resources
      PROVE  Cardinality({t \in S : ResourceOf[t] = s}) \in Int
  <2>1. IsFiniteSet({t \in S : ResourceOf[t] = s})
    BY PlanAssumption, FS_Subset
  <2> QED
    BY <2>1, FS_CardinalityType
<1> QED
  BY <1>1 DEF Vacated, WorkerTypeOK

\* The steps of _release_results, _pause_context and _finish_context work on a
\* context: the thread is nowhere else while one is being advanced.
Advancing == pc \in {"release", "pause", "settle", "finish"} => at \in Runs

LEMMA StepAdvancing == TypeOK /\ Advancing /\ [Next]_vars => Advancing'
PROOF
<1> SUFFICES ASSUME TypeOK, Advancing, [Next]_vars PROVE Advancing'
  OBVIOUS
<1> USE DEF Advancing, loopVars, vars
<1>1. at \in Runs \cup {NoRun}
  BY DEF TypeOK, LoopTypeOK
<1>2. ASSUME NEW r \in Runs, CancelUnfinished(r) \/ BeginRelease(r)
      PROVE  Advancing'
  BY <1>2 DEF CancelUnfinished, BeginRelease
<1>3. ASSUME NEW t \in Tasks, Worker(t) \/ Elapse(t) \/ Collect(t) \/ Commit(t) \/ Admit(t)
      PROVE  Advancing'
  BY <1>1, <1>3 DEF Worker, WorkerStart, WorkerEnd, Elapse, Collect, Commit, Admit
<1>4. CASE ForwardHeld \/ ReportGroups \/ PauseContext \/ Settle \/ Finish
  BY <1>4 DEF ForwardHeld, ReportGroups, PauseContext, Settle, Finish
<1>5. CASE Observe \/ Accept \/ ApplyUpdates \/ DrainCompletions \/ BeginAdvance
           \/ EndAdvance \/ TakeLimits \/ EndAdmit \/ Exit \/ WakeUp \/ Fault
           \/ FailAll
  BY <1>5 DEF Observe, Accept, ApplyUpdates, DrainCompletions, BeginAdvance,
              EndAdvance, TakeLimits, EndAdmit, Exit, WakeUp, Fault, FailAll
<1>6. CASE Callers
  BY <1>6 DEF Callers, Submit, Cancel, SetBackground, Drain, Pause, Resume, Close
<1>7. CASE UNCHANGED vars
  BY <1>7
<1> QED
  BY <1>2, <1>3, <1>4, <1>5, <1>6, <1>7 DEF Next, Coordinator

LEMMA StepTypeOK == TypeOK /\ Advancing /\ [Next]_vars => TypeOK'
PROOF
<1> SUFFICES ASSUME TypeOK, Advancing, [Next]_vars PROVE TypeOK'
  OBVIOUS
<1> USE DEF TypeOK, LoopTypeOK, RunTypeOK, GraphTypeOK, GateTypeOK,
        WorkerTypeOK, TaskStates, vars, loopVars, controlVars, runVars,
        graphVars, gateVars, workerVars
<1>1. ASSUME NEW t \in Tasks, Collect(t) PROVE TypeOK'
  <2>1. submitted' \in [Resources -> Int]
    BY <1>1, VacatedType DEF Collect
  <2>2. GraphTypeOK' /\ RunTypeOK'
    <3> DEFINE active == Active(RunOf[t]) \ {t}
    <3>1. CASE FinishError(t, active, FALSE)
      BY <1>1, <3>1, FinishErrorTypes DEF Collect
    <3>2. ASSUME state' \in {state, CancelAll(state, {t}),
                             Block(CancelAll(state, {t}), RunOf[t], active)},
                 ready' \subseteq ready, held' \subseteq held \cup {t},
                 waiting' \subseteq waiting, due' \subseteq due,
                 journalFailed' \subseteq journalFailed \cup {RunOf[t]}
          PROVE  GraphTypeOK' /\ RunTypeOK'
      <4>1. CancelAll(state, {t}) \in [Tasks -> TaskStates]
        BY TransitionStates
      <4>2. Block(CancelAll(state, {t}), RunOf[t], active) \in [Tasks -> TaskStates]
        BY <4>1, TransitionStates
      <4>3. RunOf[t] \in Runs
        BY PlanAssumption
      <4> QED
        BY <1>1, <3>2, <4>1, <4>2, <4>3 DEF Collect
    <3> QED
      BY <1>1, <3>1, <3>2 DEF Collect, Forget
  <2>3. LoopTypeOK'
    BY <1>1 DEF Collect
  <2> QED
    BY <1>1, <2>1, <2>2, <2>3 DEF Collect
<1>2. ASSUME NEW t \in Tasks, Commit(t) PROVE TypeOK'
  <2>1. LoopTypeOK'
    BY <1>2 DEF Commit
  <2>2. GraphTypeOK' /\ RunTypeOK'
    <3>1. ASSUME NEW unsaved \in BOOLEAN,
                 FinishError(t, Active(RunOf[t]), unsaved),
                 UNCHANGED <<unresolved, retries>>
          PROVE  GraphTypeOK' /\ RunTypeOK'
      BY <1>2, <3>1, FinishErrorTypes DEF Commit
    <3>2. CASE Committed(t)
      BY <1>2, <3>2 DEF Commit, Committed, Freed, Dependants
    <3>3. CASE Deferred(t)
      BY <1>2, <3>3, LimitAssumption DEF Commit, Deferred, MayRetry
    <3>4. CASE RunOf[t] \in journalFailed
      BY <1>2, <3>4 DEF Commit
    <3> QED
      BY <1>2, <3>1, <3>2, <3>3, <3>4 DEF Commit
  <2> QED
    BY <1>2, <2>1, <2>2 DEF Commit
<1>3. ASSUME NEW t \in Tasks, Admit(t) PROVE TypeOK'
  <2>1. Fail(state, t) \in [Tasks -> TaskStates]
    BY TransitionStates
  <2>2. RunOf[t] \in Runs /\ ResourceOf[t] \in Resources
    BY PlanAssumption
  <2>3. CASE /\ future' = [future EXCEPT ![t] = "pending"]
             /\ interrupted' = interrupted \ {t}
             /\ submitted' = [submitted EXCEPT ![ResourceOf[t]] = @ + 1]
             /\ UNCHANGED <<state, signalled, journalFailed>>
    BY <1>3, <2>2, <2>3 DEF Admit
  <2>4. CASE /\ state' = Fail(state, t)
             /\ journalFailed' = journalFailed \cup {RunOf[t]}
             /\ Wake
             /\ UNCHANGED <<future, interrupted, submitted>>
    BY <1>3, <2>1, <2>2, <2>4 DEF Admit, Wake
  <2> QED
    BY <1>3, <2>3, <2>4 DEF Admit
<1>4. ASSUME NEW t \in Tasks, WorkerStart(t) PROVE TypeOK'
  BY <1>4 DEF WorkerStart, Wake
<1>5. ASSUME NEW t \in Tasks, WorkerEnd(t) PROVE TypeOK'
  BY <1>5 DEF WorkerEnd, Wake
<1>6. ASSUME NEW t \in Tasks, Elapse(t) PROVE TypeOK'
  BY <1>6 DEF Elapse, Wake
<1>7. ASSUME NEW r \in Runs, CancelUnfinished(r) PROVE TypeOK'
  <2>1. submitted' \in [Resources -> Int]
    BY <1>7, VacatedType DEF CancelUnfinished, TasksOf
  <2>2. state' \in [Tasks -> TaskStates]
    <3>1. \A S : CancelAll(state, S) \in [Tasks -> TaskStates]
      BY DEF CancelAll
    <3> QED
      BY <1>7, <3>1 DEF CancelUnfinished
  <2>3. future' \in [Tasks -> {"none", "pending", "running", "done", "error",
                               "cancelled"}]
    BY <1>7 DEF CancelUnfinished
  <2> QED
    BY <1>7, <2>1, <2>2, <2>3 DEF CancelUnfinished, Forget
<1>8. ASSUME NEW r \in Runs, BeginRelease(r) PROVE TypeOK'
  BY <1>8 DEF BeginRelease, Wake
<1>9. ASSUME NEW r \in Runs, Submit(r) PROVE TypeOK'
  <2>1. \A t \in Tasks :
            Cardinality({d \in DependsOn[t] : state[d] # "succeeded"}) \in Nat
    BY PlanAssumption, FS_Subset, FS_CardinalityType
  <2>2. Len(GroupsOf[r]) \in Nat
    BY PlanAssumption
  <2>3. GraphTypeOK'
    BY <1>9, <2>1, LimitAssumption DEF Submit
  <2>4. GateTypeOK'
    BY <1>9, <2>2 DEF Submit
  <2>5. RunTypeOK' /\ LoopTypeOK' /\ WorkerTypeOK'
    BY <1>9 DEF Submit, Wake
  <2> QED
    BY <2>3, <2>4, <2>5
<1>10. ASSUME NEW r \in Runs, Cancel(r) PROVE TypeOK'
  BY <1>10 DEF Cancel, Wake
<1>11. CASE Observe
  BY <1>11 DEF Observe, Wake
<1>12. CASE Accept
  <2>1. FirstTasks({r \in Runs : phase[r] = "inbox"}) \subseteq Tasks
    BY DEF FirstTasks
  <2> QED
    BY <1>12, <2>1 DEF Accept
<1>13. CASE ApplyUpdates
  BY <1>13 DEF ApplyUpdates, Wake
<1>14. CASE DrainCompletions
  BY <1>14 DEF DrainCompletions, Wake
<1>15. CASE BeginAdvance
  BY <1>15 DEF BeginAdvance, Contexts
<1>16. CASE ForwardHeld
  BY <1>16 DEF ForwardHeld, Wake
<1>17. CASE ReportGroups
  <2> DEFINE newly == {g \in GroupSet(at) \ terminal :
                        \A t \in TasksIn(g) : state[t] \in Terminal}
             index == IF at \in Natural /\ newly # {}
                      THEN Skip(at, terminal \cup newly) ELSE gateIndex[at]
  <2>1. at \in Runs
    BY <1>17 DEF ReportGroups, Advancing
  <2>2. GroupsOf[at] \in Seq(Groups)
    BY <2>1, PlanAssumption
  <2>3. index \in gateIndex[at] .. Len(GroupsOf[at]) + 1
    BY <2>1, <2>2, SkipInOrder
  <2>4. newly \subseteq Groups
    BY <2>2 DEF GroupSet
  <2>5. {GroupsOf[at][i] : i \in gateIndex[at] .. index - 1} \subseteq Groups
    <3>1. /\ gateIndex[at] \in 1 .. Len(GroupsOf[at]) + 1
          /\ Len(GroupsOf[at]) \in Nat
      BY <2>1, <2>2
    <3>2. \A i \in gateIndex[at] .. index - 1 : i \in 1 .. Len(GroupsOf[at])
      <4> HIDE DEF index
      <4> QED
        BY <2>3, <3>1
    <3> HIDE DEF index
    <3> QED
      BY <2>2, <3>2
  <2>6. /\ terminal' = terminal \cup newly
        /\ gateIndex' = [gateIndex EXCEPT ![at] = index]
        /\ reported' = reported \cup IF at \in Natural
             THEN {GroupsOf[at][i] : i \in gateIndex[at] .. index - 1}
             ELSE newly
    BY <1>17 DEF ReportGroups
  <2> HIDE DEF newly, index
  <2>7. GateTypeOK'
    BY <2>1, <2>2, <2>3, <2>4, <2>5, <2>6
  <2> QED
    BY <1>17, <2>7 DEF ReportGroups
<1>18. CASE PauseContext
  <2>1. \A S : CancelAll(state, S) \in [Tasks -> TaskStates]
    BY DEF CancelAll
  <2>2. state' \in [Tasks -> TaskStates]
    BY <1>18, <2>1 DEF PauseContext
  <2> QED
    BY <1>18, <2>2 DEF PauseContext, Active, Futures
<1>19. CASE Settle
  <2>1. at \in Runs
    BY <1>19 DEF Settle, Advancing
  <2>2. LoopTypeOK'
    BY <1>19, <2>1 DEF Settle, TasksOf
  <2>3. /\ phase' \in {phase, [phase EXCEPT ![at] = "resolved"]}
        /\ result' \in {result, [result EXCEPT ![at] = "error"]}
        /\ cancelled' \in {cancelled, cancelled \cup {at}}
        /\ UNCHANGED <<accepted, sequence, journalFailed>>
    BY <1>19 DEF Settle
  <2>4. RunTypeOK'
    BY <2>1, <2>3
  <2> QED
    BY <1>19, <2>2, <2>4 DEF Settle
<1>20. CASE Finish
  <2>0. at \in Runs
    BY <1>20 DEF Finish, Advancing
  <2>1. at \in Runs => Outcome(at) \in {"succeeded", "failed", "cancelled", "paused"}
    BY DEF Outcome
  <2> QED
    BY <1>20, <2>0, <2>1 DEF Finish, Forget
<1>21. CASE EndAdvance
  BY <1>21 DEF EndAdvance, Wake
<1>22. CASE TakeLimits
  BY <1>22 DEF TakeLimits, Wake
<1>23. CASE EndAdmit
  BY <1>23 DEF EndAdmit, Wake
<1>24. CASE Exit
  BY <1>24 DEF Exit, Wake
<1>25. CASE WakeUp
  BY <1>25 DEF WakeUp, Wake
<1>26. CASE Fault
  BY <1>26 DEF Fault, Wake
<1>27. CASE FailAll
  BY <1>27 DEF FailAll, Wake
<1>28. CASE SetBackground
  BY <1>28 DEF SetBackground, Wake
<1>29. CASE Drain
  BY <1>29 DEF Drain, Wake
<1>30. CASE Pause
  BY <1>30 DEF Pause, Wake
<1>31. CASE Resume
  BY <1>31 DEF Resume, Wake
<1>32. CASE Close
  BY <1>32 DEF Close, Wake
<1>33. CASE UNCHANGED vars
  BY <1>33
<1> QED
  BY <1>1, <1>2, <1>3, <1>4, <1>5, <1>6, <1>7, <1>8, <1>9, <1>10, <1>11, <1>12, <1>13, <1>14, <1>15, <1>16, <1>17, <1>18, <1>19, <1>20, <1>21, <1>22, <1>23, <1>24, <1>25, <1>26, <1>27, <1>28, <1>29, <1>30, <1>31, <1>32, <1>33
  DEF Next, Coordinator, Callers, Worker

\* Every variable keeps its shape, whatever the plan, the callers and the
\* failures: attempts at a locked destination stay within their bound and the
\* natural-order gate within the declared order.
THEOREM TypeCorrect == Spec => []TypeOK
PROOF
<1>1. Init => Advancing
  BY DEF Init, Advancing
<1> QED
  BY <1>1, InitTypeOK, StepTypeOK, StepAdvancing, PTL DEF Spec
=============================================================================
